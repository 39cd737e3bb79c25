-------------------------- MODULE PluginSvrProofs --------------------------
(***************************************************************************)
(* Descriptor ownership in PluginSvr for every number of clients, size of  *)
(* the table, backlog and FD_SETSIZE, as a daemon or not.                  *)
(***************************************************************************)
EXTENDS PluginSvr, FiniteSetTheorems, SequenceTheorems, WellFoundedInduction, TLAPS

-----------------------------------------------------------------------------
(* What the operators on descriptor tables return, for every table.        *)

\* There are finitely many free descriptors: Room compares a natural number.
LEMMA FreeFdsFinite ==
    ASSUME NEW t
    PROVE  IsFiniteSet(FreeFds(t)) /\ Cardinality(FreeFds(t)) \in Nat
<1>1. IsFiniteSet(Fd)
  BY FS_Interval, MaxFdsAssumption DEF Fd
<1>2. FreeFds(t) \subseteq Fd
  BY DEF FreeFds
<1> QED
  BY <1>1, <1>2, FS_Subset, FS_CardinalityType

\* A set of numbers that is not empty has a least one.
LEMMA LeastExists ==
    ASSUME NEW T, T \subseteq Nat, T # {}
    PROVE  \E x \in T : \A y \in T : x <= y
<1>1. PICK x \in T : \A y \in T : ~(<<y, x>> \in OpToRel(<, Nat))
  BY WFMin, NatLessThanWellFounded
<1>2. \A y \in T : ~(y < x)
  BY <1>1 DEF OpToRel
<1>3. \A y \in T : x <= y
  BY <1>2
<1> QED
  BY <1>3

\* When there is room, what open() returns was free.
LEMMA NextFdFree ==
    ASSUME NEW t, FreeFds(t) # {}
    PROVE  NextFd(t) \in Fd /\ t[NextFd(t)] = "free"
<1>1. FreeFds(t) \subseteq Nat
  BY MaxFdsAssumption DEF FreeFds, Fd
<1>2. \E f \in FreeFds(t) : \A g \in FreeFds(t) : f <= g
  BY <1>1, LeastExists
<1>3. NextFd(t) \in FreeFds(t)
  BY <1>2 DEF NextFd
<1> QED
  BY <1>3 DEF FreeFds

LEMMA RoomNonEmpty ==
    ASSUME NEW t, NEW n \in Nat \ {0}, Room(t, n)
    PROVE  FreeFds(t) # {}
<1> SUFFICES ASSUME FreeFds(t) = {}
             PROVE  FALSE
  OBVIOUS
<1>1. Cardinality(FreeFds(t)) = 0
  BY FS_EmptySet
<1> QED
  BY <1>1 DEF Room

\* Opening many files changes nothing but free descriptors.
LEMMA OpenManyOnlyFree ==
    ASSUME NEW S, NEW t \in [Fd -> S], NEW n, NEW owner \in S
    PROVE  /\ OpenMany(t, n, owner) \in [Fd -> S]
           /\ \A f \in Fd : \/ OpenMany(t, n, owner)[f] = t[f]
                            \/ t[f] = "free" /\ OpenMany(t, n, owner)[f] = owner
  BY DEF OpenMany

\* One open takes one descriptor: with two free, one remains.
LEMMA RoomAfterOne ==
    ASSUME NEW S, NEW t \in [Fd -> S], NEW owner, owner # "free", Room(t, 2)
    PROVE  FreeFds(OpenMany(t, 1, owner)) # {}
<1> DEFINE below(f) == {g \in FreeFds(t) : g < f}
<1>1. FreeFds(t) \subseteq Nat /\ IsFiniteSet(FreeFds(t))
  BY FreeFdsFinite, MaxFdsAssumption DEF FreeFds, Fd
<1>2. PICK a \in FreeFds(t) : \A y \in FreeFds(t) : a <= y
  <2>1. FreeFds(t) # {}
    BY RoomNonEmpty
  <2> QED
    BY <1>1, <2>1, LeastExists
<1>3. PICK b \in FreeFds(t) : b # a
  <2> SUFFICES ASSUME FreeFds(t) = {a}
               PROVE  FALSE
    BY <1>2
  <2>1. Cardinality(FreeFds(t)) = 1
    BY FS_Singleton
  <2> QED
    BY <2>1 DEF Room
<1>4. a \in below(b)
  BY <1>1, <1>2, <1>3
<1>5. Cardinality(below(b)) # 0 /\ Cardinality(below(b)) \in Nat
  <2>1. IsFiniteSet(below(b))
    BY <1>1, FS_Subset
  <2> HIDE DEF below
  <2> QED
    BY <1>4, <2>1, FS_EmptySet, FS_CardinalityType
<1>6. ~(FreeBelow(t, b) < 1)
  BY <1>5 DEF FreeBelow
<1>7. b \in Fd /\ OpenMany(t, 1, owner)[b] = "free"
  BY <1>3, <1>6 DEF OpenMany, FreeFds
<1> QED
  BY <1>7 DEF FreeFds

-----------------------------------------------------------------------------
(* The steps of the server.                                                *)

\* Start-up establishes the invariant.
LEMMA InitInv == Init => IndInv
<1> SUFFICES ASSUME Init
             PROVE  IndInv
  OBVIOUS
<1> USE MaxFdsAssumption, BootAssumption, ConnsAssumption DEF Init
<1>1. TypeOK
  <2>1. fds \in [Fd -> Owners]
    BY DEF BootTable, Owners
  <2>2. bev \in [Conns -> Fd \cup {NoFd}]
    BY DEF NoFd
  <2>3. backlog \in Seq(Conns)
    OBVIOUS
  <2>4. loop \in [at: Stages, conn: Conns \cup {"none"}]
    BY DEF Dispatch, At, Stages
  <2> QED
    BY <2>1, <2>2, <2>3, <2>4 DEF TypeOK
<1>2. FdOwnership
  BY DEF FdOwnership, BootTable, Live
<1>3. QueuesAgree
  BY DEF QueuesAgree, Live
<1> QED
  BY <1>1, <1>2, <1>3 DEF IndInv

\* A dead process holds nothing.
LEMMA DieInv == IndInv /\ Die => IndInv'
<1> SUFFICES ASSUME IndInv, Die
             PROVE  IndInv'
  OBVIOUS
<1>0. daemon \in BOOLEAN
  BY DEF IndInv, TypeOK
<1> USE MaxFdsAssumption, ConnsAssumption DEF Die
<1>1. TypeOK'
  BY <1>0 DEF TypeOK, Owners, NoFd, Dead, At, Stages
<1>2. FdOwnership'
  BY DEF FdOwnership, Live
<1>3. QueuesAgree'
  BY DEF QueuesAgree, Live
<1> QED
  BY <1>1, <1>2, <1>3 DEF IndInv

\* What a step that only writes log lines does to the table.
LEMMA WriteLogOnlyFree ==
    ASSUME TypeOK, NEW n
    PROVE  /\ WriteLog(fds, n) \in [Fd -> Owners]
           /\ \A f \in Fd : \/ WriteLog(fds, n)[f] = fds[f]
                            \/ fds[f] = "free" /\ WriteLog(fds, n)[f] = "log"
<1>1. fds \in [Fd -> Owners] /\ "log" \in Owners
  BY DEF TypeOK, Owners
<1> QED
  BY <1>1, OpenManyOnlyFree DEF WriteLog

\* Ownership survives the opening of log files while the loop dispatches.
LEMMA LoggingKeepsOwnership ==
    ASSUME IndInv, NEW n,
           fds' = WriteLog(fds, n), bev' = bev, loop' = loop, Serving
    PROVE  fds' \in [Fd -> Owners] /\ FdOwnership'
<1>1. /\ fds' \in [Fd -> Owners]
      /\ \A f \in Fd : fds'[f] = fds[f] \/ (fds[f] = "free" /\ fds'[f] = "log")
  BY WriteLogOnlyFree DEF IndInv
<1>2. \A f \in Fd : fds'[f] \in Conns => bev'[fds'[f]] = f
  BY <1>1, ConnsAssumption DEF IndInv, FdOwnership
<1>3. ASSUME NEW c \in Conns, Live(c)'
      PROVE  fds'[bev'[c]] = c
  <2>1. fds[bev[c]] = c
    BY <1>3, ConnsAssumption
    DEF IndInv, FdOwnership, Live, Serving, Dispatch, At
  <2>2. bev[c] \in Fd
    BY <1>3 DEF IndInv, TypeOK, Live
  <2> QED
    BY <1>1, <2>1, <2>2, ConnsAssumption
<1> QED
  BY <1>1, <1>2, <1>3 DEF FdOwnership

\* Nothing the peers do touches the server's descriptors.
LEMMA PeersInv ==
    ASSUME IndInv, Peers
    PROVE  IndInv'
<1>1. PICK c \in Conns :
          Connect(c) \/ Send(c) \/ HangUp(c, "fin") \/ HangUp(c, "rst")
  BY DEF Peers
<1>2. FdOwnership'
  BY <1>1 DEF Connect, Send, HangUp, IndInv, FdOwnership, Live
<1>3. CASE Connect(c)
  <2>1. TypeOK'
    BY <1>3 DEF Connect, IndInv, TypeOK
  <2>2. ~Live(c) /\ \A i \in DOMAIN backlog : backlog[i] # c
    BY <1>3 DEF Connect, IndInv, QueuesAgree
  <2>3. backlog \in Seq(Conns)
    BY DEF IndInv, TypeOK
  <2>4. /\ Len(backlog') = Len(backlog) + 1
        /\ \A i \in 1 .. Len(backlog) : backlog'[i] = backlog[i]
        /\ backlog'[Len(backlog) + 1] = c
        /\ DOMAIN backlog' = 1 .. Len(backlog) + 1
        /\ DOMAIN backlog = 1 .. Len(backlog)
        /\ Len(backlog) \in Nat
    BY <1>3, <2>3, AppendProperties DEF Connect
  <2>5. \A i \in DOMAIN backlog' :
          bev'[backlog'[i]] = NoFd /\ peer'[backlog'[i]] # "none"
    <3>1. \A k \in DOMAIN backlog :
            backlog[k] \in Conns /\ bev[backlog[k]] = NoFd /\ peer[backlog[k]] # "none"
      BY <2>3 DEF IndInv, QueuesAgree
    <3>2. /\ UNCHANGED bev /\ peer' = [peer EXCEPT ![c] = "up"]
          /\ peer \in [Conns -> {"none", "up", "fin", "rst"}]
      BY <1>3 DEF Connect, IndInv, TypeOK
    <3>3. bev[c] = NoFd
      BY <2>2 DEF Live
    <3> QED
      BY <2>4, <3>1, <3>2, <3>3
  <2>7. \A i, j \in DOMAIN backlog' : backlog'[i] = backlog'[j] => i = j
    <3>1. \A k, j \in DOMAIN backlog : backlog[k] = backlog[j] => k = j
      BY DEF IndInv, QueuesAgree
    <3> QED
      BY <2>2, <2>4, <3>1
  <2>6. QueuesAgree'
    BY <1>3, <2>5, <2>7 DEF Connect, IndInv, TypeOK, QueuesAgree, Live
  <2> QED
    BY <1>2, <2>1, <2>6 DEF IndInv
<1>4. CASE Send(c)
  BY <1>2, <1>4 DEF Send, IndInv, TypeOK, QueuesAgree, Live
<1>5. CASE HangUp(c, "fin") \/ HangUp(c, "rst")
  <2>1. TypeOK'
    BY <1>5 DEF HangUp, IndInv, TypeOK
  <2>2. \A d \in Conns : peer[d] # "none" => peer'[d] # "none"
    BY <1>5 DEF HangUp, IndInv, TypeOK
  <2>3. UNCHANGED <<fds, bev, backlog, loop>>
    BY <1>5 DEF HangUp
  <2>4. \A i \in DOMAIN backlog : backlog[i] \in Conns
    BY DEF IndInv, TypeOK
  <2>5. QueuesAgree'
    BY <2>2, <2>3, <2>4 DEF IndInv, QueuesAgree, Live
  <2> QED
    BY <1>2, <2>1, <2>5 DEF IndInv
<1> QED
  BY <1>1, <1>3, <1>4, <1>5

\* A queued connection can be taken from the head of the queue.
LEMMA TailKeepsQueue ==
    ASSUME IndInv, backlog # <<>>
    PROVE  /\ Head(backlog) \in Conns /\ ~Live(Head(backlog))
           /\ peer[Head(backlog)] # "none"
           /\ Tail(backlog) \in Seq(Conns)
           /\ \A i \in DOMAIN Tail(backlog) :
                 /\ Tail(backlog)[i] \in Conns \ {Head(backlog)}
                 /\ bev[Tail(backlog)[i]] = NoFd /\ peer[Tail(backlog)[i]] # "none"
           /\ \A i, j \in DOMAIN Tail(backlog) :
                 Tail(backlog)[i] = Tail(backlog)[j] => i = j
<1>1. backlog \in Seq(Conns)
  BY DEF IndInv, TypeOK
<1>2. /\ Tail(backlog) \in Seq(Conns)
      /\ Len(Tail(backlog)) = Len(backlog) - 1
      /\ \A i \in 1 .. Len(Tail(backlog)) : Tail(backlog)[i] = backlog[i + 1]
      /\ Head(backlog) = backlog[1]
      /\ DOMAIN backlog = 1 .. Len(backlog)
      /\ DOMAIN Tail(backlog) = 1 .. Len(Tail(backlog))
      /\ Len(backlog) \in Nat \ {0}
  BY <1>1, HeadTailProperties, EmptySeq
<1>3. /\ \A i \in DOMAIN backlog :
            backlog[i] \in Conns /\ bev[backlog[i]] = NoFd /\ peer[backlog[i]] # "none"
      /\ \A i, j \in DOMAIN backlog : backlog[i] = backlog[j] => i = j
  BY <1>1 DEF IndInv, QueuesAgree
<1>4. \A i \in DOMAIN Tail(backlog) :
        i + 1 \in DOMAIN backlog /\ Tail(backlog)[i] = backlog[i + 1] /\ i + 1 # 1
  BY <1>2
<1>5. 1 \in DOMAIN backlog
  BY <1>2
<1>6. \A i \in DOMAIN Tail(backlog) :
        /\ Tail(backlog)[i] \in Conns \ {Head(backlog)}
        /\ bev[Tail(backlog)[i]] = NoFd /\ peer[Tail(backlog)[i]] # "none"
  BY <1>2, <1>3, <1>4, <1>5
<1>7. ASSUME NEW i \in DOMAIN Tail(backlog), NEW j \in DOMAIN Tail(backlog),
             Tail(backlog)[i] = Tail(backlog)[j]
      PROVE  i = j
  <2>1. i + 1 = j + 1
    BY <1>3, <1>4, <1>7
  <2> QED
    BY <1>2, <2>1
<1> QED
  BY <1>2, <1>3, <1>5, <1>6, <1>7 DEF Live

\* Do_Accept gives the new bufferevent a descriptor nobody holds.
LEMMA AcceptInv ==
    ASSUME IndInv, Accept
    PROVE  IndInv'
<1> DEFINE c == Head(backlog)
           t == WriteLog(fds, 1)
<1>1. /\ c \in Conns /\ ~Live(c) /\ peer[c] # "none"
      /\ Serving
      /\ fds' = OpenFd(t, c) /\ bev' = [bev EXCEPT ![c] = NextFd(t)]
      /\ out' = [out EXCEPT ![c] = TRUE] /\ backlog' = Tail(backlog)
      /\ UNCHANGED <<peer, rx, loop, daemon>>
  BY TailKeepsQueue DEF Accept
<1>2. /\ t \in [Fd -> Owners]
      /\ \A f \in Fd : t[f] = fds[f] \/ (fds[f] = "free" /\ t[f] = "log")
  BY WriteLogOnlyFree DEF IndInv
<1>3. NextFd(t) \in Fd /\ t[NextFd(t)] = "free"
  <2>1. fds \in [Fd -> Owners] /\ Room(fds, 2)
    BY DEF Accept, IndInv, TypeOK
  <2>2. FreeFds(t) # {}
    BY <2>1, RoomAfterOne DEF WriteLog
  <2> QED
    BY <2>2, NextFdFree
<1>4. fds' = [t EXCEPT ![NextFd(t)] = c]
  BY <1>1 DEF OpenFd
<1> HIDE DEF c, t
<1>5. bev \in [Conns -> Fd \cup {NoFd}] /\ NoFd \notin Fd
  BY MaxFdsAssumption DEF IndInv, TypeOK, NoFd, Fd
<1>6. TypeOK'
  <2>1. fds' \in [Fd -> Owners]
    BY <1>1, <1>2, <1>4 DEF Owners
  <2>2. bev' \in [Conns -> Fd \cup {NoFd}]
    BY <1>1, <1>3, <1>5
  <2>3. backlog' \in Seq(Conns)
    BY TailKeepsQueue, <1>1 DEF Accept
  <2> QED
    BY <1>1, <2>1, <2>2, <2>3 DEF IndInv, TypeOK
<1>7. FdOwnership'
  <2>1. ASSUME NEW f \in Fd, fds'[f] \in Conns
        PROVE  bev'[fds'[f]] = f
    <3>1. CASE f = NextFd(t)
      BY <1>1, <1>2, <1>4, <1>5, <3>1
    <3>2. CASE f # NextFd(t)
      <4>1. fds'[f] = fds[f] /\ bev[fds[f]] = f
        BY <1>2, <1>4, <2>1, <3>2, ConnsAssumption DEF IndInv, FdOwnership
      <4>2. fds[f] # c
        BY <1>1, <1>5, <4>1 DEF Live
      <4> QED
        BY <1>1, <4>1, <4>2, <1>5, <2>1
    <3> QED
      BY <3>1, <3>2
  <2>2. ASSUME NEW d \in Conns, Live(d)'
        PROVE  fds'[bev'[d]] = d
    <3>1. CASE d = c
      BY <1>1, <1>2, <1>3, <1>4, <1>5, <3>1
    <3>2. CASE d # c
      <4>1. Live(d) /\ bev'[d] = bev[d] /\ bev[d] \in Fd
        BY <1>1, <1>5, <2>2, <3>2 DEF Live
      <4>2. fds[bev[d]] = d
        BY <1>1, <4>1, ConnsAssumption
        DEF IndInv, FdOwnership, Serving, Dispatch, At
      <4> QED
        BY <1>2, <1>3, <1>4, <4>1, <4>2, ConnsAssumption
    <3> QED
      BY <3>1, <3>2
  <2> QED
    BY <2>1, <2>2 DEF FdOwnership
<1>8. QueuesAgree'
  <2>1. \A d \in Conns : Live(d)' => peer'[d] # "none"
    BY <1>1, <1>5 DEF IndInv, QueuesAgree, Live
  <2>2. /\ \A i \in DOMAIN backlog' :
             bev'[backlog'[i]] = NoFd /\ peer'[backlog'[i]] # "none"
        /\ \A i, j \in DOMAIN backlog' : backlog'[i] = backlog'[j] => i = j
    BY <1>1, <1>5, TailKeepsQueue DEF Accept, c
  <2> QED
    BY <1>1, <2>1, <2>2 DEF QueuesAgree, Serving
<1> QED
  BY <1>6, <1>7, <1>8 DEF IndInv

\* A connection whose number is too large is closed, and a log line takes the
\* number: two lines' descriptors are all that is left of it.
LEMMA AcceptTooBigInv ==
    ASSUME IndInv, AcceptTooBig
    PROVE  IndInv'
<1> DEFINE c == Head(backlog)
<1>1. /\ c \in Conns /\ ~Live(c) /\ Serving
      /\ fds' = WriteLog(fds, 2) /\ backlog' = Tail(backlog)
      /\ peer' = [peer EXCEPT ![c] = "none"] /\ rx' = [rx EXCEPT ![c] = FALSE]
      /\ UNCHANGED <<bev, out, loop, daemon>>
      /\ backlog # <<>>
  BY TailKeepsQueue DEF AcceptTooBig
<1>2. fds' \in [Fd -> Owners] /\ FdOwnership'
  BY <1>1, LoggingKeepsOwnership
<1>3. TypeOK'
  BY <1>1, <1>2, TailKeepsQueue DEF IndInv, TypeOK
<1>4. QueuesAgree'
  <2>1. \A d \in Conns : Live(d)' => peer'[d] # "none"
    BY <1>1 DEF IndInv, TypeOK, QueuesAgree, Live
  <2>2. /\ \A i \in DOMAIN backlog' :
             bev'[backlog'[i]] = NoFd /\ peer'[backlog'[i]] # "none"
        /\ \A i, j \in DOMAIN backlog' : backlog'[i] = backlog'[j] => i = j
    BY <1>1, TailKeepsQueue DEF IndInv, TypeOK
  <2> QED
    BY <1>1, <2>1, <2>2 DEF QueuesAgree, Serving
<1> QED
  BY <1>2, <1>3, <1>4 DEF IndInv

\* The callbacks that only write log lines and change what is pending.
LEMMA ReadWriteInv ==
    ASSUME IndInv, NEW c \in Conns,
           (\E o \in Outcomes : Read(c, o)) \/ Write(c)
    PROVE  IndInv'
<1>1. PICK n : fds' = WriteLog(fds, n)
  BY DEF Read, Write
<1>2. /\ Serving
      /\ UNCHANGED <<bev, backlog, peer, loop, daemon>>
      /\ out' \in [Conns -> BOOLEAN] /\ rx' \in [Conns -> BOOLEAN]
  BY DEF Read, Write, IndInv, TypeOK, Replies, net
<1>3. fds' \in [Fd -> Owners] /\ FdOwnership'
  BY <1>1, <1>2, LoggingKeepsOwnership
<1>4. TypeOK'
  BY <1>2, <1>3 DEF IndInv, TypeOK
<1>5. QueuesAgree'
  BY <1>2 DEF IndInv, QueuesAgree, Live, Serving
<1> QED
  BY <1>3, <1>4, <1>5 DEF IndInv

\* The first step of Do_Error.
LEMMA DoErrorInv ==
    ASSUME IndInv, NEW c \in Conns, DoError(c)
    PROVE  IndInv'
<1>1. /\ Serving /\ Live(c) /\ UNCHANGED <<bev, out, backlog, peer, rx, daemon>>
      /\ bev[c] \in Fd /\ fds[bev[c]] = c /\ NoFd \notin Fd
  BY ConnsAssumption, MaxFdsAssumption
  DEF DoError, Eof, Failed, net, IndInv, TypeOK, FdOwnership, Live, Serving,
      Dispatch, At, NoFd, Fd
<1>2. CASE Eof(c)
  <2>1. fds' = [fds EXCEPT ![bev[c]] = "free"] /\ loop' = At("closed", c)
    BY <1>2 DEF Eof, CloseFd
  <2>2. TypeOK'
    BY <1>1, <2>1 DEF IndInv, TypeOK, Owners, At, Stages
  <2>3. FdOwnership'
    BY <1>1, <2>1, ConnsAssumption
    DEF IndInv, TypeOK, FdOwnership, Live, Serving, Dispatch, At
  <2>4. QueuesAgree'
    BY <1>1, <2>1 DEF IndInv, TypeOK, QueuesAgree, Live, At
  <2> QED
    BY <2>2, <2>3, <2>4 DEF IndInv
<1>3. CASE Failed(c)
  <2>1. fds' = fds /\ loop' = At("failed", c)
    BY <1>3 DEF Failed
  <2>2. TypeOK'
    BY <1>1, <2>1 DEF IndInv, TypeOK, At, Stages
  <2>3. FdOwnership'
    BY <1>1, <2>1, ConnsAssumption
    DEF IndInv, TypeOK, FdOwnership, Live, Serving, Dispatch, At
  <2>4. QueuesAgree'
    BY <1>1, <2>1 DEF IndInv, QueuesAgree, Live, At
  <2> QED
    BY <2>2, <2>3, <2>4 DEF IndInv
<1> QED
  BY <1>2, <1>3 DEF DoError

\* The log line of Do_Error, which may land on the number just closed.
LEMMA LoggedInv ==
    ASSUME IndInv, Logged
    PROVE  IndInv'
<1> DEFINE c == loop.conn
<1>1. /\ c \in Conns /\ Live(c) /\ bev[c] \in Fd
      /\ fds[bev[c]] \in {"free", c}
      /\ fds' = WriteLog(fds, 1) /\ loop' = At("logged", c)
      /\ UNCHANGED <<bev, out, backlog, peer, rx, daemon>>
  BY DEF Logged, net, IndInv, TypeOK, QueuesAgree, Live, Dispatch, Dead, At
<1>2. /\ fds' \in [Fd -> Owners]
      /\ \A f \in Fd : fds'[f] = fds[f] \/ (fds[f] = "free" /\ fds'[f] = "log")
  BY <1>1, WriteLogOnlyFree DEF IndInv
<1> HIDE DEF c
<1>3. TypeOK'
  BY <1>1, <1>2 DEF IndInv, TypeOK, At, Stages
<1>4. FdOwnership'
  <2>1. \A f \in Fd : fds'[f] \in Conns => bev'[fds'[f]] = f
    BY <1>1, <1>2, ConnsAssumption DEF IndInv, FdOwnership
  <2>2. ASSUME NEW d \in Conns, Live(d)'
        PROVE  \/ fds'[bev'[d]] = d
               \/ loop'.conn = d /\ fds'[bev'[d]] \in {"free", "log"}
    <3>1. bev'[d] = bev[d] /\ bev[d] \in Fd
      BY <1>1, <2>2 DEF IndInv, TypeOK, Live
    <3>2. CASE d = c
      BY <1>1, <1>2, <3>1, <3>2, ConnsAssumption DEF At
    <3>3. CASE d # c
      <4>1. fds[bev[d]] = d
        BY <1>1, <2>2, <3>1, <3>3 DEF IndInv, FdOwnership, Live, c
      <4> QED
        BY <1>2, <3>1, <4>1, ConnsAssumption
    <3> QED
      BY <3>2, <3>3
  <2> QED
    BY <2>1, <2>2 DEF FdOwnership
<1>5. QueuesAgree'
  BY <1>1 DEF IndInv, QueuesAgree, Live, At
<1> QED
  BY <1>3, <1>4, <1>5 DEF IndInv

\* bufferevent_free: the second close takes a free number, a log FILE's, or
\* the connection's own.
LEMMA FreedInv ==
    ASSUME IndInv, Freed
    PROVE  IndInv'
<1> DEFINE c == loop.conn
<1>1. /\ c \in Conns /\ Live(c) /\ bev[c] \in Fd /\ NoFd \notin Fd
      /\ fds' = [fds EXCEPT ![bev[c]] = "free"]
      /\ bev' = [bev EXCEPT ![c] = NoFd] /\ out' = [out EXCEPT ![c] = FALSE]
      /\ peer' = [peer EXCEPT ![c] = "none"] /\ rx' = [rx EXCEPT ![c] = FALSE]
      /\ loop' = Dispatch /\ backlog' = backlog /\ daemon' = daemon
  BY MaxFdsAssumption
  DEF Freed, CloseFd, IndInv, TypeOK, QueuesAgree, Live, Dispatch, Dead, At,
      NoFd, Fd
<1>2. \A d \in Conns \ {c} : Live(d) => fds[bev[d]] = d
  BY DEF IndInv, FdOwnership
<1> HIDE DEF c
<1>3. bev \in [Conns -> Fd \cup {NoFd}] /\ fds \in [Fd -> Owners]
  BY DEF IndInv, TypeOK
<1>4. TypeOK'
  BY <1>1 DEF IndInv, TypeOK, Owners, Dispatch, At, Stages
<1>5. FdOwnership'
  <2>1. ASSUME NEW f \in Fd, fds'[f] \in Conns
        PROVE  bev'[fds'[f]] = f
    <3>1. f # bev[c] /\ fds'[f] = fds[f]
      BY <1>1, <1>3, <2>1, ConnsAssumption
    <3>2. bev[fds[f]] = f
      BY <2>1, <3>1 DEF IndInv, FdOwnership
    <3> QED
      BY <1>1, <1>3, <2>1, <3>1, <3>2
  <2>2. ASSUME NEW d \in Conns, Live(d)'
        PROVE  fds'[bev'[d]] = d
    <3>1. d # c /\ Live(d) /\ bev'[d] = bev[d] /\ bev[d] \in Fd
      BY <1>1, <1>3, <2>2 DEF Live
    <3>2. fds[bev[d]] = d
      BY <1>2, <3>1
    <3>3. bev[d] # bev[c]
      BY <1>1, <1>3, <3>1, <3>2, ConnsAssumption DEF IndInv, FdOwnership, c
    <3> QED
      BY <1>1, <1>3, <3>1, <3>2, <3>3
  <2> QED
    BY <2>1, <2>2 DEF FdOwnership
<1>6. QueuesAgree'
  <2>1. \A d \in Conns : Live(d)' => peer'[d] # "none"
    BY <1>1, <1>3 DEF IndInv, TypeOK, QueuesAgree, Live
  <2>2. \A i \in DOMAIN backlog : backlog[i] \in Conns /\ backlog[i] # c
    BY <1>1 DEF IndInv, TypeOK, QueuesAgree, Live
  <2>3. /\ \A i \in DOMAIN backlog' :
             bev'[backlog'[i]] = NoFd /\ peer'[backlog'[i]] # "none"
        /\ \A i, j \in DOMAIN backlog' : backlog'[i] = backlog'[j] => i = j
    BY <1>1, <1>3, <2>2 DEF IndInv, TypeOK, QueuesAgree
  <2> QED
    BY <1>1, <2>1, <2>3 DEF QueuesAgree
<1> QED
  BY <1>4, <1>5, <1>6 DEF IndInv

\* Every step keeps the invariant.
LEMMA NextInv == IndInv /\ [Next]_vars => IndInv'
<1> SUFFICES ASSUME IndInv, [Next]_vars
             PROVE  IndInv'
  OBVIOUS
<1>1. CASE Peers
  BY <1>1, PeersInv
<1>2. CASE DoAccept
  BY <1>2, AcceptInv, AcceptTooBigInv, DieInv DEF DoAccept, AcceptDies
<1>3. ASSUME NEW c \in Conns, DoRead(c)
      PROVE  IndInv'
  BY <1>3, ReadWriteInv, DieInv DEF DoRead, ReadDies
<1>4. ASSUME NEW c \in Conns, DoWrite(c)
      PROVE  IndInv'
  BY <1>4, ReadWriteInv, DieInv DEF DoWrite, WriteDies, SigPipe
<1>5. ASSUME NEW c \in Conns, DoError(c)
      PROVE  IndInv'
  BY <1>5, DoErrorInv
<1>6. CASE Teardown
  BY <1>6, LoggedInv, FreedInv, DieInv DEF Teardown, LogDies
<1>7. CASE UNCHANGED vars
  BY <1>7 DEF vars, IndInv, TypeOK, FdOwnership, QueuesAgree, Live
<1> QED
  BY <1>1, <1>2, <1>3, <1>4, <1>5, <1>6, <1>7 DEF Next

\* The invariant holds in every reachable state.
THEOREM Invariance == Spec => []IndInv
<1> QED
  BY InitInv, NextInv, PTL DEF Spec

\* Every variable of test.cpp's model keeps its type.
THEOREM TypeCorrect == Spec => []TypeOK
<1>1. IndInv => TypeOK
  BY DEF IndInv
<1> QED
  BY Invariance, <1>1, PTL

\* No descriptor is shared, dangling or leaked with its connection.
THEOREM OwnershipHolds == Spec => []FdOwnership
<1>1. IndInv => FdOwnership
  BY DEF IndInv
<1> QED
  BY Invariance, <1>1, PTL

\* The accept queue and the stage of Do_Error agree with the bufferevents.
THEOREM QueuesAgreeHolds == Spec => []QueuesAgree
<1>1. IndInv => QueuesAgree
  BY DEF IndInv
<1> QED
  BY Invariance, <1>1, PTL
-----------------------------------------------------------------------------
(* The action properties, from the same invariant. *)

\* No step of a running server closes what belongs to another connection.
LEMMA NextOwnCloses == IndInv /\ Next /\ Running' => OwnCloses
<1> SUFFICES ASSUME IndInv, Next, Running'
             PROVE  OwnCloses
  OBVIOUS
<1>1. ASSUME NEW n, fds' = WriteLog(fds, n)
      PROVE  OwnCloses
  BY <1>1, WriteLogOnlyFree DEF IndInv, OwnCloses
<1>2. ~Die
  BY DEF Die, Running
<1>3. CASE Peers
  BY <1>3 DEF Peers, Connect, Send, HangUp, OwnCloses
<1>4. CASE Accept
  <2> DEFINE t == WriteLog(fds, 1)
  <2>1. /\ t \in [Fd -> Owners]
        /\ \A f \in Fd : t[f] = fds[f] \/ (fds[f] = "free" /\ t[f] = "log")
    BY WriteLogOnlyFree DEF IndInv
  <2>2. NextFd(t) \in Fd /\ t[NextFd(t)] = "free"
    <3>1. fds \in [Fd -> Owners] /\ Room(fds, 2)
      BY <1>4 DEF Accept, IndInv, TypeOK
    <3>2. FreeFds(t) # {}
      BY <3>1, RoomAfterOne DEF WriteLog
    <3> QED
      BY <3>2, NextFdFree
  <2>3. \A f \in Fd : f # NextFd(t) => fds'[f] = t[f]
    BY <1>4, <2>1, <2>2 DEF Accept, OpenFd
  <2>4. \A f \in Fd : fds[f] # "free" => fds'[f] = fds[f]
    BY <2>1, <2>2, <2>3
  <2> QED
    BY <2>4 DEF OwnCloses
<1>5. CASE AcceptTooBig
  BY <1>1, <1>5 DEF AcceptTooBig
<1>6. ASSUME NEW c \in Conns, DoRead(c) \/ DoWrite(c)
      PROVE  OwnCloses
  BY <1>1, <1>2, <1>6
  DEF DoRead, Read, ReadDies, DoWrite, Write, WriteDies, SigPipe
<1>7. ASSUME NEW c \in Conns, DoError(c)
      PROVE  OwnCloses
  <2>1. CASE Eof(c)
    <3>1. /\ fds' = [fds EXCEPT ![bev[c]] = "free"] /\ loop' = At("closed", c)
          /\ fds \in [Fd -> Owners] /\ fds[bev[c]] = c
      BY <2>1, ConnsAssumption
      DEF Eof, CloseFd, IndInv, TypeOK, FdOwnership, Serving, Dispatch, At
    <3>2. loop'.conn = c
      BY <3>1 DEF At
    <3> QED
      BY <3>1, <3>2 DEF OwnCloses
  <2>2. CASE Failed(c)
    BY <2>2 DEF Failed, OwnCloses
  <2> QED
    BY <1>7, <2>1, <2>2 DEF DoError
<1>8. CASE Logged
  BY <1>1, <1>8 DEF Logged
<1>9. CASE Freed
  <2>1. /\ loop.conn \in Conns /\ fds \in [Fd -> Owners]
        /\ fds' = [fds EXCEPT ![bev[loop.conn]] = "free"]
        /\ fds[bev[loop.conn]] \in {loop.conn, "free", "log"}
    BY <1>9
    DEF Freed, CloseFd, IndInv, TypeOK, FdOwnership, QueuesAgree, Dispatch,
        Dead, At, Live
  <2> QED
    BY <2>1 DEF OwnCloses
<1> QED
  BY <1>2, <1>3, <1>4, <1>5, <1>6, <1>7, <1>8, <1>9
  DEF Next, DoAccept, AcceptDies, Teardown, LogDies

\* The second close of Do_Error never takes another holder's descriptor.
THEOREM CloseOnlyOwnHolds == Spec => CloseOnlyOwn
<1>1. IndInv /\ [Next]_vars => [Running' => OwnCloses]_vars
  BY NextOwnCloses
<1> QED
  BY Invariance, <1>1, PTL DEF Spec, CloseOnlyOwn

\* Fewer numbers are wanted, fewer suffice.
LEMMA LessRoom ==
    ASSUME NEW n \in 0 .. 6, ~Room(fds, n)
    PROVE  ~Room(fds, 6)
  BY FreeFdsFinite DEF Room

\* The process ends only when it has too few descriptors left, or, in the
\* foreground, when it writes to a connection that was reset.
THEOREM DaemonDiesOnlyOfDescriptors == Spec => DiesOnlyOfDescriptors
<1>1. ASSUME Next, Running, ~Running'
      PROVE  ~Room(fds, 6) \/ ResetWhilePending
  <2>1. loop # Dead /\ loop' = Dead
    BY <1>1 DEF Running
  <2>2. \A o \in Outcomes : Lines(o) \in 0 .. 6
    BY DEF Outcomes, Lines
  <2>3. ~Peers
    BY <2>1 DEF Peers, Connect, Send, HangUp
  <2>4. \A c \in Conns : ~DoError(c)
    BY <2>1 DEF DoError, Eof, Failed, At, Dead
  <2>5. CASE DoAccept
    BY <2>1, <2>5, LessRoom DEF DoAccept, Accept, AcceptTooBig, AcceptDies
  <2>6. ASSUME NEW c \in Conns, DoRead(c)
        PROVE  ~Room(fds, 6)
    BY <2>1, <2>2, <2>6, LessRoom DEF DoRead, Read, ReadDies
  <2>7. ASSUME NEW c \in Conns, DoWrite(c)
        PROVE  ~Room(fds, 6) \/ ResetWhilePending
    <3>1. CASE Write(c) \/ WriteDies(c)
      BY <2>1, <3>1, LessRoom DEF Write, WriteDies
    <3>2. CASE SigPipe(c)
      BY <3>2 DEF SigPipe, ResetWhilePending
    <3> QED
      BY <2>7, <3>1, <3>2 DEF DoWrite
  <2>8. CASE Teardown
    BY <2>1, <2>8, LessRoom
    DEF Teardown, Logged, LogDies, Freed, At, Dead, Dispatch
  <2> QED
    BY <1>1, <2>3, <2>4, <2>5, <2>6, <2>7, <2>8 DEF Next
<1>2. [Next]_vars => [Running /\ ~Running' => ~Room(fds, 6) \/ ResetWhilePending]_vars
  BY <1>1
<1> QED
  BY <1>2, PTL DEF Spec, DiesOnlyOfDescriptors
=============================================================================
