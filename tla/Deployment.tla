----------------------------- MODULE Deployment -----------------------------
(***************************************************************************)
(* The server between the operator, who changes pt.vfs and server.cfg and  *)
(* restarts it, and the clients it is to bring up to date.  The version is *)
(* read from server.cfg at start-up (ConfigUtil.cpp, test.cpp); the plugin *)
(* is read from disk at every request, twice: for its bytes and for their  *)
(* digest (PkgUtil.cpp, FileUtil.cpp, Md5.cpp).                            *)
(*                                                                         *)
(* A file is a pair: its front and its back half, each of the version that *)
(* was written there, 0 for nothing.  The front says the plugin's version. *)
(***************************************************************************)
EXTENDS Naturals, Sequences

CONSTANTS
    Clients,
    Versions,   \* of the plugin, numbers other than 0
    ItemSets,   \* the items of server.cfg the operator may write
    MaxEdits    \* bounds what the operator does

ASSUME DeploymentAssumption ==
    /\ Versions \subseteq Nat \ {0} /\ MaxEdits \in Nat /\ "nobody" \notin Clients

VARIABLES
    how,      \* how plugins are put in place: by "rename" or "copy"
    vfs,      \* pt.vfs
    cfg,      \* server.cfg: is it there, its items, its ServerVersion
    edits,    \* what the operator has done so far
    process,  \* is the server running: "up" or "down"
    given,    \* the version server.cfg gave when the server started, if it was complete
    conf,     \* what ConfigUtil holds: which items were read, the version
    build,    \* the plugin reply being built
    client,   \* "idle", "asked", "answered", or "lost" when no answer comes
    reply,    \* the answer on its way to each client
    has,      \* the plugin each client has installed
    told,     \* was the last thing a client heard "is up to date"
    onDisk    \* everything pt.vfs has ever been

vars == <<how, vfs, cfg, edits, process, given, conf, build, client, reply, has,
          told, onDisk>>

operatorVars == <<how, vfs, cfg, edits, onDisk>>
serverVars   == <<process, given, conf, build>>
clientVars   == <<client, reply, has, told>>

Missing   == <<0, 0>>
Whole(v)  == <<v, v>>
IsWhole(f) == f[1] = f[2] /\ f # Missing
Version(f) == f[1]
File      == (Versions \cup {0}) \X (Versions \cup {0})

NoBuild  == [for |-> "nobody"]
NoReply  == [kind |-> "none"]
IsUpdate == [kind |-> "isUpdate"]
Plugin(bytes, digest) == [kind |-> "plugin", bytes |-> bytes, digest |-> digest]

NoCfg == [there |-> FALSE, items |-> {}, version |-> 0]
Cfg   == {NoCfg} \cup [there : {TRUE}, items : ItemSets, version : Versions]

\* What the operator may take for enough: all that has no default that counts.
Complete(c) == {"ServerPort", "LogLevel", "ServerVersion"} \subseteq c.items

NotRunning == [read |-> {}, version |-> 0]

-----------------------------------------------------------------------------
(* Start-up.                                                               *)

\* The items in the order ReadCfg asks for them; two have a default that counts.
\* LogLevel has one too, but GetItemValue returns false with it.
CfgItems == <<"ServerIp", "ServerPort", "LogDir", "LogLevel", "ServerVersion">>
Defaulted == {"ServerIp", "LogDir"}

\* Mutant of Got: a missing directory ends the reading too.
Got_NoDefault(c, item) == item \in c.items

Got(c, item) == item \in c.items \cup Defaulted

\* ReadCfg gives up at the first item it does not get; what it would have read
\* after that is left as it was.
ReadCfg(c) ==
    {CfgItems[i] : i \in {j \in DOMAIN CfgItems : c.there /\ \A k \in 1 .. j : Got(c, CfgItems[k])}}

\* Initialize ignores the result of ReadCfg. With an address or a port that was
\* not read the server listens where nobody asks, unless bind fails and Run
\* returns.
Start ==
    /\ process = "down" /\ given' = IF Complete(cfg) THEN cfg.version ELSE 0
    /\ \E v \in Versions \cup {0} :
          /\ "ServerVersion" \in ReadCfg(cfg) => v = cfg.version
          /\ conf' = [read |-> ReadCfg(cfg), version |-> v]
    /\ process' = "up"
    /\ UNCHANGED <<operatorVars, clientVars, build>>

Bound == {"ServerIp", "ServerPort"} \subseteq conf.read

\* The process is gone, its memory and its connections with it; what it has
\* sent arrives.
Gone ==
    /\ process' = "down" /\ build' = NoBuild /\ conf' = NotRunning /\ given' = 0
    /\ client' = [c \in Clients |-> IF client[c] = "asked" THEN "lost" ELSE client[c]]
    /\ UNCHANGED <<reply, has, told>>

RunReturns == process = "up" /\ ~Bound /\ Gone /\ UNCHANGED operatorVars

Init ==
    /\ how \in {"rename", "copy"} /\ edits = 0
    /\ vfs \in {Missing} \cup {Whole(v) : v \in Versions} /\ onDisk = {vfs}
    /\ cfg \in Cfg /\ given = 0
    /\ process = "down" /\ conf = NotRunning /\ build = NoBuild
    /\ client = [c \in Clients |-> "idle"] /\ reply = [c \in Clients |-> NoReply]
    /\ has \in [Clients -> {Whole(v) : v \in Versions}] /\ told = [c \in Clients |-> FALSE]

-----------------------------------------------------------------------------
(* The operator.                                                           *)

Edit == edits < MaxEdits /\ edits' = edits + 1

Put(f) == vfs' = f /\ onDisk' = onDisk \cup {f}

\* mv new.vfs pt.vfs, or rm pt.vfs: who has the old file open reads on in it.
Rename ==
    /\ how = "rename" /\ Edit
    /\ \E f \in {Missing} \cup {Whole(v) : v \in Versions} : Put(f)
    /\ UNCHANGED <<how, cfg, serverVars, clientVars>>

\* cp new.vfs pt.vfs: the file is emptied, then written, before all eyes.
CopyFront ==
    /\ how = "copy" /\ Edit
    /\ \E v \in Versions : Put(<<v, 0>>)
    /\ UNCHANGED <<how, cfg, serverVars, clientVars>>

CopyBack ==
    /\ vfs[2] = 0 /\ vfs # Missing /\ Put(Whole(Version(vfs)))
    /\ UNCHANGED <<how, cfg, edits, serverVars, clientVars>>

WriteCfg ==
    /\ Edit /\ cfg' \in Cfg
    /\ UNCHANGED <<how, vfs, onDisk, serverVars, clientVars>>

Kill ==
    /\ process = "up" /\ Edit /\ Gone
    /\ UNCHANGED <<how, vfs, cfg, onDisk>>

-----------------------------------------------------------------------------
(* The server: one callback at a time.                                     *)

Send(c, r) ==
    /\ client' = [client EXCEPT ![c] = "answered"] /\ reply' = [reply EXCEPT ![c] = r]
    /\ UNCHANGED <<has, told>>

SendNothing(c) == client' = [client EXCEPT ![c] = "lost"] /\ UNCHANGED <<reply, has, told>>

Building == build.for # "nobody"

Idle(c) == process = "up" /\ ~Building /\ client[c] = "asked"

\* The client has the version of server.cfg.
BuildIsUpdatePkg(c) ==
    /\ Idle(c) /\ Version(has[c]) = conf.version /\ Send(c, IsUpdate)
    /\ UNCHANGED <<operatorVars, serverVars>>

\* FileToBytes opens the file; when there is none an empty reply is "sent".
OpenVfs(c) ==
    /\ Idle(c) /\ Version(has[c]) # conf.version
    /\ IF vfs = Missing
       THEN SendNothing(c) /\ UNCHANGED build
       ELSE build' = [for |-> c, opened |-> vfs, bytes |-> <<>>] /\ UNCHANGED clientVars
    /\ UNCHANGED <<operatorVars, process, given, conf>>

\* The next half, of the file that is there or of the one renamed away.
FileToBytes ==
    /\ Building /\ Len(build.bytes) < 2
    /\ \E f \in {IF how = "rename" THEN build.opened ELSE vfs} :
          build' = [build EXCEPT !.bytes = Append(@, f[Len(@) + 1])]
    /\ UNCHANGED <<operatorVars, clientVars, process, given, conf>>

\* Mutant of GetFileMd5: the digest is computed from the bytes already read.
GetFileMd5_OfBytes == build.bytes

\* The file is opened again, by its name.
GetFileMd5 == vfs

\* Mutant of SendPlugin: the reply is sent but its parts are kept.
SendPlugin_Keeps ==
    /\ Building /\ Len(build.bytes) = 2
    /\ IF vfs = Missing THEN SendNothing(build.for)
       ELSE Send(build.for, Plugin(build.bytes, GetFileMd5))
    /\ UNCHANGED <<operatorVars, serverVars>>

SendPlugin ==
    /\ Building /\ Len(build.bytes) = 2
    /\ IF vfs = Missing THEN SendNothing(build.for)
       ELSE Send(build.for, Plugin(build.bytes, GetFileMd5))
    /\ build' = NoBuild
    /\ UNCHANGED <<operatorVars, process, given, conf>>

-----------------------------------------------------------------------------
(* The clients ask again and again; the digest guards what they install.   *)

Ask(c) ==
    /\ client[c] = "idle" /\ process = "up" /\ Bound
    /\ client' = [client EXCEPT ![c] = "asked"]
    /\ UNCHANGED <<operatorVars, serverVars, reply, has, told>>

Receive(c) ==
    /\ client[c] = "answered"
    /\ client' = [client EXCEPT ![c] = "idle"] /\ reply' = [reply EXCEPT ![c] = NoReply]
    /\ told' = [told EXCEPT ![c] = reply[c].kind = "isUpdate"]
    /\ has' = IF reply[c].kind = "plugin" /\ reply[c].bytes = reply[c].digest
              THEN [has EXCEPT ![c] = reply[c].bytes]
              ELSE has
    /\ UNCHANGED <<operatorVars, serverVars>>

GiveUp(c) ==
    /\ client[c] = "lost"
    /\ client' = [client EXCEPT ![c] = "idle"]
    /\ UNCHANGED <<operatorVars, serverVars, reply, has, told>>

-----------------------------------------------------------------------------
DoRead(c) == BuildIsUpdatePkg(c) \/ OpenVfs(c)

Next ==
    \/ Start \/ RunReturns \/ Kill \/ Rename \/ CopyFront \/ CopyBack \/ WriteCfg
    \/ FileToBytes \/ SendPlugin
    \/ \E c \in Clients : Ask(c) \/ BuildIsUpdatePkg(c) \/ OpenVfs(c) \/ Receive(c) \/ GiveUp(c)

Spec == Init /\ [][Next]_vars

\* The process keeps running its callback and its loop serves every ready
\* connection in turn; clients keep asking. The operator may stop at any time.
Fairness ==
    /\ WF_vars(FileToBytes) /\ WF_vars(SendPlugin)
    /\ \A c \in Clients : SF_vars(DoRead(c)) /\ WF_vars(Ask(c)) /\ WF_vars(Receive(c))
                          /\ WF_vars(GiveUp(c))

FairSpec == Spec /\ Fairness

-----------------------------------------------------------------------------
(* Properties.                                                             *)

\* A reply is on its way exactly to the clients that were answered, and the
\* server builds only for a client that still waits.
DeploymentTypeOK ==
    /\ vfs \in File /\ cfg \in Cfg /\ edits \in 0 .. MaxEdits /\ has \in [Clients -> File]
    /\ client \in [Clients -> {"idle", "asked", "answered", "lost"}]
    /\ \A c \in Clients : reply[c].kind # "none" <=> client[c] = "answered"
    /\ Building => process = "up" /\ client[build.for] = "asked"

\* What a client installs is a file as it once was on disk, never the halves of
\* two, however deployments fall between the reads of one reply.
InstallsWhatWasOnDisk == [][\A c \in Clients : has'[c] # has[c] => has'[c] \in onDisk]_vars

\* The operator has done all there is to do: the plugin is whole, and the
\* server was started from a server.cfg that gives its version and lacks
\* nothing that has no default.
Deployed ==
    /\ process = "up" /\ IsWhole(vfs)
    /\ given = Version(vfs)

\* Once that is so for good, and new plugins were moved into place, every
\* client ends with that plugin and is told that it is up to date, whatever
\* was under way before.
Converges ==
    how = "rename" /\ <>[]Deployed
        => \A c \in Clients : <>[](has[c] = vfs /\ told[c])
=============================================================================
