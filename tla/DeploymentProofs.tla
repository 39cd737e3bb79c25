-------------------------- MODULE DeploymentProofs --------------------------
(***************************************************************************)
(* Deployment keeps its types, and what clients install was once on disk,  *)
(* for any clients, versions, server.cfgs and number of deployments.       *)
(***************************************************************************)
EXTENDS Deployment, TLAPS

Half  == Versions \cup {0}
Reply == {NoReply, IsUpdate} \cup [kind : {"plugin"}, bytes : Seq(Half), digest : File]
Build == {NoBuild} \cup [for : Clients, opened : File, bytes : Seq(Half)]

\* What the type invariant leaves unsaid of the values.
Shapes ==
    /\ reply \in [Clients -> Reply] /\ build \in Build
    /\ process \in {"up", "down"}

\* The digest of every reply on its way is that of a file that was on disk.
DigestsOnDisk ==
    /\ vfs \in onDisk
    /\ \A c \in Clients : reply[c].kind = "plugin" => reply[c].digest \in onDisk

DepInv == DeploymentTypeOK /\ Shapes /\ DigestsOnDisk

-----------------------------------------------------------------------------
\* Whole files are files.
LEMMA WholeIsFile == Missing \in File /\ \A v \in Versions : Whole(v) \in File
  BY DEF Missing, Whole, File

\* Before anything has been deployed the invariant holds.
THEOREM InitDepInv == Init => DepInv
  BY DeploymentAssumption, WholeIsFile
  DEF Init, DepInv, DeploymentTypeOK, Shapes, DigestsOnDisk, Reply, Build, NoReply, NoBuild,
      Building, Missing, Whole, File

-----------------------------------------------------------------------------
USE DEF operatorVars, serverVars, clientVars

\* The operator's steps change no reply, and onDisk only grows.
LEMMA OperatorKeeps ==
  ASSUME DepInv, Rename \/ CopyFront \/ CopyBack \/ WriteCfg
  PROVE  DepInv'
  BY DeploymentAssumption, WholeIsFile
  DEF DepInv, DeploymentTypeOK, Shapes, DigestsOnDisk, Building, Rename, CopyFront, CopyBack,
      WriteCfg, Edit, Put, File, Version, Whole, Missing

\* Killing and starting the process drops what was being built.
LEMMA ProcessKeeps ==
  ASSUME DepInv, Start \/ RunReturns \/ Kill
  PROVE  DepInv'
  BY DeploymentAssumption
  DEF DepInv, DeploymentTypeOK, Shapes, DigestsOnDisk, Building, Start, RunReturns, Kill, Gone,
      Edit, NoBuild, Build

\* A reply without a plugin has no digest.
LEMMA IsUpdateKeeps ==
  ASSUME DepInv, NEW c \in Clients, BuildIsUpdatePkg(c)
  PROVE  DepInv'
  <1>1. reply' \in [Clients -> Reply]
    BY DEF DepInv, Shapes, BuildIsUpdatePkg, Send, Reply
  <1> QED
    BY <1>1 DEF DepInv, DeploymentTypeOK, Shapes, DigestsOnDisk, Building, BuildIsUpdatePkg, Idle,
                Send, IsUpdate

\* Opening pt.vfs begins a reply.
LEMMA OpenVfsKeeps ==
  ASSUME DepInv, NEW c \in Clients, OpenVfs(c)
  PROVE  DepInv'
  <1>1. CASE vfs = Missing
    BY <1>1 DEF DepInv, DeploymentTypeOK, Shapes, DigestsOnDisk, Building, OpenVfs, Idle,
                SendNothing
  <1>2. CASE vfs # Missing
    <2>1. build' \in [for : Clients, opened : File, bytes : Seq(Half)] /\ build'.for = c
      <3>1. <<>> \in Seq(Half)
        OBVIOUS
      <3>2. build' = [for |-> c, opened |-> vfs, bytes |-> <<>>]
        BY <1>2 DEF OpenVfs
      <3>3. vfs \in File
        BY DEF DepInv, DeploymentTypeOK
      <3> QED BY <3>1, <3>2, <3>3
    <2>2. UNCHANGED <<vfs, cfg, edits, onDisk, process, client, reply, has>>
      BY <1>2 DEF OpenVfs
    <2>3. process = "up" /\ client[c] = "asked"
      BY DEF OpenVfs, Idle
    <2>4. DeploymentTypeOK'
      BY <2>1, <2>2, <2>3 DEF DepInv, DeploymentTypeOK, Building
    <2> QED
      BY <2>1, <2>2, <2>4 DEF DepInv, Shapes, DigestsOnDisk, Build
  <1> QED BY <1>1, <1>2

\* Reading fills a half of the reply.
LEMMA FileToBytesKeeps ==
  ASSUME DepInv, FileToBytes
  PROVE  DepInv'
  <1>1. build \in [for : Clients, opened : File, bytes : Seq(Half)]
    BY DEF DepInv, Shapes, Build, NoBuild, FileToBytes, Building
  <1>2. PICK f \in {IF how = "rename" THEN build.opened ELSE vfs} :
            build' = [build EXCEPT !.bytes = Append(@, f[Len(@) + 1])]
    BY DEF FileToBytes
  <1>3. f \in Half \X Half
    BY <1>1 DEF DepInv, DeploymentTypeOK, File, Half
  <1>4. build.bytes \in Seq(Half) /\ Len(build.bytes) < 2
    BY <1>1 DEF FileToBytes
  <1>5. Append(build.bytes, f[Len(build.bytes) + 1]) \in Seq(Half)
    <2>1. Len(build.bytes) = 0 \/ Len(build.bytes) = 1
      <3>1. Len(build.bytes) \in Nat
        BY <1>4
      <3>2. \A n \in Nat : n < 2 => n = 0 \/ n = 1
        OBVIOUS
      <3> QED BY <1>4, <3>1, <3>2
    <2>2. f[1] \in Half /\ f[2] \in Half
      BY <1>3
    <2> QED BY <1>4, <2>1, <2>2
  <1>6. build' \in [for : Clients, opened : File, bytes : Seq(Half)] /\ build'.for = build.for
    BY <1>1, <1>2, <1>5
  <1> QED
    BY <1>6 DEF DepInv, DeploymentTypeOK, Shapes, DigestsOnDisk, Building, Build, FileToBytes

\* The digest that is sent is of the file then on disk.
LEMMA SendPluginKeeps ==
  ASSUME DepInv, SendPlugin
  PROVE  DepInv'
  BY DeploymentAssumption
  DEF DepInv, DeploymentTypeOK, Shapes, DigestsOnDisk, Building, SendPlugin, Send, SendNothing,
      Plugin, GetFileMd5, Reply, Build, NoBuild

\* A client that receives its reply waits no longer.
LEMMA ReceiveKeeps ==
  ASSUME DepInv, NEW c \in Clients, Receive(c)
  PROVE  DepInv'
  <1>1. reply' \in [Clients -> Reply] /\ reply'[c].kind = "none"
    <2>1. reply \in [Clients -> Reply] /\ reply' = [reply EXCEPT ![c] = NoReply]
      BY DEF DepInv, Shapes, Receive
    <2>2. NoReply \in Reply /\ NoReply.kind = "none"
      BY DEF Reply, NoReply
    <2> QED BY <2>1, <2>2
  <1>2. reply[c].kind = "plugin" => reply[c].digest \in File
    BY DEF DepInv, Shapes, Reply, NoReply, IsUpdate
  <1>3. has' \in [Clients -> File]
    BY <1>2 DEF DepInv, DeploymentTypeOK, Receive
  <1> QED
    BY <1>1, <1>3 DEF DepInv, DeploymentTypeOK, Shapes, DigestsOnDisk, Building, Receive

\* A client asks when it has nothing coming.
LEMMA AskKeeps ==
  ASSUME DepInv, NEW c \in Clients, Ask(c) \/ GiveUp(c)
  PROVE  DepInv'
  <1>1. UNCHANGED <<vfs, cfg, edits, onDisk, process, build, reply, has>>
    BY DEF Ask, GiveUp
  <1>2. \E now \in {"asked", "idle"} : client' = [client EXCEPT ![c] = now]
    BY DEF Ask, GiveUp
  <1>3. client[c] \in {"idle", "lost"}
    BY DEF Ask, GiveUp
  <1> QED
    BY <1>1, <1>2, <1>3 DEF DepInv, DeploymentTypeOK, Shapes, DigestsOnDisk, Building

\* Nothing changes when nothing happens.
LEMMA StutterKeeps ==
  ASSUME DepInv, UNCHANGED vars
  PROVE  DepInv'
  BY DEF DepInv, DeploymentTypeOK, Shapes, DigestsOnDisk, Building, vars

\* Every step keeps the invariant.
THEOREM NextKeepsDepInv == DepInv /\ [Next]_vars => DepInv'
  BY OperatorKeeps, ProcessKeeps, IsUpdateKeeps, OpenVfsKeeps, FileToBytesKeeps, SendPluginKeeps,
     ReceiveKeeps, AskKeeps, StutterKeeps DEF Next

\* The invariant holds in every reachable state.
THEOREM AlwaysDepInv == Spec => []DepInv
  BY InitDepInv, NextKeepsDepInv, PTL DEF Spec

-----------------------------------------------------------------------------
\* Replies and clients agree, and the server builds for one that waits.
THEOREM DeploymentTypeCorrect == Spec => []DeploymentTypeOK
  <1>1. DepInv => DeploymentTypeOK
    BY DEF DepInv
  <1> QED BY <1>1, AlwaysDepInv, PTL

InstallStep == \A c \in Clients : has'[c] # has[c] => has'[c] \in onDisk

\* Only a client that receives a reply installs anything.
LEMMA OthersInstallNothing ==
  ASSUME Next, ~ \E c \in Clients : Receive(c)
  PROVE  UNCHANGED has
  BY DEF Next, Start, RunReturns, Kill, Gone, Rename, CopyFront, CopyBack, WriteCfg, FileToBytes,
         SendPlugin, Send, SendNothing, Ask, BuildIsUpdatePkg, OpenVfs, GiveUp

\* A client installs nothing but what was on disk in one piece: the digest it
\* compares is always that of a file as it was.
THEOREM InstallsOnlyWhatWasOnDisk == Spec => InstallsWhatWasOnDisk
  <1>1. ASSUME DepInv, [Next]_vars PROVE InstallStep
    <2>1. CASE UNCHANGED vars
      BY <2>1 DEF InstallStep, vars
    <2>2. ASSUME NEW c \in Clients, Receive(c) PROVE InstallStep
      BY <1>1, <2>2 DEF Receive, InstallStep, DepInv, DigestsOnDisk, DeploymentTypeOK
    <2>3. CASE Next /\ ~ \E c \in Clients : Receive(c)
      BY <2>3, OthersInstallNothing DEF InstallStep
    <2> QED BY <1>1, <2>1, <2>2, <2>3
  <1>2. DepInv /\ [Next]_vars => [InstallStep]_vars
    BY <1>1
  <1>3. Spec => [][InstallStep]_vars
    BY <1>2, AlwaysDepInv, PTL DEF Spec
  <1> QED BY <1>3 DEF InstallsWhatWasOnDisk, InstallStep
=============================================================================
