------------------------------ MODULE PkgUtil ------------------------------
(***************************************************************************)
(* PkgUtil.cpp: what one buffer of input means and the reply it gets.      *)
(* The 4 MB blocks these functions allocate are counted, for several       *)
(* returns leave them allocated; the small blocks are not.                 *)
(***************************************************************************)
EXTENDS Proto

CONSTANTS
    svrVersion,   \* ServerVersion of the configuration file
    FileLen       \* the length of pt.vfs in bytes

\* Both fit a word, and so do another version and the length of a reply.
ASSUME PkgUtilAssumption ==
    /\ svrVersion \in Nat /\ FitsWord(svrVersion + 1)
    /\ FileLen \in Nat /\ FitsWord(FileLen + 44)

-----------------------------------------------------------------------------
(* ProcessClientPkg.                                                       *)

Result(rc, type) == [rc |-> rc, pkgType |-> type]

\* Mutant of VersionTypes: the two replies are swapped.
VersionTypes_Swapped(content) ==
    IF content # <<>> /\ HostValue(ntohl(Head(content))) # svrVersion
    THEN {CS_CMD_RES_IS_UPDATE} ELSE {CS_CMD_RES_SEND_PLUGIN}
\* The request's version is read from behind the header even when nothing was
\* received there: the malloc'ed block then holds any value.
VersionTypes(content) ==
    IF content = <<>>
    THEN {CS_CMD_RES_SEND_PLUGIN, CS_CMD_RES_IS_UPDATE}
    ELSE IF HostValue(ntohl(Head(content))) # svrVersion
         THEN {CS_CMD_RES_SEND_PLUGIN}
         ELSE {CS_CMD_RES_IS_UPDATE}

PkgTypes(cmd, content) ==
    CASE cmd = CS_CMD_REQ_NEW_VERSION -> VersionTypes(content)
      [] cmd = CS_CMD_REQ_REP_DATA    -> {CS_CMD_RES_REP_DATA}
      [] cmd = CS_CMD_REQ_UPDATE_LINK -> {CS_CMD_RES_SEND_LINK}
      [] OTHER                        -> {0}   \* pkgType stays as it was

\* Short of a header, the content's malloc(len - 12) is of a negative length
\* and fails.  pkgLength is never looked at.
ProcessClientPkg(pkg) ==
    IF Len(pkg) < 3 THEN {Result("-1", 0)}
    ELSE LET h == HeadNtoh([pkgLength |-> pkg[1], cmdID |-> pkg[2],
                            protoVersion |-> pkg[3]])
         IN IF HostValue(h.protoVersion) # PROTO_VERSION THEN {Result("-2", 0)}
            ELSE {Result("0", t) : t \in PkgTypes(HostValue(h.cmdID),
                                                  SubSeq(pkg, 4, Len(pkg)))}

-----------------------------------------------------------------------------
(* BuildPkgByType.  A reply is its header as sent and the bytes that were  *)
(* copied to the reply buffer; "lost" counts the blocks left allocated.    *)

Built(head, bytes, lost) ==
    [reply |-> <<[head |-> HeadHton(head), bytes |-> bytes]>>, lost |-> lost]
Nothing(lost) == [reply |-> <<>>, lost |-> lost]

BuildIsUpdatePkg ==
    Built(Head3(28, CS_CMD_RES_IS_UPDATE, PROTO_VERSION), PROTO_HEAD_SIZE + 16, 0)

\* Mutant of BuildSendPluginPkg: the digest is sent with the NUL behind it.
BuildSendPluginPkg_WithNul(blocks, file) ==
    IF blocks = 0 THEN Nothing(0)
    ELSE IF ~file THEN Nothing(1)
    ELSE Built(Head3(PROTO_HEAD_SIZE + FileLen + 33, CS_CMD_RES_SEND_PLUGIN,
                     PROTO_VERSION),
               PROTO_HEAD_SIZE + 33 + FileLen, 0)

\* With blocks left to allocate, and the file readable or not.  When it is not,
\* msgContent is never freed.
BuildSendPluginPkg(blocks, file) ==
    IF blocks = 0 THEN Nothing(0)
    ELSE IF ~file THEN Nothing(1)
    ELSE Built(Head3(PROTO_HEAD_SIZE + FileLen + 32, CS_CMD_RES_SEND_PLUGIN,
                     PROTO_VERSION),
               PROTO_HEAD_SIZE + 32 + FileLen, 0)

BuildResReportDataPkg == Nothing(0)
BuildSendLinkPkg      == Nothing(0)

BuildPkgByType(type, blocks, file) ==
    CASE type = CS_CMD_RES_SEND_PLUGIN -> BuildSendPluginPkg(blocks, file)
      [] type = CS_CMD_RES_IS_UPDATE   -> BuildIsUpdatePkg
      [] type = CS_CMD_RES_REP_DATA    -> BuildResReportDataPkg
      [] type = CS_CMD_RES_SEND_LINK   -> BuildSendLinkPkg
      [] OTHER                         -> Nothing(0)
=============================================================================
