---------------------------- MODULE MCDeployment ----------------------------
(* Instances of Deployment for TLC. *)
EXTENDS Deployment

\* A server.cfg with every item; without those that have a default; without the
\* level; without a port.
MCItemSets ==
    { {"ServerIp", "ServerPort", "LogDir", "LogLevel", "ServerVersion"},
      {"ServerPort", "LogLevel", "ServerVersion"},
      {"ServerIp", "ServerPort", "LogDir", "ServerVersion"},
      {"ServerIp", "LogLevel", "ServerVersion"} }
=============================================================================
