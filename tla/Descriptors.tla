---------------------------- MODULE Descriptors ----------------------------
(***************************************************************************)
(* The descriptor table of one process.  The kernel (external to the       *)
(* repository) hands out the lowest free number, fails when the table is   *)
(* full, and ignores a close of a number that is not open (EBADF).         *)
(* A table maps every number to who holds it: "sys" (stdio, the epoll      *)
(* descriptor, libevent's signal pair, the listener), "log" (a log FILE),  *)
(* a connection, or "free".                                                *)
(***************************************************************************)
EXTENDS Naturals, FiniteSets

CONSTANT MaxFds     \* RLIMIT_NOFILE: numbers 0 .. MaxFds-1 can be open

ASSUME MaxFdsAssumption == MaxFds \in Nat \ {0}

Fd == 0 .. MaxFds - 1

FreeFds(t) == {f \in Fd : t[f] = "free"}

Room(t, n) == Cardinality(FreeFds(t)) >= n

\* The number the next successful open, accept or socket returns.
NextFd(t) == CHOOSE f \in FreeFds(t) : \A g \in FreeFds(t) : f <= g

\* How many free numbers are lower than f.
FreeBelow(t, f) == Cardinality({g \in FreeFds(t) : g < f})

OpenFd(t, owner) == [t EXCEPT ![NextFd(t)] = owner]

CloseFd(t, f) == [t EXCEPT ![f] = "free"]

\* n opens in a row that nobody closes: the n lowest free numbers.
OpenMany(t, n, owner) ==
    [f \in Fd |-> IF t[f] = "free" /\ FreeBelow(t, f) < n THEN owner ELSE t[f]]
=============================================================================
