--------------------------- MODULE ClientThread ---------------------------
(***************************************************************************)
(* Test4PluginSvr: class Thread, the ThreadWrapper that connects to the    *)
(* server, and the program that owns one.  The owner may call start, wait, *)
(* detach and stop in any order, and destroys the object at last; the      *)
(* thread runs beside it from the moment _beginthreadex creates it, before *)
(* start has stored the handle.                                            *)
(*                                                                         *)
(* threadFunction reaches the object once, to find run and param; run      *)
(* itself uses no member of it.  Between ~ThreadWrapper and the stop() in  *)
(* ~Thread the object has no run any more, and a thread that gets there    *)
(* then ends the process by a pure virtual call.                           *)
(***************************************************************************)
EXTENDS Integers

CONSTANTS
    Params,     \* what start can be given
    NoParam     \* param before it is set

ASSUME ParamsAssumption == NoParam \notin Params

VARIABLES
    owner,      \* what the owner is doing to the object
    started,    \* Thread::started
    detached,   \* Thread::detached
    param,      \* Thread::param
    handles,    \* open handles to the thread, less one for each close too many
    worker,     \* where the thread is
    arg,        \* what run was called with
    given,      \* ghost: what the start that made the thread was given
    released,   \* ghost: detach has been called
    joined      \* ghost: wait or stop has returned to the thread's owner

object == <<started, detached, param, handles>>
thread == <<worker, arg>>
ghosts == <<given, released, joined>>
vars   == <<owner, object, thread, ghosts>>

Live == {"ready", "running", "connected", "refused"}
Over == {"ended", "killed"}

Init ==
    /\ owner = "idle"
    /\ started = FALSE /\ detached = FALSE /\ param = NoParam
    /\ handles = 0
    /\ worker = "none" /\ arg = NoParam
    /\ given = NoParam /\ released = FALSE /\ joined = FALSE

\* Does the object hold a handle it has to close?
Holds == started /\ ~detached

\* A pure virtual call aborts the process.
Calls(stage) == owner = stage /\ worker # "purecall"

-----------------------------------------------------------------------------
(* The owner.  start of a started thread, and wait or stop of one that is  *)
(* not held, return at once and change nothing.                            *)

\* Mutant of Create: param is stored when the thread exists already.
Create_ParamLate(p) ==
    /\ Calls("idle") /\ ~started
    /\ owner' = "starting"
    /\ given' = p
    /\ handles' = handles + 1
    /\ worker' = "ready"
    /\ UNCHANGED <<started, detached, param, arg, released, joined>>

\* _beginthreadex: the thread can run before its creator goes on.
Create(p) ==
    /\ Calls("idle") /\ ~started
    /\ owner' = "starting"
    /\ param' = p /\ given' = p
    /\ handles' = handles + 1
    /\ worker' = "ready"
    /\ UNCHANGED <<started, detached, arg, released, joined>>

CreateFails(p) ==
    /\ Calls("idle") /\ ~started
    /\ param' = p
    /\ UNCHANGED <<owner, started, detached, handles, thread, ghosts>>

\* Mutant of Started: a thread detached before its start keeps its handle.
Started_KeepsHandle ==
    /\ Calls("starting")
    /\ owner' = "idle" /\ started' = TRUE
    /\ UNCHANGED <<detached, param, handles, thread, ghosts>>

Started ==
    /\ Calls("starting")
    /\ owner' = "idle" /\ started' = TRUE
    /\ handles' = IF detached THEN handles - 1 ELSE handles
    /\ UNCHANGED <<detached, param, thread, ghosts>>

Wait ==
    /\ Calls("idle") /\ Holds
    /\ owner' = "waiting"
    /\ UNCHANGED <<object, thread, ghosts>>

WaitReturns ==
    /\ Calls("waiting") /\ worker \in Over
    /\ owner' = "idle"
    /\ handles' = handles - 1 /\ detached' = TRUE
    /\ joined' = TRUE
    /\ UNCHANGED <<started, param, thread, given, released>>

\* Mutant of Detach: it closes the handle of a thread it has let go before.
Detach_Twice ==
    /\ Calls("idle")
    /\ handles' = IF started THEN handles - 1 ELSE handles
    /\ detached' = TRUE /\ released' = TRUE
    /\ UNCHANGED <<owner, started, param, thread, given, joined>>

Detach ==
    /\ Calls("idle")
    /\ handles' = IF Holds THEN handles - 1 ELSE handles
    /\ detached' = TRUE /\ released' = TRUE
    /\ UNCHANGED <<owner, started, param, thread, given, joined>>

Terminated == IF worker \in Live THEN "killed" ELSE worker

\* The body of stop(): TerminateThread and CloseHandle.
StopIt ==
    IF Holds
    THEN /\ worker' = Terminated
         /\ handles' = handles - 1
         /\ detached' = TRUE /\ joined' = TRUE
    ELSE UNCHANGED <<worker, handles, detached, joined>>

Stop ==
    /\ Calls("idle") /\ StopIt
    /\ UNCHANGED <<owner, started, param, arg, given, released>>

\* ~ThreadWrapper is over: from here on the object is a Thread only.
Unwind ==
    /\ Calls("idle")
    /\ owner' = "unwound"
    /\ UNCHANGED <<object, thread, ghosts>>

\* Mutant of Destroy: ~Thread leaves the thread to itself.
Destroy_NoStop ==
    /\ Calls("unwound")
    /\ owner' = "gone"
    /\ UNCHANGED <<object, thread, ghosts>>

Destroy ==
    /\ Calls("unwound") /\ StopIt
    /\ owner' = "gone"
    /\ UNCHANGED <<started, param, arg, given, released>>

-----------------------------------------------------------------------------
(* The thread.                                                             *)

\* threadFunction: what thread->run is depends on how much object is left.
CallRun ==
    /\ worker = "ready"
    /\ worker' = CASE owner = "unwound" -> "purecall"
                   [] owner = "gone"    -> "stray"
                   [] OTHER             -> "running"
    /\ arg' = param
    /\ UNCHANGED <<owner, object, ghosts>>

\* The address may be reached or not; run ignores the result, and nobody
\* closes the socket.
ConnectToSvr ==
    /\ worker = "running"
    /\ worker' \in {"connected", "refused"}
    /\ UNCHANGED <<owner, object, arg, ghosts>>

\* Mutant of Return: only a connected client gives up its thread.
Return_Connected ==
    /\ worker = "connected"
    /\ worker' = "ended"
    /\ UNCHANGED <<owner, object, arg, ghosts>>

\* SendPkg sends nothing.
Return ==
    /\ worker \in {"connected", "refused"}
    /\ worker' = "ended"
    /\ UNCHANGED <<owner, object, arg, ghosts>>

-----------------------------------------------------------------------------
Owner ==
    \/ \E p \in Params : Create(p) \/ CreateFails(p)
    \/ Started \/ Wait \/ WaitReturns \/ Detach \/ Stop \/ Unwind \/ Destroy
Thread == CallRun \/ ConnectToSvr \/ Return

Next == Owner \/ Thread
Spec == Init /\ [][Next]_vars

\* Threads are scheduled, a connect() ends, and a call that has begun
\* returns when it can; no owner has to call anything.
Fairness == WF_vars(Thread) /\ WF_vars(Started) /\ WF_vars(WaitReturns)
FairSpec == Spec /\ Fairness

-----------------------------------------------------------------------------
\* Every variable has its type; no handle is closed more often than opened.
ThreadTypeOK ==
    /\ owner \in {"idle", "starting", "waiting", "unwound", "gone"}
    /\ started \in BOOLEAN /\ detached \in BOOLEAN
    /\ released \in BOOLEAN /\ joined \in BOOLEAN
    /\ {param, arg, given} \subseteq Params \cup {NoParam}
    /\ handles \in {0, 1}
    /\ worker \in Live \cup Over \cup {"none", "purecall", "stray"}

\* In whatever order start, wait, detach, stop and the destructor are
\* called, between two calls a handle is open exactly when the flags of the
\* object say so, and no handle outlives the object.
HandlesAgree ==
    /\ owner # "starting" =>
         /\ handles = IF Holds THEN 1 ELSE 0
         /\ started <=> worker # "none"
    /\ owner = "gone" => handles = 0

\* Though the thread reads param from the object after start has returned,
\* it finds what its own start was given, failed starts before it or not.
ParamOfItsStart == arg # NoParam => arg = given

\* Once the object is gone, a thread that nobody detached runs no more: it
\* cannot reach the memory the object had. And a thread meets an object that is
\* being destroyed only when its owner neither waited for it nor stopped it.
ObjectOutlivesThread ==
    /\ owner = "gone" /\ ~released => worker \notin Live \cup {"stray"}
    /\ worker \in {"purecall", "stray"} => ~joined

\* wait() returns: the thread comes to its end, connected or not.
WaitEnds == owner = "waiting" ~> owner # "waiting"
=============================================================================
