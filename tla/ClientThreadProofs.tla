------------------------ MODULE ClientThreadProofs ------------------------
(***************************************************************************)
(* The test client's Thread for every set of parameters: its handle, its   *)
(* parameter and its end, in whatever order the owner's calls come.        *)
(***************************************************************************)
EXTENDS ClientThread, TLAPS

\* What is true between the steps of a call, too.
Calling ==
    /\ owner = "starting" => ~started /\ handles = 1 /\ worker # "none"
    /\ owner = "waiting" => Holds
    /\ owner \in {"unwound", "gone"} => (started <=> worker # "none")

\* param is not written once a thread is there to read it.
ParamKept == IF worker = "none" THEN arg = NoParam ELSE param = given

\* Who has let the thread go, and who has seen its end.
LetGo ==
    /\ detached => released \/ joined
    /\ joined => worker \in Over
    /\ worker = "purecall" => owner = "unwound"
    /\ worker = "stray" => owner = "gone"
    /\ owner = "gone" => released \/ worker \in Over \cup {"none"}

IndInv == ThreadTypeOK /\ HandlesAgree /\ ParamOfItsStart /\ Calling /\ ParamKept /\ LetGo

\* A Thread starts without a thread.
LEMMA InitInv == Init => IndInv
  BY DEF Init, IndInv, ThreadTypeOK, HandlesAgree, ParamOfItsStart, Calling, ParamKept,
         LetGo, Holds, Live, Over

\* start: the thread exists, with the parameter stored before it.
LEMMA StartInv ==
    ASSUME IndInv, NEW p \in Params, Create(p) \/ CreateFails(p)
    PROVE  IndInv'
<1> USE ParamsAssumption DEF IndInv, Calls, object, thread, ghosts
<1>1. CASE Create(p)
  <2>1. worker = "none" /\ arg = NoParam
    BY <1>1 DEF Create, HandlesAgree, ParamKept
  <2>2. ThreadTypeOK'
    BY <1>1 DEF Create, ThreadTypeOK, HandlesAgree, Holds, Live
  <2> QED
    BY <1>1, <2>1, <2>2
    DEF Create, HandlesAgree, ParamOfItsStart, Calling, ParamKept, LetGo, Holds, Over,
        ThreadTypeOK
<1>2. CASE CreateFails(p)
  BY <1>2
  DEF CreateFails, ThreadTypeOK, HandlesAgree, ParamOfItsStart, Calling, ParamKept, LetGo,
      Holds
<1> QED
  BY <1>1, <1>2

\* start has the handle, and closes it when the thread was detached before.
LEMMA StartedInv ==
    ASSUME IndInv, Started
    PROVE  IndInv'
<1> USE DEF IndInv, Calls, thread, ghosts
<1>1. handles = 1 /\ worker # "none" /\ ~started
  BY DEF Started, Calling
<1> QED
  BY <1>1
  DEF Started, ThreadTypeOK, HandlesAgree, ParamOfItsStart, Calling, ParamKept, LetGo,
      Holds

\* wait and detach close the handle the object still holds.
LEMMA WaitDetachInv ==
    ASSUME IndInv, Wait \/ WaitReturns \/ Detach
    PROVE  IndInv'
<1> USE DEF IndInv, Calls, object, thread, ghosts
<1>1. CASE Wait
  BY <1>1
  DEF Wait, ThreadTypeOK, HandlesAgree, ParamOfItsStart, Calling, ParamKept, LetGo, Holds
<1>2. CASE WaitReturns
  BY <1>2
  DEF WaitReturns, ThreadTypeOK, HandlesAgree, ParamOfItsStart, Calling, ParamKept, LetGo,
      Holds
<1>3. CASE Detach
  BY <1>3
  DEF Detach, ThreadTypeOK, HandlesAgree, ParamOfItsStart, Calling, ParamKept, LetGo, Holds
<1> QED
  BY <1>1, <1>2, <1>3

\* What the body of stop leaves of a thread whose object still has its run.
LEMMA StopItEnds ==
    ASSUME IndInv, StopIt, owner \in {"idle", "unwound"}, worker # "purecall"
    PROVE  /\ worker' \in Live \cup Over \cup {"none"}
           /\ handles' \in {0, 1} /\ detached' \in BOOLEAN /\ joined' \in BOOLEAN
           /\ worker' = "none" <=> worker = "none"
           /\ detached' => released \/ joined'
           /\ joined' => worker' \in Over
           /\ Holds => handles' = 0 /\ detached'
           /\ ~Holds => UNCHANGED <<worker, handles, detached, joined>>
<1>1. worker \in Live \cup Over \cup {"none"}
  BY DEF IndInv, ThreadTypeOK, LetGo
<1>2. Holds => handles = 1 /\ worker \in Live \cup Over
  BY <1>1 DEF IndInv, HandlesAgree, Calling, Holds
<1>3. CASE Holds
  <2>1. /\ worker' \in Over /\ handles' = handles - 1
        /\ detached' = TRUE /\ joined' = TRUE
    BY <1>2, <1>3 DEF StopIt, Terminated, Live, Over
  <2> QED
    BY <1>2, <1>3, <2>1 DEF Live, Over
<1>4. CASE ~Holds
  BY <1>1, <1>4 DEF StopIt, IndInv, ThreadTypeOK, LetGo
<1> QED
  BY <1>3, <1>4

\* stop, and the destructors.
LEMMA StopDestroyInv ==
    ASSUME IndInv, Stop \/ Unwind \/ Destroy
    PROVE  IndInv'
<1>1. CASE Stop
  <2>1. owner = "idle" /\ owner' = "idle" /\ worker # "purecall" /\ StopIt
        /\ UNCHANGED <<started, param, arg, given, released>>
    BY <1>1 DEF Stop, Calls
  <2> QED
    BY <2>1, StopItEnds
    DEF IndInv, ThreadTypeOK, HandlesAgree, ParamOfItsStart, Calling, ParamKept, LetGo,
        Holds, Live, Over
<1>2. CASE Unwind
  BY <1>2
  DEF Unwind, Calls, object, thread, ghosts, IndInv, ThreadTypeOK, HandlesAgree,
      ParamOfItsStart, Calling, ParamKept, LetGo, Holds
<1>3. CASE Destroy
  <2>1. owner = "unwound" /\ owner' = "gone" /\ worker # "purecall" /\ StopIt
        /\ UNCHANGED <<started, param, arg, given, released>>
    BY <1>3 DEF Destroy, Calls
  <2>2. released' \/ worker' \in Over \cup {"none"}
    BY <2>1, StopItEnds DEF IndInv, Calling, LetGo, Holds, HandlesAgree
  <2> QED
    BY <2>1, <2>2, StopItEnds
    DEF IndInv, ThreadTypeOK, HandlesAgree, ParamOfItsStart, Calling, ParamKept, LetGo,
        Holds, Live, Over
<1> QED
  BY <1>1, <1>2, <1>3

\* The thread's own steps.
LEMMA ThreadInv ==
    ASSUME IndInv, Thread
    PROVE  IndInv'
<1> USE DEF IndInv, object, ghosts
<1>1. CASE CallRun
  <2>1. param = given
    BY <1>1 DEF CallRun, ParamKept
  <2> QED
    BY <1>1, <2>1
    DEF CallRun, ThreadTypeOK, HandlesAgree, ParamOfItsStart, Calling, ParamKept, LetGo,
        Holds, Live, Over
<1>2. CASE ConnectToSvr
  BY <1>2
  DEF ConnectToSvr, ThreadTypeOK, HandlesAgree, ParamOfItsStart, Calling, ParamKept, LetGo,
      Holds, Live, Over
<1>3. CASE Return
  BY <1>3
  DEF Return, ThreadTypeOK, HandlesAgree, ParamOfItsStart, Calling, ParamKept, LetGo,
      Holds, Live, Over
<1> QED
  BY <1>1, <1>2, <1>3 DEF Thread

\* Every step of the owner and of the thread keeps the invariant.
LEMMA NextInv == IndInv /\ [Next]_vars => IndInv'
<1> SUFFICES ASSUME IndInv, [Next]_vars
             PROVE  IndInv'
  OBVIOUS
<1>1. CASE UNCHANGED vars
  BY <1>1
  DEF vars, object, thread, ghosts, IndInv, ThreadTypeOK, HandlesAgree, ParamOfItsStart,
      Calling, ParamKept, LetGo, Holds
<1>2. ASSUME NEW p \in Params, Create(p) \/ CreateFails(p)
      PROVE  IndInv'
  BY <1>2, StartInv
<1>3. CASE Started
  BY <1>3, StartedInv
<1>4. CASE Owner
  BY <1>2, <1>3, <1>4, WaitDetachInv, StopDestroyInv DEF Owner
<1> QED
  BY <1>1, <1>4, ThreadInv DEF Next

\* The invariant holds in every reachable state.
THEOREM Invariance == Spec => []IndInv
<1> QED
  BY InitInv, NextInv, PTL DEF Spec

\* No handle is closed more often than it is opened, and all else has its type.
THEOREM ThreadTypeCorrect == Spec => []ThreadTypeOK
<1>1. IndInv => ThreadTypeOK
  BY DEF IndInv
<1> QED
  BY Invariance, <1>1, PTL

\* The flags of the object tell whether a handle is open, and none outlives it.
THEOREM HandlesAgreeHolds == Spec => []HandlesAgree
<1>1. IndInv => HandlesAgree
  BY DEF IndInv
<1> QED
  BY Invariance, <1>1, PTL

\* The thread runs with what its own start was given.
THEOREM ParamHolds == Spec => []ParamOfItsStart
<1>1. IndInv => ParamOfItsStart
  BY DEF IndInv
<1> QED
  BY Invariance, <1>1, PTL

\* No thread outlives an object it was not detached from, and none that was
\* joined meets an object being destroyed.
THEOREM ObjectOutlivesHolds == Spec => []ObjectOutlivesThread
<1>1. IndInv => ObjectOutlivesThread
  BY DEF IndInv, LetGo, ObjectOutlivesThread, Live, Over
<1> QED
  BY Invariance, <1>1, PTL
=============================================================================
