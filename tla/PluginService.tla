--------------------------- MODULE PluginService ---------------------------
(***************************************************************************)
(* What the protocol promises a client that asks whether its plugin is up  *)
(* to date: every request is answered, once, in the order asked, with "is  *)
(* up to date" or with the plugin as its version deserves; a client that   *)
(* has closed its end is owed nothing more.                                *)
(***************************************************************************)
EXTENDS Naturals, Sequences

CONSTANTS
    Clients,
    Requests,     \* the requests a client may make
    Answer(_),    \* the type of the reply a request deserves
    MaxReqs       \* requests per client (bounds the instances)

VARIABLES
    asked,  \* the requests each client has made
    got,    \* the types of the replies it has received
    up      \* has it not yet closed its end

Init ==
    /\ asked = [c \in Clients |-> <<>>]
    /\ got   = [c \in Clients |-> <<>>]
    /\ up    = [c \in Clients |-> TRUE]

Ask(c, r) ==
    /\ up[c]
    /\ Len(asked[c]) < MaxReqs
    /\ asked' = [asked EXCEPT ![c] = Append(@, r)]
    /\ UNCHANGED <<got, up>>

Owed(c) == Len(got[c]) < Len(asked[c])

Reply(c) ==
    /\ Owed(c)
    /\ got' = [got EXCEPT ![c] = Append(@, Answer(asked[c][Len(@) + 1]))]
    /\ UNCHANGED <<asked, up>>

Leave(c) ==
    /\ up[c]
    /\ up' = [up EXCEPT ![c] = FALSE]
    /\ UNCHANGED <<asked, got>>

Next == \E c \in Clients : (\E r \in Requests : Ask(c, r)) \/ Reply(c) \/ Leave(c)

vars == <<asked, got, up>>

Spec == /\ Init /\ [][Next]_vars
        /\ \A c \in Clients : WF_vars(up[c] /\ Reply(c))
=============================================================================
