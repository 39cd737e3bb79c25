----------------------------- MODULE ConfigStore ----------------------------
(***************************************************************************)
(* What a configuration file promises its user: items, read and set by     *)
(* section and key, in memory and in the file behind it.                   *)
(***************************************************************************)
CONSTANTS
    Sections, Keys,
    Settable, \* the values a caller may set
    Values,   \* the values a file may give
    NoValue   \* what GetItemValue returns for an item that is not there

VARIABLES
    items,    \* the values GetItemValue returns
    saved,    \* the values a process that opens the file now would read
    answer,   \* what the last operation returned: "none", "true" or "false"
    done,     \* which operation that was, or an edit by others
    whole,    \* the file was not cut short when it was last written
    sound     \* nor had it been when it was opened

vars == <<items, saved, answer, done, whole, sound>>

Nothing == [i \in Sections \X Keys |-> NoValue]
Table   == [Sections \X Keys -> Values \cup {NoValue}]

Init ==
    /\ items = Nothing /\ saved \in Table /\ answer = "none" /\ done = <<"edit">>
    /\ whole = TRUE /\ sound = TRUE

\* Someone replaces the file.
Edit ==
    /\ saved' \in Table /\ whole' = TRUE /\ done' = <<"edit">>
    /\ UNCHANGED <<items, answer, sound>>

Open ==
    /\ items' = saved /\ sound' = whole
    /\ answer' \in {"true", "false"} /\ done' = <<"open">>
    /\ UNCHANGED <<saved, whole>>

Close ==
    /\ items' = Nothing /\ sound' = TRUE
    /\ answer' = "none" /\ done' = <<"close">>
    /\ UNCHANGED <<saved, whole>>

\* A set either is refused, or changes this item, in memory, and nothing
\* else; the file follows with the answer "true", or with "false" is left as it
\* was or, when the write was cut short, with anything in it.  Once such a file
\* has been opened, a set may change any item.
Refuse ==
    /\ answer' = "false" /\ done' = <<"refuse">>
    /\ UNCHANGED <<items, saved, whole, sound>>

Set(i, v) ==
    /\ IF sound THEN items' = [items EXCEPT ![i] = v] ELSE items' \in Table
    /\ answer' \in {"true", "false"} /\ done' = <<"set", i, v>>
    /\ IF answer' = "true"
       THEN saved' = items' /\ whole' = sound
       ELSE saved' \in Table /\ whole' \in BOOLEAN
    /\ UNCHANGED sound

Next ==
    \/ Edit \/ Open \/ Close \/ Refuse
    \/ \E i \in Sections \X Keys, v \in Settable : Set(i, v)

Spec == Init /\ [][Next]_vars
=============================================================================
