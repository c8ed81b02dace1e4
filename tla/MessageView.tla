---------------------------- MODULE MessageView ----------------------------
(***************************************************************************)
(* What the CQRS split promises a reader, however events are delayed, lost,*)
(* repeated or reordered between the two sides: the projection of a        *)
(* message only ever shows something the message really was, and a message *)
(* seen deleted is never seen again.                                       *)
(***************************************************************************)
CONSTANTS Messages, Contents

VARIABLES
    source,   \* each message as the write side has it
    past,     \* everything each message has been
    view      \* each message as the read side shows it

States == Contents \cup {"absent", "deleted"}

viewVars == <<source, past, view>>

ViewInit ==
    /\ source = [m \in Messages |-> "absent"]
    /\ past   = [m \in Messages |-> {"absent"}]
    /\ view   = [m \in Messages |-> "absent"]

\* The write side creates, edits or deletes a message; deletion is final.
Write(m, s) ==
    /\ source[m] # "deleted"
    /\ s = "deleted" => source[m] \in Contents
    /\ source' = [source EXCEPT ![m] = s]
    /\ past' = [past EXCEPT ![m] = @ \cup {s}]
    /\ UNCHANGED view

\* The read side catches up, or falls back, to a state of the message's past.
Show(m, s) ==
    /\ view[m] # "deleted"
    /\ s \in past[m]
    /\ view' = [view EXCEPT ![m] = s]
    /\ UNCHANGED <<source, past>>

ViewNext ==
    \E m \in Messages :
        \/ \E s \in Contents \cup {"deleted"} : Write(m, s)
        \/ \E s \in (Contents \cup {"deleted"}) : Show(m, s)

ViewSpec == ViewInit /\ [][ViewNext]_viewVars
=============================================================================
