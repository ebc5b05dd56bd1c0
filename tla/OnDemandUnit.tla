---------------------------- MODULE OnDemandUnit -----------------------------
(***************************************************************************)
(* What a socket_activation entry promises, without its locks, channels    *)
(* and goroutines: the unit is started because a client asks for it, a     *)
(* client is served only while the unit is up, the unit is stopped only    *)
(* while nobody is there, and it is in one operation at a time.            *)
(***************************************************************************)
CONSTANT Clients

VARIABLES phase,     \* what the unit is going through
          present,   \* the clients that are connected
          served     \* those handed to the backend

vars == <<phase, present, served>>

Init == phase = "down" /\ present = {} /\ served = {}

Arrive(c) == /\ c \notin present
             /\ present' = present \cup {c}
             /\ UNCHANGED <<phase, served>>

Leave(c) == /\ c \in present
            /\ present' = present \ {c}
            /\ served' = served \ {c}
            /\ UNCHANGED phase

\* A client that is served no longer, and has not left yet.
Drop(c) == /\ c \in served
           /\ served' = served \ {c}
           /\ UNCHANGED <<phase, present>>

Admit(c) == /\ phase = "up" /\ c \in present \ served
            /\ served' = served \cup {c}
            /\ UNCHANGED <<phase, present>>

BeginStart == /\ phase = "down" /\ present \ served # {}
              /\ phase' = "starting"
              /\ UNCHANGED <<present, served>>

\* The start was made for some client, which is the first one admitted.
StartSucceeds(c) == /\ phase = "starting" /\ c \in present \ served
                    /\ phase' = "up"
                    /\ served' = served \cup {c}
                    /\ UNCHANGED present

StartFails == /\ phase = "starting"
              /\ phase' = "down"
              /\ UNCHANGED <<present, served>>

BeginStop == /\ phase = "up" /\ present = {}
             /\ phase' = "stopping"
             /\ UNCHANGED <<present, served>>

EndStop == /\ phase = "stopping"
           /\ phase' \in {"down", "up"}       \* "up": the stop failed
           /\ UNCHANGED <<present, served>>

Next == \/ \E c \in Clients : \/ Arrive(c) \/ Leave(c) \/ Drop(c) \/ Admit(c)
                              \/ StartSucceeds(c)
        \/ BeginStart \/ StartFails \/ BeginStop \/ EndStop

Spec == Init /\ [][Next]_vars
==============================================================================
