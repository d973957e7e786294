----------------------------- MODULE DurableDoc -----------------------------
(***************************************************************************)
(* What the sync service promises its clients about one document.  A       *)
(* stored update stays stored: nothing removes one.  An acknowledgement    *)
(* names stored updates only, and every member hears of them with it.      *)
(* Whoever joins is told all that is stored.                               *)
(***************************************************************************)
CONSTANTS Op, Client

VARIABLES
    doc,        \* the stored updates
    acked,      \* those that were acknowledged
    members,    \* clients that have had their initial sync
    view        \* Client -> what a member has been told, nothing for others

vars == <<doc, acked, members, view>>

Init ==
    /\ doc = {}
    /\ acked = {}
    /\ members = {}
    /\ view = [c \in Client |-> {}]

\* Updates are stored, acknowledged or not.
Store ==
    /\ doc' \in SUBSET Op
    /\ doc \subseteq doc'
    /\ UNCHANGED <<acked, members, view>>

\* Stored updates are acknowledged, and every member is told.
Acknowledge ==
    \E B \in SUBSET doc :
        /\ acked' = acked \cup B
        /\ view' = [c \in Client |->
                        IF c \in members THEN view[c] \cup B ELSE view[c]]
        /\ UNCHANGED <<doc, members>>

\* Clients join, or ask again, and are told at least all that is stored.
Join ==
    \E C \in SUBSET Client :
        /\ members' = members \cup C
        /\ view' \in [Client -> SUBSET Op]
        /\ \A c \in C : view[c] \cup doc \subseteq view'[c]
        /\ \A c \in Client \ C : view'[c] = view[c]
        /\ UNCHANGED <<doc, acked>>

\* Clients leave.
Leave ==
    \E C \in SUBSET members :
        /\ members' = members \ C
        /\ view' = [c \in Client |-> IF c \in C THEN {} ELSE view[c]]
        /\ UNCHANGED <<doc, acked>>

Next == Store \/ Acknowledge \/ Join \/ Leave

Spec == Init /\ [][Next]_vars
=============================================================================
