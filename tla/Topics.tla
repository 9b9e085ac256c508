------------------------------- MODULE Topics -------------------------------
(***************************************************************************)
(* What publish/subscribe promises: a message goes, once and in the order *)
(* of the PUBLISH commands, to the clients that are members of its        *)
(* channel at that moment, and PUBLISH answers how many they are.  A      *)
(* client that has gone may miss what was on its way to it.               *)
(***************************************************************************)
EXTENDS Naturals, Sequences, FiniteSets

CONSTANTS Channels, Clients

VARIABLES
    members,  \* the clients subscribed to every channel
    inbox,    \* messages on their way to every client: <<channel, number>>
    got,      \* messages every client has been sent
    gone,     \* clients whose connection is closed
    answers   \* the answer to every PUBLISH so far

vars == <<members, inbox, got, gone, answers>>

Init ==
    /\ members = [ch \in Channels |-> {}]
    /\ inbox = [c \in Clients |-> <<>>]
    /\ got = [c \in Clients |-> <<>>]
    /\ gone = {}
    /\ answers = <<>>

Join(c, ch) ==
    /\ members' = [members EXCEPT ![ch] = @ \cup {c}]
    /\ UNCHANGED <<inbox, got, gone, answers>>

\* c leaves some channels; it may be cut off while it is told so.
Leave(c, C) ==
    /\ members' = [ch \in Channels |-> IF ch \in C THEN members[ch] \ {c}
                                       ELSE members[ch]]
    /\ gone' \in {gone, gone \cup {c}}
    /\ UNCHANGED <<inbox, got, answers>>

Publish(ch) ==
    /\ answers' = Append(answers, Cardinality(members[ch]))
    /\ inbox' = [c \in Clients |->
                    IF c \in members[ch]
                    THEN Append(inbox[c], <<ch, Len(answers) + 1>>)
                    ELSE inbox[c]]
    /\ UNCHANGED <<members, got, gone>>

Deliver(c) ==
    /\ inbox[c] # <<>>
    /\ c \notin gone
    /\ inbox' = [inbox EXCEPT ![c] = Tail(@)]
    /\ got' = [got EXCEPT ![c] = Append(@, Head(inbox[c]))]
    /\ UNCHANGED <<members, gone, answers>>

Lose(c) ==
    /\ inbox[c] # <<>>
    /\ inbox' = [inbox EXCEPT ![c] = Tail(@)]
    /\ gone' = gone \cup {c}
    /\ UNCHANGED <<members, got, answers>>

Vanish(c) ==
    /\ gone' = gone \cup {c}
    /\ UNCHANGED <<members, inbox, got, answers>>

Next ==
    \/ \E c \in Clients : \/ \E ch \in Channels : Join(c, ch)
                          \/ \E C \in SUBSET Channels : Leave(c, C)
                          \/ Deliver(c) \/ Lose(c) \/ Vanish(c)
    \/ \E ch \in Channels : Publish(ch)

Spec == Init /\ [][Next]_vars
=============================================================================
