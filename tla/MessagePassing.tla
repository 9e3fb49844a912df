--------------------------- MODULE MessagePassing ---------------------------
(***************************************************************************)
(* What the actor runtime promises about messages, with no scheduler: a    *)
(* fixed population of messages moves between a pool, one FIFO box per     *)
(* actor, and the hands of the agents.  Only the agent an actor lives on   *)
(* receives from that actor's box, and it receives the oldest message.     *)
(***************************************************************************)
EXTENDS Sequences

CONSTANTS Actors, Agents, Msgs,
          Home         \* [Actors -> Agents], who receives an actor's messages

VARIABLES pool, box, hand

vars == <<pool, box, hand>>

Init ==
    /\ pool = Msgs
    /\ box = [a \in Actors |-> <<>>]
    /\ hand = [g \in Agents |-> {}]

Take(g, m) ==
    /\ m \in pool
    /\ pool' = pool \ {m}
    /\ hand' = [hand EXCEPT ![g] = @ \cup {m}]
    /\ UNCHANGED box

Return(g, m) ==
    /\ m \in hand[g]
    /\ pool' = pool \cup {m}
    /\ hand' = [hand EXCEPT ![g] = @ \ {m}]
    /\ UNCHANGED box

Send(g, a, m) ==
    /\ m \in hand[g]
    /\ box' = [box EXCEPT ![a] = Append(@, m)]
    /\ hand' = [hand EXCEPT ![g] = @ \ {m}]
    /\ UNCHANGED pool

Receive(a) ==
    /\ box[a] # <<>>
    /\ box' = [box EXCEPT ![a] = Tail(@)]
    /\ hand' = [hand EXCEPT ![Home[a]] = @ \cup {Head(box[a])}]
    /\ UNCHANGED pool

\* The oldest message of an actor that leaves the system goes back unread.
Discard(a) ==
    /\ box[a] # <<>>
    /\ box' = [box EXCEPT ![a] = Tail(@)]
    /\ pool' = pool \cup {Head(box[a])}
    /\ UNCHANGED hand

Next ==
    \/ \E g \in Agents, m \in Msgs : Take(g, m) \/ Return(g, m)
    \/ \E g \in Agents, a \in Actors, m \in Msgs : Send(g, a, m)
    \/ \E a \in Actors : Receive(a) \/ Discard(a)

Spec == Init /\ [][Next]_vars
=============================================================================
