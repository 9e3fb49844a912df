------------------------------ MODULE MCActor ------------------------------
(* Small instances of Actor for TLC. *)
EXTENDS Actor

CONSTANTS a1, a2, t1, t2

\* One dispatcher for all the actors, the default ACTOR_PRIORITY_MAX of 1.
OneCore == [a \in Actors |-> 0]

AllAgents == Agents

\* Every message that was sent is taken, and actor_deinit returns.
MessagesTakenAndDeinit == EveryMessageTaken /\ DeinitReturns
=============================================================================
