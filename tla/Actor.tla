------------------------------- MODULE Actor -------------------------------
(***************************************************************************)
(* The actor runtime, modules/actor/src/actor.c: fixed-size messages from  *)
(* one pool, a mailbox per actor, and one dispatcher thread ("core") per   *)
(* priority that runs the handlers of the actors of that priority.         *)
(*                                                                         *)
(* Agents are the threads that call the API: client threads, and the       *)
(* dispatchers themselves while they run a handler.  Every critical        *)
(* section (actor_lock, or an actor's mutex) is one step, so all the       *)
(* interleavings of the unlocked code between them are explored.           *)
(***************************************************************************)
EXTENDS Integers, Sequences, FiniteSets, Functions

CONSTANTS
    Actors,      \* the struct actor objects
    Threads,     \* client threads (application threads, the timer thread)
    NumCores,    \* ACTOR_PRIORITY_MAX
    NumMsgs,     \* blocks that fit in the memory given to actor_init
    Priority,    \* [Actors -> Cores], the priority given to actor_set
    Senders,     \* agents that call actor_alloc and actor_send
    Unsetters,   \* agents that call actor_unset and actor_set
    NullSends,   \* whether actor_send(actor, NULL) is used as a bare wake-up
    MaxSem,      \* bound: no new send while a dispatch semaphore is this high
    None         \* the NULL pointer

Cores == 0 .. NumCores - 1
Msgs == 1 .. NumMsgs
Agents == Threads \cup Cores

ASSUME ActorAssumption ==
    /\ NumCores \in Nat \ {0}
    /\ NumMsgs \in Nat \ {0}
    /\ MaxSem \in Nat \ {0}
    /\ IsFiniteSet(Threads) /\ Threads \cap Cores = {}
    /\ Priority \in [Actors -> Cores]
    /\ Senders \subseteq Agents
    /\ Unsetters \subseteq Threads
    /\ NullSends \in BOOLEAN
    /\ None \notin Actors /\ None \notin Msgs

VARIABLES
    free,        \* msgpool.free_list, in list order
    mailbox,     \* actor->messages
    held,        \* messages an agent's code owns: allocated, or being handled
    runq,        \* core->runq
    sem,         \* core->dispatch_event
    apc,         \* where an agent is inside an API call
    target,      \* the actor of that call, None outside a call
    set,         \* actors between actor_set and actor_unset
    dpc,         \* where each dispatcher is in dispatcher()/dispatch_actor()
    cur,         \* its local "actor"
    msg,         \* its local "message"
    running, ready, terminated, \* the other fields of struct core
    stage, dcore \* where deinitialize_scheduler is, and its loop variable i

poolVars == <<free, mailbox, held>>
schedVars == <<runq, sem>>
agentVars == <<apc, target, set>>
dispVars == <<dpc, cur, msg>>
coreVars == <<running, ready, terminated>>
deinitVars == <<stage, dcore>>
vars == <<poolVars, schedVars, agentVars, dispVars, coreVars, deinitVars>>

APC == {"idle", "schedule", "unset"}
DPC == {"boot", "loop", "wait", "popActor", "popMessage", "hasMessage",
        "requeue", "handler", "exited"}
Stages == {"up", "waitReady", "stop", "post", "join", "down"}

(***************************************************************************)
(* The intrusive lists.                                                    *)
(***************************************************************************)

\* A mutated form: the list is not searched first.
AddWithoutSearch(x, s) == Append(s, x)

\* add_if_not_exist: append at the tail unless the node is in the list.
AddIfNotExist(x, s) == IF x \in Range(s) THEN s ELSE Append(s, x)

\* A mutated form: the actor is not queued.
PushActorLost(a, q) == q

\* push_actor
PushActor(a, q) == AddIfNotExist(a, q)

\* A mutated form: the newest node is taken.
PopNewest(q) == [node |-> q[Len(q)], rest |-> SubSeq(q, 1, Len(q) - 1)]

\* pop_actor and pop_message on a list that is not empty.
Pop(q) == [node |-> Head(q), rest |-> Tail(q)]

\* has_message
HasMail(a) == mailbox[a] # <<>>

\* An actor's mutex is held across steps only by actor_unset's drain loop.
MutexFree(a) == \A g \in Agents : ~(apc[g] = "unset" /\ target[g] = a)

\* Code of this agent is executing and is not inside an API call.  Client
\* threads make no new call once actor_deinit was called.
CanCall(g) ==
    /\ apc[g] = "idle"
    /\ IF g \in Cores THEN dpc[g] = "handler" ELSE stage = "up"

(***************************************************************************)
(* Initial state: actor_init has returned and every actor has been set.    *)
(***************************************************************************)
Init ==
    /\ free = [i \in 1 .. NumMsgs |-> i]
    /\ mailbox = [a \in Actors |-> <<>>]
    /\ held = [g \in Agents |-> {}]
    /\ runq = [c \in Cores |-> <<>>]
    /\ sem = [c \in Cores |-> 0]
    /\ apc = [g \in Agents |-> "idle"]
    /\ target = [g \in Agents |-> None]
    /\ set = Actors
    /\ dpc = [c \in Cores |-> "boot"]
    /\ cur = [c \in Cores |-> None]
    /\ msg = [c \in Cores |-> None]
    /\ running = [c \in Cores |-> FALSE]
    /\ ready = [c \in Cores |-> 0]
    /\ terminated = [c \in Cores |-> 0]
    /\ stage = "up"
    /\ dcore = 0

(***************************************************************************)
(* The client API.                                                         *)
(***************************************************************************)

\* actor_alloc; with an empty pool it returns NULL and changes nothing.
ActorAlloc(g) ==
    /\ CanCall(g) /\ g \in Senders
    /\ free # <<>>
    /\ held' = [held EXCEPT ![g] = @ \cup {Head(free)}]
    /\ free' = Tail(free)
    /\ UNCHANGED <<mailbox, schedVars, agentVars, dispVars, coreVars,
                   deinitVars>>

\* actor_free of a block the agent owns, or a second free of a free block.
ActorFree(g, m) ==
    /\ CanCall(g)
    /\ m \in held[g] \cup Range(free)
    /\ free' = AddIfNotExist(m, free)
    /\ held' = [held EXCEPT ![g] = @ \ {m}]
    /\ UNCHANGED <<mailbox, schedVars, agentVars, dispVars, coreVars,
                   deinitVars>>

\* actor_send, first critical section: push_message under the actor's mutex.
\* A message already in that mailbox is refused and nothing is scheduled.
ActorSendPush(g, a, m) ==
    /\ CanCall(g) /\ g \in Senders /\ a \in set /\ MutexFree(a)
    /\ sem[Priority[a]] < MaxSem
    /\ m \in held[g] \cup Range(mailbox[a])
    /\ mailbox' = [mailbox EXCEPT ![a] = AddIfNotExist(m, @)]
    /\ held' = [held EXCEPT ![g] = @ \ {m}]
    /\ IF m \in Range(mailbox[a])
       THEN UNCHANGED <<apc, target>>
       ELSE /\ apc' = [apc EXCEPT ![g] = "schedule"]
            /\ target' = [target EXCEPT ![g] = a]
    /\ UNCHANGED <<free, set, schedVars, dispVars, coreVars, deinitVars>>

\* actor_send(actor, NULL): no mailbox access, straight to the scheduling.
ActorSendNull(g, a) ==
    /\ NullSends
    /\ CanCall(g) /\ g \in Senders /\ a \in set
    /\ sem[Priority[a]] < MaxSem
    /\ apc' = [apc EXCEPT ![g] = "schedule"]
    /\ target' = [target EXCEPT ![g] = a]
    /\ UNCHANGED <<poolVars, set, schedVars, dispVars, coreVars, deinitVars>>

\* A mutated form: the event is posted only when the actor was not queued.
PostIfNotQueued(g) ==
    /\ apc[g] = "schedule"
    /\ LET c == Priority[target[g]]
       IN /\ runq' = [runq EXCEPT ![c] = PushActor(target[g], @)]
          /\ sem' = [sem EXCEPT ![c] =
                        IF target[g] \in Range(runq[c]) THEN @ ELSE @ + 1]
    /\ apc' = [apc EXCEPT ![g] = "idle"]
    /\ target' = [target EXCEPT ![g] = None]
    /\ UNCHANGED <<poolVars, set, dispVars, coreVars, deinitVars>>

\* actor_send, second critical section: schedule_actor under actor_lock.
ScheduleActor(g) ==
    /\ apc[g] = "schedule"
    /\ LET c == Priority[target[g]]
       IN /\ runq' = [runq EXCEPT ![c] = PushActor(target[g], @)]
          /\ sem' = [sem EXCEPT ![c] = @ + 1]
    /\ apc' = [apc EXCEPT ![g] = "idle"]
    /\ target' = [target EXCEPT ![g] = None]
    /\ UNCHANGED <<poolVars, set, dispVars, coreVars, deinitVars>>

\* actor_unset takes the actor's mutex.  The caller makes sure that no other
\* agent is inside a call on this actor.
ActorUnset(g, a) ==
    /\ CanCall(g) /\ g \in Unsetters /\ a \in set
    /\ \A h \in Agents : target[h] # a
    /\ apc' = [apc EXCEPT ![g] = "unset"]
    /\ target' = [target EXCEPT ![g] = a]
    /\ set' = set \ {a}
    /\ UNCHANGED <<poolVars, schedVars, dispVars, coreVars, deinitVars>>

\* One turn of its loop: pop_message, then actor_free of that message.
UnsetDrain(g) ==
    /\ apc[g] = "unset"
    /\ mailbox[target[g]] # <<>>
    /\ free' = AddIfNotExist(Pop(mailbox[target[g]]).node, free)
    /\ mailbox' = [mailbox EXCEPT ![target[g]] = Pop(@).rest]
    /\ UNCHANGED <<held, schedVars, agentVars, dispVars, coreVars, deinitVars>>

\* The mailbox is empty: unlock and destroy the mutex.
UnsetDone(g) ==
    /\ apc[g] = "unset"
    /\ mailbox[target[g]] = <<>>
    /\ apc' = [apc EXCEPT ![g] = "idle"]
    /\ target' = [target EXCEPT ![g] = None]
    /\ UNCHANGED <<poolVars, set, schedVars, dispVars, coreVars,
                   deinitVars>>

\* actor_set of an actor that no list and no dispatcher refers to.
ActorSet(g, a) ==
    /\ CanCall(g) /\ g \in Unsetters /\ a \notin set
    /\ \A h \in Agents : target[h] # a
    /\ a \notin Range(runq[Priority[a]]) /\ cur[Priority[a]] # a
    /\ mailbox' = [mailbox EXCEPT ![a] = <<>>]
    /\ set' = set \cup {a}
    /\ UNCHANGED <<free, held, apc, target, schedVars, dispVars, coreVars,
                   deinitVars>>

(***************************************************************************)
(* The dispatcher thread of core c.                                        *)
(***************************************************************************)

\* dispatcher(): publish that the thread runs.
DispatcherBoot(c) ==
    /\ dpc[c] = "boot"
    /\ running' = [running EXCEPT ![c] = TRUE]
    /\ ready' = [ready EXCEPT ![c] = @ + 1]
    /\ dpc' = [dpc EXCEPT ![c] = "loop"]
    /\ UNCHANGED <<poolVars, schedVars, agentVars, cur, msg, terminated,
                   deinitVars>>

\* while (core->running); after the loop, sem_post(&core->terminated).
LoopTest(c) ==
    /\ dpc[c] = "loop"
    /\ dpc' = [dpc EXCEPT ![c] = IF running[c] THEN "wait" ELSE "exited"]
    /\ terminated' = [terminated EXCEPT ![c] = IF running[c] THEN @ ELSE @ + 1]
    /\ UNCHANGED <<poolVars, schedVars, agentVars, cur, msg, running, ready,
                   deinitVars>>

\* A mutated form: the wait returns without an event.
WaitNothing(c) ==
    /\ dpc[c] = "wait"
    /\ sem' = [sem EXCEPT ![c] = @ - 1]
    /\ dpc' = [dpc EXCEPT ![c] = "popActor"]
    /\ UNCHANGED <<poolVars, runq, agentVars, cur, msg, coreVars, deinitVars>>

\* sem_wait(&core->dispatch_event)
WaitEvent(c) ==
    /\ dpc[c] = "wait" /\ sem[c] > 0
    /\ sem' = [sem EXCEPT ![c] = @ - 1]
    /\ dpc' = [dpc EXCEPT ![c] = "popActor"]
    /\ UNCHANGED <<poolVars, runq, agentVars, cur, msg, coreVars, deinitVars>>

\* pop_actor under actor_lock; nothing queued: back to the loop.
PopActor(c) ==
    /\ dpc[c] = "popActor"
    /\ IF runq[c] = <<>>
       THEN /\ dpc' = [dpc EXCEPT ![c] = "loop"]
            /\ UNCHANGED <<runq, cur>>
       ELSE /\ cur' = [cur EXCEPT ![c] = Pop(runq[c]).node]
            /\ runq' = [runq EXCEPT ![c] = Pop(@).rest]
            /\ dpc' = [dpc EXCEPT ![c] = "popMessage"]
    /\ UNCHANGED <<poolVars, sem, agentVars, msg, coreVars, deinitVars>>

\* pop_message under the actor's mutex.
PopMessage(c) ==
    /\ dpc[c] = "popMessage" /\ MutexFree(cur[c])
    /\ LET box == mailbox[cur[c]]
       IN IF box = <<>>
          THEN /\ msg' = [msg EXCEPT ![c] = None]
               /\ dpc' = [dpc EXCEPT ![c] = "handler"]
               /\ UNCHANGED <<mailbox, held>>
          ELSE /\ msg' = [msg EXCEPT ![c] = Pop(box).node]
               /\ mailbox' = [mailbox EXCEPT ![cur[c]] = Pop(box).rest]
               /\ held' = [held EXCEPT ![c] = @ \cup {Pop(box).node}]
               /\ dpc' = [dpc EXCEPT ![c] = "hasMessage"]
    /\ UNCHANGED <<free, schedVars, agentVars, cur, coreVars, deinitVars>>

\* has_message, read with no lock held.
HasMessage(c) ==
    /\ dpc[c] = "hasMessage"
    /\ dpc' = [dpc EXCEPT ![c] =
                  IF HasMail(cur[c]) THEN "requeue" ELSE "handler"]
    /\ UNCHANGED <<poolVars, schedVars, agentVars, cur, msg, coreVars,
                   deinitVars>>

\* push_actor under actor_lock; dispatch_event is not posted.
Requeue(c) ==
    /\ dpc[c] = "requeue"
    /\ runq' = [runq EXCEPT ![c] = PushActor(cur[c], @)]
    /\ dpc' = [dpc EXCEPT ![c] = "handler"]
    /\ UNCHANGED <<poolVars, sem, agentVars, cur, msg, coreVars, deinitVars>>

\* The handler returns.  Handlers run to completion: what one took or
\* allocated it has freed or sent on by then.
HandlerReturn(c) ==
    /\ dpc[c] = "handler" /\ apc[c] = "idle" /\ held[c] = {}
    /\ dpc' = [dpc EXCEPT ![c] = "loop"]
    /\ cur' = [cur EXCEPT ![c] = None]
    /\ msg' = [msg EXCEPT ![c] = None]
    /\ UNCHANGED <<poolVars, schedVars, agentVars, coreVars, deinitVars>>

(***************************************************************************)
(* actor_deinit: the cores are shut down one after the other.              *)
(***************************************************************************)
ActorDeinit ==
    /\ stage = "up"
    /\ stage' = "waitReady"
    /\ UNCHANGED <<poolVars, schedVars, agentVars, dispVars, coreVars, dcore>>

DeinitWaitReady ==
    /\ stage = "waitReady" /\ ready[dcore] > 0
    /\ ready' = [ready EXCEPT ![dcore] = @ - 1]
    /\ stage' = "stop"
    /\ UNCHANGED <<poolVars, schedVars, agentVars, dispVars, running,
                   terminated, dcore>>

DeinitStop ==
    /\ stage = "stop"
    /\ running' = [running EXCEPT ![dcore] = FALSE]
    /\ stage' = "post"
    /\ UNCHANGED <<poolVars, schedVars, agentVars, dispVars, ready,
                   terminated, dcore>>

\* A mutated form: the sleeping dispatcher is not woken.
DeinitNoPost ==
    /\ stage = "post"
    /\ stage' = "join"
    /\ UNCHANGED <<poolVars, schedVars, agentVars, dispVars, coreVars, dcore>>

DeinitPost ==
    /\ stage = "post"
    /\ sem' = [sem EXCEPT ![dcore] = @ + 1]
    /\ stage' = "join"
    /\ UNCHANGED <<poolVars, runq, agentVars, dispVars, coreVars, dcore>>

DeinitJoin ==
    /\ stage = "join" /\ terminated[dcore] > 0
    /\ terminated' = [terminated EXCEPT ![dcore] = @ - 1]
    /\ IF dcore = NumCores - 1
       THEN stage' = "down" /\ UNCHANGED dcore
       ELSE stage' = "waitReady" /\ dcore' = dcore + 1
    /\ UNCHANGED <<poolVars, schedVars, agentVars, dispVars, running, ready>>

(***************************************************************************)
(* Specification.                                                          *)
(***************************************************************************)
Call(g) ==
    \/ ActorAlloc(g)
    \/ \E m \in Msgs : ActorFree(g, m)
    \/ \E a \in Actors, m \in Msgs : ActorSendPush(g, a, m)
    \/ \E a \in Actors : ActorSendNull(g, a) \/ ActorUnset(g, a) \/ ActorSet(g, a)

Continue(g) == ScheduleActor(g) \/ UnsetDrain(g) \/ UnsetDone(g)

Dispatcher(c) ==
    \/ DispatcherBoot(c) \/ LoopTest(c) \/ WaitEvent(c)
    \/ PopActor(c) \/ PopMessage(c) \/ HasMessage(c) \/ Requeue(c)
    \/ HandlerReturn(c)

Deinit == DeinitWaitReady \/ DeinitStop \/ DeinitPost \/ DeinitJoin

Next ==
    \/ \E g \in Agents : Call(g) \/ Continue(g)
    \/ \E c \in Cores : Dispatcher(c)
    \/ ActorDeinit \/ Deinit

\* Threads that are inside the runtime keep running, a handler disposes of
\* its message and returns, and a started actor_deinit goes on.  Nothing
\* obliges a client to make a call.
Fairness ==
    /\ \A g \in Agents : WF_vars(Continue(g))
    /\ \A c \in Cores : /\ WF_vars(Dispatcher(c))
                        /\ WF_vars(\E m \in held[c] : ActorFree(c, m))
    /\ WF_vars(Deinit)

Spec == Init /\ [][Next]_vars

FairSpec == Spec /\ Fairness

(***************************************************************************)
(* Properties.                                                             *)
(***************************************************************************)

\* Every variable has its type (struct core, struct actor, struct msgpool).
TypeOK ==
    /\ free \in Seq(Msgs)
    /\ mailbox \in [Actors -> Seq(Msgs)]
    /\ held \in [Agents -> SUBSET Msgs]
    /\ runq \in [Cores -> Seq(Actors)]
    /\ sem \in [Cores -> Nat]
    /\ apc \in [Agents -> APC]
    /\ target \in [Agents -> Actors \cup {None}]
    /\ set \in SUBSET Actors
    /\ dpc \in [Cores -> DPC]
    /\ cur \in [Cores -> Actors \cup {None}]
    /\ msg \in [Cores -> Msgs \cup {None}]
    /\ running \in [Cores -> BOOLEAN]
    /\ ready \in [Cores -> Nat]
    /\ terminated \in [Cores -> Nat]
    /\ stage \in Stages
    /\ dcore \in Cores

\* A message is on the free list, in exactly one mailbox, or owned by exactly
\* one agent.
OneOwner(m) ==
    \/ /\ m \in Range(free)
       /\ \A a \in Actors : m \notin Range(mailbox[a])
       /\ \A g \in Agents : m \notin held[g]
    \/ /\ m \notin Range(free)
       /\ \E a \in Actors :
             /\ m \in Range(mailbox[a])
             /\ \A b \in Actors \ {a} : m \notin Range(mailbox[b])
       /\ \A g \in Agents : m \notin held[g]
    \/ /\ m \notin Range(free)
       /\ \A a \in Actors : m \notin Range(mailbox[a])
       /\ \E g \in Agents :
             m \in held[g] /\ \A h \in Agents \ {g} : m \notin held[h]

\* No message block is ever lost, duplicated or shared: at any moment it has
\* one owner, and no list holds it twice (actor_alloc, actor_free,
\* push_message, pop_message).
MessageOwnedOnce ==
    /\ IsInjective(free)
    /\ \A a \in Actors : IsInjective(mailbox[a])
    /\ \A m \in Msgs : OneOwner(m)

\* The runtime implements MessagePassing: scheduling, rescheduling, unset
\* and shutdown never reorder a mailbox, and never move a message other than
\* from the pool to a caller, to a mailbox in order, and from its head to the
\* dispatcher of the actor's priority.
MP == INSTANCE MessagePassing WITH
        Home <- Priority, pool <- Range(free), box <- mailbox, hand <- held

ImplementsMessagePassing == MP!Spec

\* An actor with mail is never forgotten by the scheduler, whatever the
\* interleaving of the unlocked has_message test with senders: it is in its
\* run queue, or a sender is about to queue it, or its dispatcher has popped
\* it and not yet decided whether to queue it again.
Attended(a) ==
    \/ a \in Range(runq[Priority[a]])
    \/ \E g \in Agents : apc[g] = "schedule" /\ target[g] = a
    \/ /\ cur[Priority[a]] = a
       /\ dpc[Priority[a]] \in {"popMessage", "hasMessage", "requeue"}

NoActorForgotten == \A a \in Actors : mailbox[a] # <<>> => Attended(a)

\* No sleeping system with mail: when no call is in progress and every
\* dispatcher sleeps on its semaphore, every mailbox is empty.  Needs the
\* semaphore to have been posted often enough for the whole run queue.
Quiescent ==
    /\ \A g \in Agents : apc[g] = "idle"
    /\ \A c \in Cores : dpc[c] = "wait" /\ sem[c] = 0

NoMessageStranded == Quiescent => \A a \in Actors : mailbox[a] = <<>>

\* An actor that has its priority, and so its dispatcher, to itself.
Alone(a) == \A b \in Actors : Priority[b] = Priority[a] => b = a

\* The dispatcher of this actor sleeps, and nobody is about to wake it for it.
SleepsOn(a) ==
    /\ dpc[Priority[a]] = "wait" /\ sem[Priority[a]] = 0
    /\ \A g \in Agents : ~(apc[g] = "schedule" /\ target[g] = a)

\* An actor that is alone on its priority loses no wake-up, however many
\* threads send to it and however their two critical sections interleave with
\* its dispatcher: the dispatcher never sleeps on its mail, and, where nobody
\* sends NULL and no mailbox is drained by actor_unset, never calls its handler
\* with NULL for want of a message (dispatch_actor).  Actors that share a
\* priority lose wake-ups to each other even with one sending thread.
NoMessageLost ==
    \A a \in Actors : Alone(a) =>
        /\ SleepsOn(a) => mailbox[a] = <<>>
        /\ ~NullSends /\ Unsetters = {} /\ dpc[Priority[a]] = "handler"
              => msg[Priority[a]] # None

\* Once actor_unset has returned, the actor is removed from the actor system:
\* no dispatcher goes on to run its handler.
UnsetActorNotRun ==
    [][\A c \in Cores :
          dpc[c] # "handler" /\ dpc'[c] = "handler"
             => cur[c] \in set \/ ~MutexFree(cur[c])]_vars

\* A mailed message is eventually taken out of the mailbox, unless the
\* system is shut down.
EveryMessageTaken ==
    \A a \in Actors, m \in Msgs :
        m \in Range(mailbox[a]) ~> (m \notin Range(mailbox[a]) \/ stage # "up")

\* actor_deinit returns, whatever the dispatchers were doing when it began.
DeinitReturns == (stage # "up") ~> (stage = "down")
=============================================================================
