-------------------------- MODULE ActorWakeProofs --------------------------
(***************************************************************************)
(* Proofs about the wake-ups of Actor: for an actor that is alone on its   *)
(* priority, dispatch_event is posted often enough for every message and   *)
(* not more often than there are messages.                                 *)
(*                                                                         *)
(* Seen from one actor and its dispatcher the runtime is a small counter   *)
(* machine, View and ViewNext: the first lemmas show that every step of    *)
(* the runtime is one of its steps, the next that it keeps its invariants. *)
(***************************************************************************)
EXTENDS ActorProofs, FiniteSetTheorems

(***************************************************************************)
(* The machine.                                                            *)
(***************************************************************************)

\* Senders that have put a message in the mailbox and not yet posted its event.
Late(a) == {g \in Agents : apc[g] = "schedule" /\ target[g] = a}

\* actor_deinit has stopped the core, and has posted its dispatcher's event.
Stopped(c) == c < dcore \/ (c = dcore /\ stage \in {"post", "join", "down"})
Posted(c) == c < dcore \/ (c = dcore /\ stage \in {"join", "down"})

View(a) ==
    [mail   |-> Len(mailbox[a]),
     late   |-> Cardinality(Late(a)),
     events |-> sem[Priority[a]],
     at     |-> dpc[Priority[a]],
     queued |-> IF a \in Range(runq[Priority[a]]) THEN 1 ELSE 0,
     got    |-> IF msg[Priority[a]] # None THEN 1 ELSE 0,
     posted |-> IF Posted(Priority[a]) THEN 1 ELSE 0]

Views == [mail : Nat, late : Nat, events : Nat, at : DPC,
          queued : {0, 1}, got : {0, 1}, posted : {0, 1}]

Counts(v) == <<v.mail, v.late, v.events>>
Flags(v) == <<v.at, v.queued, v.got, v.posted>>

\* Clients: actor_send's two critical sections; a mailbox is emptied other
\* than by its dispatcher only by actor_unset.
Pushed(v, w) ==
    /\ Counts(w) = <<v.mail + 1, v.late + 1, v.events>> /\ Flags(w) = Flags(v)
NullWake(v, w) ==
    /\ NullSends /\ Counts(w) = <<v.mail, v.late + 1, v.events>>
    /\ Flags(w) = Flags(v)
Scheduled(v, w) ==
    /\ v.late > 0 /\ Counts(w) = <<v.mail, v.late - 1, v.events + 1>>
    /\ Flags(w) = <<v.at, 1, v.got, v.posted>>
Emptied(v, w) ==
    /\ Unsetters # {} /\ Counts(w) = <<w.mail, v.late, v.events>>
    /\ w.mail <= v.mail /\ Flags(w) = Flags(v)

\* The dispatcher.
Boots(v, w) ==
    /\ v.at = "boot" /\ Counts(w) = Counts(v)
    /\ Flags(w) = <<"loop", v.queued, v.got, v.posted>>
Loops(v, w) ==
    /\ v.at = "loop" /\ v.posted = 0 /\ Counts(w) = Counts(v)
    /\ Flags(w) = <<"wait", v.queued, v.got, v.posted>>
Exits(v, w) ==
    /\ v.at = "loop" /\ Counts(w) = Counts(v)
    /\ Flags(w) = <<"exited", v.queued, v.got, v.posted>>
Wakes(v, w) ==
    /\ v.at = "wait" /\ v.events > 0
    /\ Counts(w) = <<v.mail, v.late, v.events - 1>>
    /\ Flags(w) = <<"popActor", v.queued, v.got, v.posted>>
FindsNone(v, w) ==
    /\ v.at = "popActor" /\ v.queued = 0 /\ Counts(w) = Counts(v)
    /\ Flags(w) = <<"loop", v.queued, v.got, v.posted>>
Finds(v, w) ==
    /\ v.at = "popActor" /\ v.queued = 1 /\ Counts(w) = Counts(v)
    /\ Flags(w) = <<"popMessage", 0, v.got, v.posted>>
TakesNone(v, w) ==
    /\ v.at = "popMessage" /\ v.mail = 0 /\ Counts(w) = Counts(v)
    /\ Flags(w) = <<"handler", v.queued, 0, v.posted>>
Takes(v, w) ==
    /\ v.at = "popMessage" /\ v.mail > 0
    /\ Counts(w) = <<v.mail - 1, v.late, v.events>>
    /\ Flags(w) = <<"hasMessage", v.queued, 1, v.posted>>
SeesMore(v, w) ==
    /\ v.at = "hasMessage" /\ v.mail > 0 /\ Counts(w) = Counts(v)
    /\ Flags(w) = <<"requeue", v.queued, v.got, v.posted>>
SeesNone(v, w) ==
    /\ v.at = "hasMessage" /\ v.mail = 0 /\ Counts(w) = Counts(v)
    /\ Flags(w) = <<"handler", v.queued, v.got, v.posted>>
Requeues(v, w) ==
    /\ v.at = "requeue" /\ Counts(w) = Counts(v)
    /\ Flags(w) = <<"handler", 1, v.got, v.posted>>
Returns(v, w) ==
    /\ v.at = "handler" /\ Counts(w) = Counts(v)
    /\ Flags(w) = <<"loop", v.queued, 0, v.posted>>

\* deinitialize_scheduler posts the event of this core.
StopPosted(v, w) ==
    /\ v.posted = 0 /\ Counts(w) = <<v.mail, v.late, v.events + 1>>
    /\ Flags(w) = <<v.at, v.queued, v.got, 1>>

ViewNext(v, w) ==
    \/ w = v
    \/ Pushed(v, w) \/ NullWake(v, w) \/ Scheduled(v, w) \/ Emptied(v, w)
    \/ Boots(v, w) \/ Loops(v, w) \/ Exits(v, w) \/ Wakes(v, w)
    \/ FindsNone(v, w) \/ Finds(v, w) \/ TakesNone(v, w) \/ Takes(v, w)
    \/ SeesMore(v, w) \/ SeesNone(v, w) \/ Requeues(v, w) \/ Returns(v, w)
    \/ StopPosted(v, w)

\* The event a dispatcher has taken and not yet spent on a message.
Taken(v) == IF v.at \in {"popActor", "popMessage"} THEN 1 ELSE 0

\* There is an event, posted or about to be posted, for every message; and an
\* actor with a message whose event was posted is queued, or its dispatcher has
\* yet to look at its mailbox, so that no event is spent on an empty run queue
\* while there is mail.
EnoughEvents(v) ==
    /\ v.mail <= v.events + Taken(v) + v.late
    /\ \/ v.mail <= v.late
       \/ v.queued = 1
       \/ v.at \in {"popMessage", "hasMessage", "requeue"}

\* The dispatcher may look at its run queue again.
Live(v) == v.posted = 0 \/ v.at \in {"wait", "popActor", "popMessage"}

\* There is a message for every event, but for the one of actor_deinit, which
\* the dispatcher spends at most once; so an actor that is queued has mail.
NoSpareEvents(v) ==
    /\ Live(v) =>
        /\ v.late <= v.mail
        /\ v.events + Taken(v) + v.late <= v.mail + v.posted
        /\ v.queued = 1 \/ v.at = "popMessage" => v.mail > 0
        /\ v.queued = 1 /\ v.at = "popMessage" /\ v.posted = 0 => v.mail > 1
    /\ v.at = "requeue" => v.mail > 0
    /\ v.at \in {"hasMessage", "requeue", "handler"} => v.got = 1

\* Lemmas: the machine keeps its two invariants.
LEMMA EnoughStep ==
    ASSUME NEW v \in Views, NEW w \in Views, ViewNext(v, w), EnoughEvents(v)
    PROVE  EnoughEvents(w)
<1>1. CASE Pushed(v, w)
  BY <1>1 DEF Pushed, EnoughEvents, Taken, Views, Counts, Flags
<1>2. CASE NullWake(v, w)
  BY <1>2 DEF NullWake, EnoughEvents, Taken, Views, Counts, Flags
<1>3. CASE Scheduled(v, w)
  BY <1>3 DEF Scheduled, EnoughEvents, Taken, Views, Counts, Flags
<1>4. CASE Emptied(v, w)
  BY <1>4 DEF Emptied, EnoughEvents, Taken, Views, Counts, Flags
<1>5. CASE Boots(v, w)
  BY <1>5 DEF Boots, EnoughEvents, Taken, Views, Counts, Flags
<1>6. CASE Loops(v, w)
  BY <1>6 DEF Loops, EnoughEvents, Taken, Views, Counts, Flags
<1>7. CASE Exits(v, w)
  BY <1>7 DEF Exits, EnoughEvents, Taken, Views, Counts, Flags
<1>8. CASE Wakes(v, w)
  BY <1>8 DEF Wakes, EnoughEvents, Taken, Views, Counts, Flags
<1>9. CASE FindsNone(v, w)
  BY <1>9 DEF FindsNone, EnoughEvents, Taken, Views, Counts, Flags
<1>10. CASE Finds(v, w)
  BY <1>10 DEF Finds, EnoughEvents, Taken, Views, Counts, Flags
<1>11. CASE TakesNone(v, w)
  BY <1>11 DEF TakesNone, EnoughEvents, Taken, Views, Counts, Flags
<1>12. CASE Takes(v, w)
  BY <1>12 DEF Takes, EnoughEvents, Taken, Views, Counts, Flags
<1>13. CASE SeesMore(v, w)
  BY <1>13 DEF SeesMore, EnoughEvents, Taken, Views, Counts, Flags
<1>14. CASE SeesNone(v, w)
  BY <1>14 DEF SeesNone, EnoughEvents, Taken, Views, Counts, Flags
<1>15. CASE Requeues(v, w)
  BY <1>15 DEF Requeues, EnoughEvents, Taken, Views, Counts, Flags
<1>16. CASE Returns(v, w)
  BY <1>16 DEF Returns, EnoughEvents, Taken, Views, Counts, Flags
<1>17. CASE StopPosted(v, w)
  BY <1>17 DEF StopPosted, EnoughEvents, Taken, Views, Counts, Flags
<1> QED
  BY <1>1, <1>2, <1>3, <1>4, <1>5, <1>6, <1>7, <1>8, <1>9,
     <1>10, <1>11, <1>12, <1>13, <1>14, <1>15, <1>16, <1>17 DEF ViewNext

LEMMA NoSpareStep ==
    ASSUME NEW v \in Views, NEW w \in Views, ViewNext(v, w), NoSpareEvents(v),
           ~NullSends, Unsetters = {}
    PROVE  NoSpareEvents(w)
<1>1. CASE Pushed(v, w)
  BY <1>1 DEF Pushed, NoSpareEvents, Live, Taken, Views, Counts, Flags
<1>2. CASE NullWake(v, w)
  BY <1>2 DEF NullWake, NoSpareEvents, Live, Taken, Views, Counts, Flags
<1>3. CASE Scheduled(v, w)
  BY <1>3 DEF Scheduled, NoSpareEvents, Live, Taken, Views, Counts, Flags
<1>4. CASE Emptied(v, w)
  BY <1>4 DEF Emptied, NoSpareEvents, Live, Taken, Views, Counts, Flags
<1>5. CASE Boots(v, w)
  BY <1>5 DEF Boots, NoSpareEvents, Live, Taken, Views, Counts, Flags
<1>6. CASE Loops(v, w)
  BY <1>6 DEF Loops, NoSpareEvents, Live, Taken, Views, Counts, Flags
<1>7. CASE Exits(v, w)
  BY <1>7 DEF Exits, NoSpareEvents, Live, Taken, Views, Counts, Flags
<1>8. CASE Wakes(v, w)
  BY <1>8 DEF Wakes, NoSpareEvents, Live, Taken, Views, Counts, Flags
<1>9. CASE FindsNone(v, w)
  BY <1>9 DEF FindsNone, NoSpareEvents, Live, Taken, Views, Counts, Flags
<1>10. CASE Finds(v, w)
  BY <1>10 DEF Finds, NoSpareEvents, Live, Taken, Views, Counts, Flags
<1>11. CASE TakesNone(v, w)
  BY <1>11 DEF TakesNone, NoSpareEvents, Live, Taken, Views, Counts, Flags
<1>12. CASE Takes(v, w)
  BY <1>12 DEF Takes, NoSpareEvents, Live, Taken, Views, Counts, Flags
<1>13. CASE SeesMore(v, w)
  BY <1>13 DEF SeesMore, NoSpareEvents, Live, Taken, Views, Counts, Flags
<1>14. CASE SeesNone(v, w)
  BY <1>14 DEF SeesNone, NoSpareEvents, Live, Taken, Views, Counts, Flags
<1>15. CASE Requeues(v, w)
  BY <1>15 DEF Requeues, NoSpareEvents, Live, Taken, Views, Counts, Flags
<1>16. CASE Returns(v, w)
  BY <1>16 DEF Returns, NoSpareEvents, Live, Taken, Views, Counts, Flags
<1>17. CASE StopPosted(v, w)
  BY <1>17 DEF StopPosted, NoSpareEvents, Live, Taken, Views, Counts, Flags
<1> QED
  BY <1>1, <1>2, <1>3, <1>4, <1>5, <1>6, <1>7, <1>8, <1>9,
     <1>10, <1>11, <1>12, <1>13, <1>14, <1>15, <1>16, <1>17 DEF ViewNext

(***************************************************************************)
(* What the machine's steps rest on in the runtime.                        *)
(***************************************************************************)

\* A core is stopped for good: its dispatcher has passed the assignment of
\* core->running before actor_deinit clears it.
StoppedForGood ==
    \A c \in Cores :
        /\ ready[c] > 0 \/ (c = dcore /\ stage = "stop") => dpc[c] # "boot"
        /\ Stopped(c) => running[c] = FALSE /\ dpc[c] # "boot"

\* A run queue holds an actor once.
QueuedOnce == \A c \in Cores : IsInjective(runq[c])

\* Only an agent that calls actor_unset drains a mailbox.
Drainers == \A g \in Agents : apc[g] = "unset" => g \in Unsetters

WakeInv == AttendInv /\ StoppedForGood /\ QueuedOnce /\ Drainers

LEMMA WakeInit == Init => WakeInv
<1> SUFFICES ASSUME Init PROVE StoppedForGood /\ QueuedOnce /\ Drainers
  BY AttendInit DEF WakeInv
<1>1. StoppedForGood
  BY ActorAssumption DEF Init, StoppedForGood, Stopped, Cores
<1>2. QueuedOnce
  BY DEF Init, QueuedOnce, IsInjective
<1>3. Drainers
  BY DEF Init, Drainers
<1> QED
  BY <1>1, <1>2, <1>3

LEMMA StoppedStep == AttendInv /\ StoppedForGood /\ [Next]_vars => StoppedForGood'
<1> SUFFICES ASSUME AttendInv, StoppedForGood, [Next]_vars
             PROVE  StoppedForGood'
  OBVIOUS
<1>0. TypeInv /\ dcore \in Cores /\ stage \in Stages /\ Cores \subseteq Int
  <2>1. TypeInv /\ dcore \in Cores /\ stage \in Stages
    BY DEF AttendInv, TypeInv, TypeOK
  <2>2. Cores \subseteq Int
    BY ActorAssumption DEF Cores
  <2> QED
    BY <2>1, <2>2
<1>1. ASSUME NEW c \in Cores, DispatcherBoot(c)
      PROVE  StoppedForGood'
  <2>1. ~Stopped(c)
    BY <1>1 DEF DispatcherBoot, StoppedForGood
  <2>2. /\ dpc' = [dpc EXCEPT ![c] = "loop"] /\ ready' = [ready EXCEPT ![c] = @ + 1]
        /\ running' = [running EXCEPT ![c] = TRUE] /\ UNCHANGED <<stage, dcore>>
    BY <1>1 DEF DispatcherBoot, deinitVars
  <2>3. ASSUME NEW d \in Cores, d # c
        PROVE  dpc'[d] = dpc[d] /\ ready'[d] = ready[d] /\ running'[d] = running[d]
    BY <1>0, <2>2, <2>3 DEF TypeInv, TypeOK
  <2>4. dpc'[c] = "loop"
    BY <1>0, <2>2 DEF TypeInv, TypeOK
  <2>5. \A d \in Cores : Stopped(d)' <=> Stopped(d)
    BY <2>2 DEF Stopped
  <2> QED
    BY <2>1, <2>2, <2>3, <2>4, <2>5 DEF StoppedForGood
<1>2. ASSUME NEW c \in Cores,
             \/ LoopTest(c) \/ WaitEvent(c) \/ PopActor(c) \/ PopMessage(c)
             \/ HasMessage(c) \/ Requeue(c) \/ HandlerReturn(c)
      PROVE  StoppedForGood'
  <2>1. UNCHANGED <<running, ready, stage, dcore>>
    BY <1>2 DEF LoopTest, WaitEvent, PopActor, PopMessage, HasMessage, Requeue,
       HandlerReturn, coreVars, deinitVars
  <2>2. \A d \in Cores : dpc'[d] = "boot" => dpc[d] = "boot"
    BY <1>0, <1>2 DEF LoopTest, WaitEvent, PopActor, PopMessage, HasMessage,
       Requeue, HandlerReturn, TypeInv, TypeOK
  <2>3. \A d \in Cores : Stopped(d)' <=> Stopped(d)
    BY <2>1 DEF Stopped
  <2> QED
    BY <2>1, <2>2, <2>3 DEF StoppedForGood
<1>3. CASE (\E g \in Agents : Call(g) \/ Continue(g)) \/ UNCHANGED vars
  <2>1. UNCHANGED <<running, ready, stage, dcore, dpc>>
    BY <1>3 DEF Call, Continue, ActorAlloc, ActorFree, ActorSendPush,
       ActorSendNull, ActorUnset, ActorSet, ScheduleActor, UnsetDrain,
       UnsetDone, vars, coreVars, deinitVars, dispVars
  <2>2. \A d \in Cores : Stopped(d)' <=> Stopped(d)
    BY <2>1 DEF Stopped
  <2> QED
    BY <2>1, <2>2 DEF StoppedForGood
<1>4. CASE ActorDeinit
  <2>1. \A d \in Cores : Stopped(d)' <=> Stopped(d)
    BY <1>4 DEF ActorDeinit, Stopped
  <2> QED
    BY <1>4, <2>1 DEF ActorDeinit, StoppedForGood, coreVars, dispVars
<1>5. CASE DeinitWaitReady
  <2>1. \A d \in Cores : Stopped(d)' <=> Stopped(d)
    BY <1>5 DEF DeinitWaitReady, Stopped
  <2>2. \A d \in Cores : ready'[d] > 0 => ready[d] > 0
    BY <1>0, <1>5 DEF DeinitWaitReady, TypeInv, TypeOK
  <2>3. ready[dcore] > 0
    BY <1>5 DEF DeinitWaitReady
  <2> QED
    BY <1>0, <1>5, <2>1, <2>2, <2>3 DEF DeinitWaitReady, StoppedForGood, dispVars
<1>6. CASE DeinitStop
  <2>1. \A d \in Cores : Stopped(d)' => Stopped(d) \/ d = dcore
    BY <1>0, <1>6 DEF DeinitStop, Stopped
  <2>2. \A d \in Cores : running'[d] = IF d = dcore THEN FALSE ELSE running[d]
    BY <1>0, <1>6, Zenon DEF DeinitStop, TypeInv, TypeOK
  <2>3. dpc[dcore] # "boot"
    BY <1>0, <1>6 DEF DeinitStop, StoppedForGood
  <2> QED
    BY <1>0, <1>6, <2>1, <2>2, <2>3 DEF DeinitStop, StoppedForGood, dispVars
<1>7. CASE DeinitPost
  <2>1. \A d \in Cores : Stopped(d)' <=> Stopped(d)
    BY <1>0, <1>7 DEF DeinitPost, Stopped
  <2> QED
    BY <1>7, <2>1 DEF DeinitPost, StoppedForGood, coreVars, dispVars
<1>8. CASE DeinitJoin
  <2>1. \A d \in Cores : Stopped(d)' => Stopped(d)
    BY <1>0, <1>8 DEF DeinitJoin, Stopped
  <2> QED
    BY <1>8, <2>1 DEF DeinitJoin, StoppedForGood, dispVars
<1> QED
  BY <1>1, <1>2, <1>3, <1>4, <1>5, <1>6, <1>7, <1>8 DEF Next, Dispatcher, Deinit

LEMMA QueuedOnceStep == AttendInv /\ QueuedOnce /\ [Next]_vars => QueuedOnce'
<1> SUFFICES ASSUME AttendInv, QueuedOnce, [Next]_vars PROVE QueuedOnce'
  OBVIOUS
<1>0. TypeInv
  BY DEF AttendInv
<1>1. ASSUME NEW g \in Agents, ScheduleActor(g)
      PROVE  QueuedOnce'
  <2>1. PICK a \in Actors : a = target[g]
    BY <1>0, <1>1 DEF ScheduleActor, TypeInv, Located
  <2>2. PICK c \in Cores : c = Priority[a]
    BY ActorAssumption
  <2>3. runq[c] \in Seq(Actors) /\ IsInjective(runq[c])
    BY <1>0 DEF TypeInv, TypeOK, QueuedOnce
  <2>4. IsInjective(AddIfNotExist(a, runq[c]))
    BY <2>3, AddIfNotExistFacts
  <2>5. runq' = [runq EXCEPT ![c] = AddIfNotExist(a, runq[c])]
    BY <1>1, <2>1, <2>2 DEF ScheduleActor, PushActor
  <2> QED
    BY <1>0, <2>4, <2>5 DEF QueuedOnce, TypeInv, TypeOK
<1>2. ASSUME NEW c \in Cores, PopActor(c)
      PROVE  QueuedOnce'
  <2>1. CASE runq[c] = <<>>
    BY <1>2, <2>1 DEF PopActor, QueuedOnce
  <2>2. CASE runq[c] # <<>>
    <3>1. IsInjective(Pop(runq[c]).rest)
      BY <1>0, <2>2, PopFacts DEF TypeInv, TypeOK, QueuedOnce
    <3>2. runq' = [runq EXCEPT ![c] = Pop(runq[c]).rest]
      BY <1>2, <2>2 DEF PopActor
    <3> QED
      BY <1>0, <3>1, <3>2 DEF QueuedOnce, TypeInv, TypeOK
  <2> QED
    BY <2>1, <2>2
<1>3. ASSUME NEW c \in Cores, Requeue(c)
      PROVE  QueuedOnce'
  <2>1. PICK a \in Actors : a = cur[c]
    BY <1>0, <1>3 DEF Requeue, TypeInv, Located
  <2>2. runq[c] \in Seq(Actors) /\ IsInjective(runq[c])
    BY <1>0 DEF TypeInv, TypeOK, QueuedOnce
  <2>3. IsInjective(AddIfNotExist(a, runq[c]))
    BY <2>2, AddIfNotExistFacts
  <2>4. runq' = [runq EXCEPT ![c] = AddIfNotExist(a, runq[c])]
    BY <1>3, <2>1 DEF Requeue, PushActor
  <2> QED
    BY <1>0, <2>3, <2>4 DEF QueuedOnce, TypeInv, TypeOK
<1>4. ASSUME NEW c \in Cores,
             \/ DispatcherBoot(c) \/ LoopTest(c) \/ WaitEvent(c) \/ PopMessage(c)
             \/ HasMessage(c) \/ HandlerReturn(c)
      PROVE  QueuedOnce'
  BY <1>4 DEF DispatcherBoot, LoopTest, WaitEvent, PopMessage, HasMessage,
     HandlerReturn, QueuedOnce, schedVars
<1>5. ASSUME NEW g \in Agents, Call(g) \/ UnsetDrain(g) \/ UnsetDone(g)
      PROVE  QueuedOnce'
  BY <1>5 DEF Call, ActorAlloc, ActorFree, ActorSendPush, ActorSendNull,
     ActorUnset, ActorSet, UnsetDrain, UnsetDone, QueuedOnce, schedVars
<1>6. CASE ActorDeinit \/ Deinit \/ UNCHANGED vars
  BY <1>6 DEF ActorDeinit, Deinit, DeinitWaitReady, DeinitStop, DeinitPost,
     DeinitJoin, vars, QueuedOnce, schedVars
<1> QED
  BY <1>1, <1>2, <1>3, <1>4, <1>5, <1>6 DEF Next, Continue, Dispatcher

LEMMA DrainersStep == AttendInv /\ Drainers /\ [Next]_vars => Drainers'
<1> SUFFICES ASSUME AttendInv, Drainers, [Next]_vars PROVE Drainers'
  OBVIOUS
<1>0. TypeInv
  BY DEF AttendInv
<1>1. ASSUME NEW g \in Agents, Call(g) \/ Continue(g)
      PROVE  Drainers'
  <2>1. \A h \in Agents : apc'[h] = "unset" => apc[h] = "unset" \/ h \in Unsetters
    BY <1>0, <1>1 DEF Call, Continue, ActorAlloc, ActorFree, ActorSendPush,
       ActorSendNull, ActorUnset, ActorSet, ScheduleActor, UnsetDrain, UnsetDone,
       agentVars, TypeInv, TypeOK
  <2> QED
    BY <2>1 DEF Drainers
<1>2. CASE \/ \E c \in Cores : Dispatcher(c)
           \/ ActorDeinit \/ Deinit \/ UNCHANGED vars
  <2>1. UNCHANGED apc
    BY <1>2 DEF Dispatcher, DispatcherBoot, LoopTest, WaitEvent, PopActor,
       PopMessage, HasMessage, Requeue, HandlerReturn, ActorDeinit, Deinit,
       DeinitWaitReady, DeinitStop, DeinitPost, DeinitJoin, vars, agentVars
  <2> QED
    BY <2>1 DEF Drainers
<1> QED
  BY <1>1, <1>2 DEF Next

LEMMA WakeStep == WakeInv /\ [Next]_vars => WakeInv'
  BY AttendStep, StoppedStep, QueuedOnceStep, DrainersStep DEF WakeInv

(***************************************************************************)
(* Every step of the runtime is a step of the machine.                     *)
(***************************************************************************)

LEMMA LateFinite == \A a \in Actors : IsFiniteSet(Late(a)) /\ IsFiniteSet(Late(a)')
<1>1. IsFiniteSet(Cores)
  BY ActorAssumption, FS_Interval DEF Cores
<1>2. IsFiniteSet(Agents)
  BY <1>1, ActorAssumption, FS_Union DEF Agents
<1>3. \A a \in Actors : Late(a) \subseteq Agents /\ Late(a)' \subseteq Agents
  BY DEF Late
<1> QED
  BY <1>2, <1>3, FS_Subset

LEMMA ViewType == TypeInv => \A a \in Actors : View(a) \in Views
<1> SUFFICES ASSUME TypeInv, NEW a \in Actors PROVE View(a) \in Views
  OBVIOUS
<1>1. Cardinality(Late(a)) \in Nat
  BY LateFinite, FS_CardinalityType
<1>2. Priority[a] \in Cores
  BY ActorAssumption
<1>3. Len(mailbox[a]) \in Nat /\ sem[Priority[a]] \in Nat /\ dpc[Priority[a]] \in DPC
  BY <1>2 DEF TypeInv, TypeOK
<1> QED
  BY <1>1, <1>3 DEF View, Views

LEMMA ViewTypeNext == TypeInv' => \A a \in Actors : View(a)' \in Views
<1> SUFFICES ASSUME TypeInv', NEW a \in Actors PROVE View(a)' \in Views
  OBVIOUS
<1>1. Cardinality(Late(a)') \in Nat
  BY LateFinite, FS_CardinalityType
<1>2. Priority[a] \in Cores
  BY ActorAssumption
<1>3. Len(mailbox'[a]) \in Nat /\ sem'[Priority[a]] \in Nat /\ dpc'[Priority[a]] \in DPC
  BY <1>2 DEF TypeInv, TypeOK
<1> QED
  BY <1>1, <1>3 DEF View, Views

LEMMA ViewFrame ==
    ASSUME NEW a \in Actors, NEW c \in Cores, c = Priority[a],
           mailbox'[a] = mailbox[a], Late(a)' = Late(a), sem'[c] = sem[c],
           dpc'[c] = dpc[c], runq'[c] = runq[c], msg'[c] = msg[c],
           Posted(c)' <=> Posted(c)
    PROVE  View(a)' = View(a)
  BY DEF View

LEMMA ClientViews ==
    ASSUME WakeInv, NEW a \in Actors, Alone(a),
           NEW g \in Agents, Call(g) \/ Continue(g)
    PROVE  ViewNext(View(a), View(a)')
<1>0. TypeInv
  BY DEF WakeInv, AttendInv
<1>c. PICK c \in Cores : c = Priority[a]
  BY ActorAssumption
<1>u. UNCHANGED <<dpc, msg, stage, dcore>>
  BY DEF Call, Continue, ActorAlloc, ActorFree, ActorSendPush, ActorSendNull,
     ActorUnset, ActorSet, ScheduleActor, UnsetDrain, UnsetDone, dispVars,
     deinitVars
<1>p. Posted(c)' <=> Posted(c)
  BY <1>u DEF Posted
<1>f. ASSUME mailbox'[a] = mailbox[a], Late(a)' = Late(a), sem'[c] = sem[c],
             runq'[c] = runq[c]
      PROVE  View(a)' = View(a)
  BY <1>f, <1>c, <1>u, <1>p, ViewFrame
<1>1. CASE ActorAlloc(g) \/ \E m \in Msgs : ActorFree(g, m)
  <2>1. UNCHANGED <<mailbox, sem, runq, apc, target>>
    <3>1. CASE ActorAlloc(g)
      BY <3>1 DEF ActorAlloc, schedVars, agentVars
    <3>2. ASSUME NEW m \in Msgs, ActorFree(g, m)
          PROVE  UNCHANGED <<mailbox, sem, runq, apc, target>>
      BY <3>2 DEF ActorFree, schedVars, agentVars
    <3> QED
      BY <1>1, <3>1, <3>2
  <2>2. Late(a)' = Late(a)
    BY <2>1 DEF Late
  <2> QED
    BY <1>f, <2>1, <2>2 DEF ViewNext
<1>2. ASSUME NEW b \in Actors, NEW m \in Msgs, ActorSendPush(g, b, m)
      PROVE  ViewNext(View(a), View(a)')
  <2>1. UNCHANGED <<sem, runq>> /\ mailbox \in [Actors -> Seq(Msgs)]
    BY <1>0, <1>2 DEF ActorSendPush, schedVars, TypeInv, TypeOK
  <2>2. CASE b = a /\ m \notin Range(mailbox[a])
    <3>1. mailbox'[a] = Append(mailbox[a], m)
      BY <1>2, <2>1, <2>2 DEF ActorSendPush, AddIfNotExist
    <3>2. Len(mailbox'[a]) = Len(mailbox[a]) + 1
      <4> DEFINE box == mailbox[a]
      <4>1. box \in Seq(Msgs)
        BY <2>1
      <4> HIDE DEF box
      <4>2. Len(Append(box, m)) = Len(box) + 1
        BY <4>1
      <4> QED
        BY <3>1, <4>2 DEF box
    <3>3. Late(a)' = Late(a) \cup {g} /\ g \notin Late(a)
      <4>1. /\ apc[g] = "idle" /\ apc' = [apc EXCEPT ![g] = "schedule"]
            /\ target' = [target EXCEPT ![g] = a]
        BY <1>2, <2>2 DEF ActorSendPush, CanCall
      <4>2. /\ apc'[g] = "schedule" /\ target'[g] = a
            /\ \A h \in Agents \ {g} : apc'[h] = apc[h] /\ target'[h] = target[h]
        BY <1>0, <4>1 DEF TypeInv, TypeOK
      <4> QED
        BY <4>1, <4>2 DEF Late
    <3>4. Cardinality(Late(a)') = Cardinality(Late(a)) + 1
      BY <3>3, LateFinite, FS_AddElement
    <3>5. Pushed(View(a), View(a)')
      BY <1>c, <1>u, <1>p, <2>1, <3>2, <3>4 DEF View, Pushed, Counts, Flags
    <3> QED
      BY <3>5 DEF ViewNext
  <2>3. CASE b # a
    <3>1. mailbox'[a] = mailbox[a]
      BY <1>2, <2>1, <2>3 DEF ActorSendPush
    <3>2. Late(a)' = Late(a)
      BY <1>0, <1>2, <2>3 DEF ActorSendPush, CanCall, Late, TypeInv, TypeOK
    <3> QED
      BY <1>f, <2>1, <3>1, <3>2 DEF ViewNext
  <2>4. CASE b = a /\ m \in Range(mailbox[a])
    <3>1. mailbox'[a] = mailbox[a] /\ UNCHANGED <<apc, target>>
      BY <1>2, <2>1, <2>4 DEF ActorSendPush, AddIfNotExist
    <3>2. Late(a)' = Late(a)
      BY <3>1 DEF Late
    <3> QED
      BY <1>f, <2>1, <3>1, <3>2 DEF ViewNext
  <2> QED
    BY <2>2, <2>3, <2>4
<1>3. ASSUME NEW b \in Actors, ActorSendNull(g, b)
      PROVE  ViewNext(View(a), View(a)')
  <2>1. UNCHANGED <<sem, runq, mailbox>> /\ NullSends
    BY <1>3 DEF ActorSendNull, schedVars, poolVars
  <2>2. CASE b = a
    <3>3. Late(a)' = Late(a) \cup {g} /\ g \notin Late(a)
      BY <1>0, <1>3, <2>2 DEF ActorSendNull, CanCall, Late, TypeInv, TypeOK
    <3>4. Cardinality(Late(a)') = Cardinality(Late(a)) + 1
      BY <3>3, LateFinite, FS_AddElement
    <3>5. NullWake(View(a), View(a)')
      BY <1>c, <1>u, <1>p, <2>1, <3>4 DEF View, NullWake, Counts, Flags
    <3> QED
      BY <3>5 DEF ViewNext
  <2>3. CASE b # a
    <3>2. Late(a)' = Late(a)
      BY <1>0, <1>3, <2>3 DEF ActorSendNull, CanCall, Late, TypeInv, TypeOK
    <3> QED
      BY <1>f, <2>1, <3>2 DEF ViewNext
  <2> QED
    BY <2>2, <2>3
<1>4. ASSUME NEW b \in Actors, ActorUnset(g, b)
      PROVE  ViewNext(View(a), View(a)')
  <2>1. UNCHANGED <<sem, runq, mailbox>>
    BY <1>4 DEF ActorUnset, schedVars, poolVars
  <2>2. Late(a)' = Late(a)
    BY <1>0, <1>4 DEF ActorUnset, CanCall, Late, TypeInv, TypeOK
  <2> QED
    BY <1>f, <2>1, <2>2 DEF ViewNext
<1>5. ASSUME NEW b \in Actors, ActorSet(g, b)
      PROVE  ViewNext(View(a), View(a)')
  <2>1. UNCHANGED <<sem, runq, apc, target>> /\ Unsetters # {}
    BY <1>5 DEF ActorSet, schedVars
  <2>2. Late(a)' = Late(a)
    BY <2>1 DEF Late
  <2>3. CASE b = a
    <3>1. mailbox'[a] = <<>>
      BY <1>0, <1>5, <2>3 DEF ActorSet, TypeInv, TypeOK
    <3>2. Len(mailbox[a]) \in Nat
      BY <1>0 DEF TypeInv, TypeOK
    <3>3. Len(mailbox'[a]) <= Len(mailbox[a])
      BY <3>1, <3>2
    <3>4. Emptied(View(a), View(a)')
      BY <1>c, <1>u, <1>p, <2>1, <2>2, <3>3 DEF View, Emptied, Counts, Flags
    <3> QED
      BY <3>4 DEF ViewNext
  <2>4. CASE b # a
    <3>1. mailbox'[a] = mailbox[a]
      BY <1>0, <1>5, <2>4 DEF ActorSet, TypeInv, TypeOK
    <3> QED
      BY <1>f, <2>1, <2>2, <3>1 DEF ViewNext
  <2> QED
    BY <2>3, <2>4
<1>6. CASE ScheduleActor(g)
  <2>1. PICK b \in Actors : b = target[g]
    BY <1>0, <1>6 DEF ScheduleActor, TypeInv, Located
  <2>2. PICK d \in Cores : d = Priority[b]
    BY ActorAssumption
  <2>3. /\ runq' = [runq EXCEPT ![d] = AddIfNotExist(b, @)]
        /\ sem' = [sem EXCEPT ![d] = @ + 1] /\ UNCHANGED mailbox
        /\ runq \in [Cores -> Seq(Actors)] /\ sem \in [Cores -> Nat]
    BY <1>0, <1>6, <2>1, <2>2 DEF ScheduleActor, PushActor, poolVars, TypeInv, TypeOK
  <2>4. CASE b = a
    <3>1. c = d
      BY <1>c, <2>2, <2>4
    <3>2. a \in Range(runq'[c]) /\ sem'[c] = sem[c] + 1
      <4>1. runq'[c] = AddIfNotExist(a, runq[c]) /\ sem'[c] = sem[c] + 1
        BY <2>3, <2>4, <3>1
      <4>2. runq[c] \in Seq(Actors)
        BY <2>3
      <4>3. a \in Range(AddIfNotExist(a, runq[c]))
        BY <4>2, AddIfNotExistFacts
      <4> QED
        BY <4>1, <4>3
    <3>3. Late(a)' = Late(a) \ {g} /\ g \in Late(a)
      BY <1>0, <1>6, <2>1, <2>4 DEF ScheduleActor, Late, TypeInv, TypeOK
    <3>4. Cardinality(Late(a)') = Cardinality(Late(a)) - 1
      BY <3>3, LateFinite, FS_RemoveElement
    <3>5. Cardinality(Late(a)) > 0
      <4>1. Late(a) # {} /\ Cardinality(Late(a)) \in Nat
        BY <3>3, LateFinite, FS_CardinalityType
      <4>2. Cardinality(Late(a)) # 0
        BY <4>1, LateFinite, FS_EmptySet
      <4> QED
        BY <4>1, <4>2
    <3>6. Scheduled(View(a), View(a)')
      BY <1>c, <1>u, <1>p, <2>3, <3>2, <3>4, <3>5 DEF View, Scheduled, Counts, Flags
    <3> QED
      BY <3>6 DEF ViewNext
  <2>5. CASE b # a
    <3>1. c # d
      BY <1>c, <2>2, <2>5 DEF Alone
    <3>2. runq'[c] = runq[c] /\ sem'[c] = sem[c] /\ mailbox'[a] = mailbox[a]
      BY <2>3, <3>1
    <3>3. Late(a)' = Late(a)
      BY <1>0, <1>6, <2>1, <2>5 DEF ScheduleActor, Late, TypeInv, TypeOK
    <3> QED
      BY <1>f, <3>2, <3>3 DEF ViewNext
  <2> QED
    BY <2>4, <2>5
<1>7. CASE UnsetDrain(g)
  <2>1. PICK b \in Actors : b = target[g]
    BY <1>0, <1>7 DEF UnsetDrain, TypeInv, Located
  <2>2. /\ UNCHANGED <<sem, runq, apc, target>> /\ Unsetters # {}
        /\ mailbox' = [mailbox EXCEPT ![b] = Tail(@)] /\ mailbox[b] # <<>>
        /\ mailbox \in [Actors -> Seq(Msgs)]
    BY <1>0, <1>7, <2>1 DEF UnsetDrain, Pop, schedVars, agentVars, WakeInv,
       Drainers, TypeInv, TypeOK
  <2>3. Late(a)' = Late(a)
    BY <2>2 DEF Late
  <2>4. CASE b = a
    <3>1. PICK n \in Nat : n = Len(mailbox[a])
      BY <2>2
    <3>2. mailbox[a] \in Seq(Msgs) /\ mailbox[a] # <<>> /\ mailbox'[a] = Tail(mailbox[a])
      BY <2>2, <2>4
    <3>3. n > 0 /\ Len(mailbox'[a]) = n - 1
      BY <3>1, <3>2
    <3>4. Len(mailbox'[a]) <= Len(mailbox[a])
      BY <3>1, <3>3
    <3>5. Emptied(View(a), View(a)')
      BY <1>c, <1>u, <1>p, <2>2, <2>3, <3>4 DEF View, Emptied, Counts, Flags
    <3> QED
      BY <3>5 DEF ViewNext
  <2>5. CASE b # a
    <3>1. mailbox'[a] = mailbox[a]
      BY <2>2, <2>5
    <3> QED
      BY <1>f, <2>2, <2>3, <3>1 DEF ViewNext
  <2> QED
    BY <2>4, <2>5
<1>8. CASE UnsetDone(g)
  <2>1. UNCHANGED <<sem, runq, mailbox>>
    BY <1>8 DEF UnsetDone, schedVars, poolVars
  <2>2. Late(a)' = Late(a)
    BY <1>0, <1>8 DEF UnsetDone, Late, TypeInv, TypeOK
  <2> QED
    BY <1>f, <2>1, <2>2 DEF ViewNext
<1> QED
  BY <1>1, <1>2, <1>3, <1>4, <1>5, <1>6, <1>7, <1>8 DEF Call, Continue

LEMMA DispatcherViews ==
    ASSUME WakeInv, NEW a \in Actors, Alone(a), NEW d \in Cores, Dispatcher(d)
    PROVE  ViewNext(View(a), View(a)')
<1>0. TypeInv /\ Homed
  BY DEF WakeInv, AttendInv
<1>c. PICK c \in Cores : c = Priority[a]
  BY ActorAssumption
<1>u. UNCHANGED <<apc, target, stage, dcore>>
  BY DEF Dispatcher, DispatcherBoot, LoopTest, WaitEvent, PopActor, PopMessage,
     HasMessage, Requeue, HandlerReturn, agentVars, deinitVars
<1>l. (Posted(c)' <=> Posted(c)) /\ Late(a)' = Late(a)
  BY <1>u DEF Posted, Late
<1>r. dpc[d] \in {"popMessage", "hasMessage", "requeue"}
         => cur[d] \in Actors /\ Priority[cur[d]] = d
  BY <1>0 DEF TypeInv, Located, Homed
<1>1. CASE d # c
  <2>1. /\ sem'[c] = sem[c] /\ dpc'[c] = dpc[c] /\ runq'[c] = runq[c]
        /\ msg'[c] = msg[c]
    BY <1>0, <1>1 DEF Dispatcher, DispatcherBoot, LoopTest, WaitEvent, PopActor,
       PopMessage, HasMessage, Requeue, HandlerReturn, schedVars, TypeInv, TypeOK
  <2>2. mailbox'[a] = mailbox[a]
    <3>1. CASE PopMessage(d)
      <4>1. cur[d] # a
        BY <1>c, <1>r, <1>1, <3>1 DEF PopMessage
      <4> QED
        BY <1>0, <3>1, <4>1 DEF PopMessage, TypeInv, TypeOK
    <3>2. CASE ~PopMessage(d)
      BY <3>2 DEF Dispatcher, DispatcherBoot, LoopTest, WaitEvent, PopActor,
         HasMessage, Requeue, HandlerReturn, poolVars
    <3> QED
      BY <3>1, <3>2
  <2>3. View(a)' = View(a)
    BY <1>c, <1>l, <2>1, <2>2, ViewFrame
  <2> QED
    BY <2>3 DEF ViewNext
<1>2. CASE d = c
  <2>r. dpc[c] \in {"popMessage", "hasMessage", "requeue"} => cur[c] = a
    BY <1>c, <1>r, <1>2 DEF Alone
  <2>1. CASE DispatcherBoot(d)
    <3>1. /\ dpc[c] = "boot" /\ dpc'[c] = "loop"
          /\ UNCHANGED <<mailbox, sem, runq, msg>>
      BY <1>0, <1>2, <2>1 DEF DispatcherBoot, poolVars, schedVars, TypeInv, TypeOK
    <3>2. Boots(View(a), View(a)')
      BY <1>c, <1>l, <3>1 DEF View, Boots, Counts, Flags
    <3> QED
      BY <3>2 DEF ViewNext
  <2>2. CASE LoopTest(d)
    <3>1. /\ dpc[c] = "loop" /\ dpc'[c] = IF running[c] THEN "wait" ELSE "exited"
          /\ UNCHANGED <<mailbox, sem, runq, msg>>
      BY <1>0, <1>2, <2>2 DEF LoopTest, poolVars, schedVars, TypeInv, TypeOK
    <3>2. Posted(c) => running[c] = FALSE
      BY DEF WakeInv, StoppedForGood, Stopped, Posted
    <3>3. CASE dpc'[c] = "wait"
      <4>1. ~Posted(c)
        BY <3>1, <3>2, <3>3
      <4>2. Loops(View(a), View(a)')
        BY <1>c, <1>l, <3>1, <3>3, <4>1 DEF View, Loops, Counts, Flags
      <4> QED
        BY <4>2 DEF ViewNext
    <3>4. CASE dpc'[c] = "exited"
      <4>1. Exits(View(a), View(a)')
        BY <1>c, <1>l, <3>1, <3>4 DEF View, Exits, Counts, Flags
      <4> QED
        BY <4>1 DEF ViewNext
    <3> QED
      BY <3>1, <3>3, <3>4
  <2>3. CASE WaitEvent(d)
    <3>1. /\ dpc[c] = "wait" /\ dpc'[c] = "popActor" /\ sem[c] > 0
          /\ sem'[c] = sem[c] - 1 /\ UNCHANGED <<mailbox, runq, msg>>
      BY <1>0, <1>2, <2>3 DEF WaitEvent, poolVars, TypeInv, TypeOK
    <3>2. Wakes(View(a), View(a)')
      BY <1>c, <1>l, <3>1 DEF View, Wakes, Counts, Flags
    <3> QED
      BY <3>2 DEF ViewNext
  <2>4. CASE PopActor(d)
    <3>1. dpc[c] = "popActor" /\ UNCHANGED <<mailbox, sem, msg>>
      BY <1>2, <2>4 DEF PopActor, poolVars
    <3>2. CASE runq[c] = <<>>
      <4>1. dpc'[c] = "loop" /\ UNCHANGED runq /\ a \notin Range(runq[c])
        BY <1>0, <1>2, <2>4, <3>2 DEF PopActor, TypeInv, TypeOK, Range
      <4>2. FindsNone(View(a), View(a)')
        BY <1>c, <1>l, <3>1, <4>1 DEF View, FindsNone, Counts, Flags
      <4> QED
        BY <4>2 DEF ViewNext
    <3>3. CASE runq[c] # <<>>
      <4>1. dpc'[c] = "popMessage" /\ runq'[c] = Pop(runq[c]).rest
        BY <1>0, <1>2, <2>4, <3>3 DEF PopActor, TypeInv, TypeOK
      <4>2. runq[c] \in Seq(Actors) /\ IsInjective(runq[c])
        BY <1>0 DEF TypeInv, TypeOK, WakeInv, QueuedOnce
      <4>3. /\ Pop(runq[c]).node \in Actors /\ Pop(runq[c]).node \in Range(runq[c])
            /\ Pop(runq[c]).node \notin Range(Pop(runq[c]).rest)
        BY <3>3, <4>2, PopFacts
      <4>4. Pop(runq[c]).node = a
        BY <1>0, <1>c, <4>3 DEF Homed, Alone
      <4>5. a \in Range(runq[c]) /\ a \notin Range(runq'[c])
        BY <4>1, <4>3, <4>4
      <4>6. Finds(View(a), View(a)')
        BY <1>c, <1>l, <3>1, <4>1, <4>5 DEF View, Finds, Counts, Flags
      <4> QED
        BY <4>6 DEF ViewNext
    <3> QED
      BY <3>2, <3>3
  <2>5. CASE PopMessage(d)
    <3>1. /\ dpc[c] = "popMessage" /\ cur[c] = a /\ UNCHANGED <<sem, runq>>
          /\ mailbox[a] \in Seq(Msgs)
      BY <1>0, <1>2, <2>r, <2>5 DEF PopMessage, schedVars, TypeInv, TypeOK
    <3>2. CASE mailbox[a] = <<>>
      <4>1. dpc'[c] = "handler" /\ msg'[c] = None /\ UNCHANGED mailbox
        BY <1>0, <1>2, <2>5, <3>1, <3>2 DEF PopMessage, TypeInv, TypeOK
      <4>2. Len(mailbox[a]) = 0
        BY <3>2
      <4>3. TakesNone(View(a), View(a)')
        BY <1>c, <1>l, <3>1, <4>1, <4>2 DEF View, TakesNone, Counts, Flags
      <4> QED
        BY <4>3 DEF ViewNext
    <3>3. CASE mailbox[a] # <<>>
      <4>1. /\ dpc'[c] = "hasMessage" /\ msg'[c] = Head(mailbox[a])
            /\ mailbox'[a] = Tail(mailbox[a])
        BY <1>0, <1>2, <2>5, <3>1, <3>3 DEF PopMessage, Pop, TypeInv, TypeOK
      <4>2. Len(mailbox[a]) > 0 /\ Len(mailbox'[a]) = Len(mailbox[a]) - 1
        BY <3>1, <3>3, <4>1
      <4>3. msg'[c] # None
        <5>1. Head(mailbox[a]) \in Msgs
          BY <3>1, <3>3
        <5> QED
          BY <4>1, <5>1, ActorAssumption
      <4>4. Takes(View(a), View(a)')
        BY <1>c, <1>l, <3>1, <4>1, <4>2, <4>3 DEF View, Takes, Counts, Flags
      <4> QED
        BY <4>4 DEF ViewNext
    <3> QED
      BY <3>2, <3>3
  <2>6. CASE HasMessage(d)
    <3>1. /\ dpc[c] = "hasMessage" /\ cur[c] = a /\ UNCHANGED <<sem, runq, msg, mailbox>>
          /\ dpc'[c] = IF mailbox[a] # <<>> THEN "requeue" ELSE "handler"
          /\ mailbox[a] \in Seq(Msgs)
      BY <1>0, <1>2, <2>r, <2>6 DEF HasMessage, HasMail, schedVars, poolVars,
         TypeInv, TypeOK
    <3>2. CASE mailbox[a] = <<>>
      <4>1. Len(mailbox[a]) = 0 /\ dpc'[c] = "handler"
        BY <3>1, <3>2
      <4>2. SeesNone(View(a), View(a)')
        BY <1>c, <1>l, <3>1, <4>1 DEF View, SeesNone, Counts, Flags
      <4> QED
        BY <4>2 DEF ViewNext
    <3>3. CASE mailbox[a] # <<>>
      <4>1. Len(mailbox[a]) > 0 /\ dpc'[c] = "requeue"
        BY <3>1, <3>3
      <4>2. SeesMore(View(a), View(a)')
        BY <1>c, <1>l, <3>1, <4>1 DEF View, SeesMore, Counts, Flags
      <4> QED
        BY <4>2 DEF ViewNext
    <3> QED
      BY <3>2, <3>3
  <2>7. CASE Requeue(d)
    <3>1. /\ dpc[c] = "requeue" /\ cur[c] = a /\ UNCHANGED <<sem, msg, mailbox>>
          /\ dpc'[c] = "handler" /\ runq'[c] = AddIfNotExist(a, runq[c])
      BY <1>0, <1>2, <2>r, <2>7 DEF Requeue, PushActor, poolVars, TypeInv, TypeOK
    <3>2. runq[c] \in Seq(Actors)
      BY <1>0 DEF TypeInv, TypeOK
    <3>3. a \in Range(AddIfNotExist(a, runq[c]))
      BY <3>2, AddIfNotExistFacts
    <3>4. a \in Range(runq'[c])
      BY <3>1, <3>3
    <3>5. Requeues(View(a), View(a)')
      BY <1>c, <1>l, <3>1, <3>4 DEF View, Requeues, Counts, Flags
    <3> QED
      BY <3>5 DEF ViewNext
  <2>8. CASE HandlerReturn(d)
    <3>1. /\ dpc[c] = "handler" /\ dpc'[c] = "loop" /\ msg'[c] = None
          /\ UNCHANGED <<sem, runq, mailbox>>
      BY <1>0, <1>2, <2>8 DEF HandlerReturn, poolVars, schedVars, TypeInv, TypeOK
    <3>2. Returns(View(a), View(a)')
      BY <1>c, <1>l, <3>1 DEF View, Returns, Counts, Flags
    <3> QED
      BY <3>2 DEF ViewNext
  <2> QED
    BY <2>1, <2>2, <2>3, <2>4, <2>5, <2>6, <2>7, <2>8 DEF Dispatcher
<1> QED
  BY <1>1, <1>2

LEMMA DeinitViews ==
    ASSUME WakeInv, ActorDeinit \/ Deinit \/ UNCHANGED vars, NEW a \in Actors
    PROVE  ViewNext(View(a), View(a)')
<1>0. TypeInv /\ dcore \in Cores /\ Cores \subseteq Int
  <2>1. TypeInv /\ dcore \in Cores
    BY DEF WakeInv, AttendInv, TypeInv, TypeOK
  <2>2. Cores \subseteq Int
    BY ActorAssumption DEF Cores
  <2> QED
    BY <2>1, <2>2
<1>c. PICK c \in Cores : c = Priority[a]
  BY ActorAssumption
<1>u. UNCHANGED <<apc, target, mailbox, runq, dpc, msg>>
  BY DEF ActorDeinit, Deinit, DeinitWaitReady, DeinitStop, DeinitPost, DeinitJoin,
     vars, agentVars, poolVars, schedVars, dispVars
<1>l. Late(a)' = Late(a)
  BY <1>u DEF Late
<1>1. CASE DeinitPost /\ dcore = c
  <2>1. sem'[c] = sem[c] + 1 /\ ~Posted(c) /\ Posted(c)'
    BY <1>0, <1>1 DEF DeinitPost, Posted, TypeInv, TypeOK
  <2>2. StopPosted(View(a), View(a)')
    BY <1>c, <1>u, <1>l, <2>1 DEF View, StopPosted, Counts, Flags
  <2> QED
    BY <2>2 DEF ViewNext
<1>2. CASE ~(DeinitPost /\ dcore = c)
  <2>1. sem'[c] = sem[c]
    BY <1>0, <1>2 DEF ActorDeinit, Deinit, DeinitWaitReady, DeinitStop, DeinitPost,
       DeinitJoin, vars, schedVars, TypeInv, TypeOK
  <2>2. Posted(c)' <=> Posted(c)
    BY <1>0, <1>2 DEF ActorDeinit, Deinit, DeinitWaitReady, DeinitStop, DeinitPost,
       DeinitJoin, vars, deinitVars, Posted
  <2>3. View(a)' = View(a)
    BY <1>c, <1>u, <1>l, <2>1, <2>2, ViewFrame
  <2> QED
    BY <2>3 DEF ViewNext
<1> QED
  BY <1>1, <1>2

LEMMA ViewStep ==
    ASSUME WakeInv, [Next]_vars, NEW a \in Actors, Alone(a)
    PROVE  ViewNext(View(a), View(a)')
  BY ClientViews, DispatcherViews, DeinitViews DEF Next

(***************************************************************************)
(* No message is lost.                                                     *)
(***************************************************************************)

\* The machine of an actor alone on its priority has enough events, and where
\* nobody sends NULL and no mailbox is drained, none to spare.
EventsInv ==
    \A a \in Actors : Alone(a) =>
        /\ EnoughEvents(View(a))
        /\ ~NullSends /\ Unsetters = {} => NoSpareEvents(View(a))

LEMMA EventsInit == Init => EventsInv
<1> SUFFICES ASSUME Init, NEW a \in Actors
             PROVE  EnoughEvents(View(a)) /\ NoSpareEvents(View(a))
  BY DEF EventsInv
<1>1. PICK c \in Cores : c = Priority[a]
  BY ActorAssumption
<1>2. /\ Len(mailbox[a]) = 0 /\ sem[c] = 0 /\ dpc[c] = "boot" /\ msg[c] = None
      /\ a \notin Range(runq[c])
  BY DEF Init, Range
<1>3. Late(a) = {}
  BY DEF Init, Late
<1>4. Cardinality(Late(a)) = 0
  BY <1>3, FS_EmptySet
<1>5. ~Posted(c)
  BY ActorAssumption DEF Init, Posted, Cores
<1> QED
  BY <1>1, <1>2, <1>4, <1>5 DEF View, EnoughEvents, NoSpareEvents, Live, Taken

LEMMA EventsStep == WakeInv /\ EventsInv /\ [Next]_vars => EventsInv'
<1> SUFFICES ASSUME WakeInv, EventsInv, [Next]_vars, NEW a \in Actors, Alone(a)
             PROVE  /\ EnoughEvents(View(a)')
                    /\ ~NullSends /\ Unsetters = {} => NoSpareEvents(View(a)')
  BY DEF EventsInv, Alone
<1>1. TypeInv /\ TypeInv'
  BY TypeStep DEF WakeInv, AttendInv
<1>2. PICK v \in Views : v = View(a)
  BY <1>1, ViewType
<1>3. PICK w \in Views : w = View(a)'
  BY <1>1, ViewTypeNext
<1>4. ViewNext(v, w)
  BY <1>2, <1>3, ViewStep
<1>5. EnoughEvents(w)
  BY <1>2, <1>4, EnoughStep DEF EventsInv
<1>6. ~NullSends /\ Unsetters = {} => NoSpareEvents(w)
  BY <1>2, <1>4, NoSpareStep DEF EventsInv
<1> QED
  BY <1>3, <1>5, <1>6

\* An actor that is alone on its priority loses no wake-up, however many threads
\* send to it: its dispatcher never sleeps while it has mail, and where nobody
\* sends NULL and no mailbox is drained its handler is always called with a
\* message (actor_send, dispatch_actor, actor_deinit).
THEOREM NoMessageIsLost == Spec => []NoMessageLost
<1>1. WakeInv /\ EventsInv => NoMessageLost
  <2> SUFFICES ASSUME WakeInv, EventsInv, NEW a \in Actors, Alone(a)
               PROVE  /\ SleepsOn(a) => mailbox[a] = <<>>
                      /\ ~NullSends /\ Unsetters = {} /\ dpc[Priority[a]] = "handler"
                            => msg[Priority[a]] # None
    BY DEF NoMessageLost
  <2>1. ASSUME SleepsOn(a)
        PROVE  mailbox[a] = <<>>
    <3>1. PICK c \in Cores : c = Priority[a]
      BY ActorAssumption
    <3>2. dpc[c] = "wait" /\ sem[c] = 0 /\ mailbox[a] \in Seq(Msgs)
      BY <2>1, <3>1 DEF SleepsOn, WakeInv, AttendInv, TypeInv, TypeOK
    <3>3. Late(a) = {}
      BY <2>1 DEF SleepsOn, Late
    <3>4. Cardinality(Late(a)) = 0
      BY <3>3, FS_EmptySet
    <3>5. EnoughEvents(View(a))
      BY DEF EventsInv
    <3>6. Len(mailbox[a]) <= 0
      BY <3>1, <3>2, <3>4, <3>5 DEF EnoughEvents, View, Taken
    <3> QED
      BY <3>2, <3>6
  <2>2. ASSUME ~NullSends, Unsetters = {}, dpc[Priority[a]] = "handler"
        PROVE  msg[Priority[a]] # None
    <3>1. NoSpareEvents(View(a))
      BY <2>2 DEF EventsInv
    <3> QED
      BY <2>2, <3>1 DEF NoSpareEvents, View
  <2> QED
    BY <2>1, <2>2
<1>2. Init => WakeInv /\ EventsInv
  BY WakeInit, EventsInit
<1>3. WakeInv /\ EventsInv /\ [Next]_vars => (WakeInv /\ EventsInv)'
  BY WakeStep, EventsStep
<1> QED
  BY <1>1, <1>2, <1>3, PTL DEF Spec
=============================================================================
