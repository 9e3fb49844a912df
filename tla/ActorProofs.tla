---------------------------- MODULE ActorProofs ----------------------------
(***************************************************************************)
(* Proofs about Actor, for any number of actors, threads, priorities and   *)
(* messages.                                                               *)
(***************************************************************************)
EXTENDS Actor, TLAPS

(***************************************************************************)
(* The lists.                                                              *)
(***************************************************************************)

\* Adding keeps the list a list, and adds the node exactly when it is new.
LEMMA AddIfNotExistFacts ==
    ASSUME NEW S, NEW s \in Seq(S), NEW x \in S
    PROVE  /\ AddIfNotExist(x, s) \in Seq(S)
           /\ Range(AddIfNotExist(x, s)) = Range(s) \cup {x}
           /\ IsInjective(s) => IsInjective(AddIfNotExist(x, s))
<1>1. CASE x \in Range(s)
  BY <1>1 DEF AddIfNotExist
<1>2. CASE x \notin Range(s)
  <2> DEFINE t == Append(s, x)
  <2>1. AddIfNotExist(x, s) = t
    BY <1>2 DEF AddIfNotExist
  <2>2. /\ t \in Seq(S) /\ Len(t) = Len(s) + 1 /\ DOMAIN t = 1 .. Len(s) + 1
        /\ \A i \in 1 .. Len(s) : t[i] = s[i]
        /\ t[Len(s) + 1] = x /\ DOMAIN s = 1 .. Len(s) /\ Len(s) \in Nat
    OBVIOUS
  <2> HIDE DEF t
  <2>3. Range(t) = Range(s) \cup {x}
    BY <2>2 DEF Range
  <2>4. IsInjective(s) => IsInjective(t)
    BY <1>2, <2>2 DEF IsInjective, Range
  <2> QED
    BY <2>1, <2>2, <2>3, <2>4
<1> QED
  BY <1>1, <1>2

\* Popping takes the first node off the list and keeps the others.
LEMMA PopFacts ==
    ASSUME NEW S, NEW q \in Seq(S), q # <<>>
    PROVE  /\ Pop(q).node \in S /\ Pop(q).rest \in Seq(S)
           /\ Range(q) = Range(Pop(q).rest) \cup {Pop(q).node}
           /\ IsInjective(q) => /\ IsInjective(Pop(q).rest)
                                /\ Pop(q).node \notin Range(Pop(q).rest)
<1> DEFINE r == Tail(q)
<1>1. Pop(q).node = Head(q) /\ Pop(q).rest = r
  BY DEF Pop
<1>2. /\ Head(q) = q[1] /\ r \in Seq(S) /\ Len(q) \in Nat /\ Len(q) > 0
      /\ Len(r) = Len(q) - 1 /\ DOMAIN r = 1 .. Len(q) - 1
      /\ DOMAIN q = 1 .. Len(q) /\ \A i \in 1 .. Len(q) - 1 : r[i] = q[i + 1]
  OBVIOUS
<1> HIDE DEF r
<1>3. Range(q) = Range(r) \cup {q[1]}
  <2>1. ASSUME NEW i \in 1 .. Len(q), i # 1
        PROVE  i - 1 \in 1 .. Len(q) - 1 /\ r[i - 1] = q[i]
    BY <1>2, <2>1
  <2>2. ASSUME NEW i \in 1 .. Len(q)
        PROVE  q[i] \in Range(r) \cup {q[1]}
    <3>1. CASE i = 1
      BY <3>1
    <3>2. CASE i # 1
      <4>1. i - 1 \in DOMAIN r /\ r[i - 1] = q[i]
        BY <1>2, <2>1, <3>2
      <4> QED
        BY <4>1, Zenon DEF Range
    <3> QED
      BY <3>1, <3>2
  <2>3. Range(r) \cup {q[1]} \subseteq Range(q)
    <3>1. 1 \in DOMAIN q
      BY <1>2
    <3>2. \A i \in DOMAIN r : i + 1 \in DOMAIN q /\ r[i] = q[i + 1]
      BY <1>2
    <3> QED
      BY <3>1, <3>2, Zenon DEF Range
  <2>4. Range(q) \subseteq Range(r) \cup {q[1]}
    BY <1>2, <2>2 DEF Range
  <2> QED
    BY <2>3, <2>4
<1>4. ASSUME IsInjective(q)
      PROVE  IsInjective(r) /\ q[1] \notin Range(r)
  <2>1. IsInjective(r)
    <3> SUFFICES ASSUME NEW i \in DOMAIN r, NEW j \in DOMAIN r, r[i] = r[j]
                 PROVE  i = j
      BY DEF IsInjective
    <3>1. /\ i + 1 \in DOMAIN q /\ j + 1 \in DOMAIN q
          /\ q[i + 1] = q[j + 1] /\ i \in Nat /\ j \in Nat
      BY <1>2
    <3>2. i + 1 = j + 1
      BY <1>4, <3>1 DEF IsInjective
    <3> QED
      BY <3>1, <3>2
  <2>2. q[1] \notin Range(r)
    <3> SUFFICES ASSUME NEW i \in DOMAIN r, r[i] = q[1] PROVE FALSE
      BY DEF Range
    <3>1. i + 1 \in DOMAIN q /\ 1 \in DOMAIN q /\ q[i + 1] = q[1] /\ i + 1 # 1
      BY <1>2
    <3> QED
      BY <1>4, <3>1 DEF IsInjective
  <2> QED
    BY <2>1, <2>2
<1>5. Head(q) \in S
  BY <1>2
<1> QED
  BY <1>1, <1>2, <1>3, <1>4, <1>5

(***************************************************************************)
(* Types.                                                                  *)
(***************************************************************************)

\* Calls in progress have an actor, and a dispatcher that popped one has one.
Located ==
    /\ \A g \in Agents : apc[g] # "idle" => target[g] \in Actors
    /\ \A c \in Cores :
          dpc[c] \in {"popMessage", "hasMessage", "requeue"} => cur[c] \in Actors

TypeInv == TypeOK /\ Located

LEMMA TypeInit == Init => TypeInv
<1>1. [i \in 1 .. NumMsgs |-> i] \in Seq(Msgs)
  <2>1. [i \in 1 .. NumMsgs |-> i] \in [1 .. NumMsgs -> Msgs]
    BY DEF Msgs
  <2> QED
    BY <2>1, ActorAssumption
<1> QED
  BY <1>1, ActorAssumption
     DEF Init, TypeInv, TypeOK, Located, APC, DPC, Stages, Cores

LEMMA TypeStep == TypeInv /\ [Next]_vars => TypeInv'
<1> SUFFICES ASSUME TypeInv, [Next]_vars PROVE TypeInv'
  OBVIOUS
<1>1. ASSUME NEW g \in Agents, ActorAlloc(g)
      PROVE  TypeInv'
  BY <1>1, ActorAssumption
     DEF ActorAlloc, TypeInv, TypeOK, Located, poolVars, schedVars, agentVars,
         dispVars, coreVars, deinitVars
<1>2. ASSUME NEW g \in Agents, NEW m \in Msgs, ActorFree(g, m)
      PROVE  TypeInv'
  BY <1>2, ActorAssumption, AddIfNotExistFacts
     DEF ActorFree, TypeInv, TypeOK, Located, poolVars, schedVars, agentVars,
         dispVars, coreVars, deinitVars
<1>3. ASSUME NEW g \in Agents, NEW a \in Actors, NEW m \in Msgs, ActorSendPush(g, a, m)
      PROVE  TypeInv'
  <2>1. AddIfNotExist(m, mailbox[a]) \in Seq(Msgs)
    BY AddIfNotExistFacts DEF TypeInv, TypeOK
  <2>2. mailbox' \in [Actors -> Seq(Msgs)] /\ held' \in [Agents -> SUBSET Msgs]
    BY <1>3, <2>1 DEF ActorSendPush, TypeInv, TypeOK
  <2>3. /\ apc' \in [Agents -> APC] /\ target' \in [Agents -> Actors \cup {None}]
        /\ \A h \in Agents : apc'[h] # "idle" => target'[h] \in Actors
    BY <1>3 DEF ActorSendPush, TypeInv, TypeOK, Located, APC
  <2> QED
    BY <1>3, <2>2, <2>3 DEF ActorSendPush, TypeInv, TypeOK, Located, poolVars,
       schedVars, agentVars, dispVars, coreVars, deinitVars
<1>4. ASSUME NEW g \in Agents, NEW a \in Actors, ActorSendNull(g, a)
      PROVE  TypeInv'
  BY <1>4, ActorAssumption
     DEF ActorSendNull, APC, TypeInv, TypeOK, Located, poolVars, schedVars,
         agentVars, dispVars, coreVars, deinitVars
<1>5. ASSUME NEW g \in Agents, NEW a \in Actors, ActorUnset(g, a)
      PROVE  TypeInv'
  BY <1>5, ActorAssumption
     DEF ActorUnset, APC, TypeInv, TypeOK, Located, poolVars, schedVars,
         agentVars, dispVars, coreVars, deinitVars
<1>6. ASSUME NEW g \in Agents, NEW a \in Actors, ActorSet(g, a)
      PROVE  TypeInv'
  BY <1>6, ActorAssumption
     DEF ActorSet, APC, TypeInv, TypeOK, Located, poolVars, schedVars,
         agentVars, dispVars, coreVars, deinitVars
<1>7. ASSUME NEW g \in Agents, ScheduleActor(g)
      PROVE  TypeInv'
  <2> DEFINE d == Priority[target[g]]
  <2>1. target[g] \in Actors /\ d \in Cores
    BY <1>7, ActorAssumption DEF ScheduleActor, TypeInv, Located
  <2>2. PushActor(target[g], runq[d]) \in Seq(Actors)
    BY <2>1, AddIfNotExistFacts DEF PushActor, TypeInv, TypeOK
  <2>3. /\ runq' = [runq EXCEPT ![d] = PushActor(target[g], @)]
        /\ sem' = [sem EXCEPT ![d] = @ + 1]
    BY <1>7 DEF ScheduleActor
  <2>4. runq' \in [Cores -> Seq(Actors)]
    BY <2>1, <2>2, <2>3 DEF TypeInv, TypeOK
  <2>5. sem' \in [Cores -> Nat]
    BY <2>1, <2>3 DEF TypeInv, TypeOK
  <2>6. /\ apc' \in [Agents -> APC] /\ target' \in [Agents -> Actors \cup {None}]
        /\ \A h \in Agents : apc'[h] # "idle" => target'[h] \in Actors
    BY <1>7 DEF ScheduleActor, TypeInv, TypeOK, Located, APC
  <2> QED
    BY <1>7, <2>4, <2>5, <2>6 DEF ScheduleActor, TypeInv, TypeOK, Located,
       poolVars, schedVars, agentVars, dispVars, coreVars, deinitVars
<1>8. ASSUME NEW g \in Agents, UnsetDrain(g)
      PROVE  TypeInv'
  BY <1>8, ActorAssumption, AddIfNotExistFacts, PopFacts
     DEF UnsetDrain, APC, TypeInv, TypeOK, Located, poolVars, schedVars,
         agentVars, dispVars, coreVars, deinitVars
<1>9. ASSUME NEW g \in Agents, UnsetDone(g)
      PROVE  TypeInv'
  BY <1>9, ActorAssumption
     DEF UnsetDone, APC, TypeInv, TypeOK, Located, poolVars, schedVars,
         agentVars, dispVars, coreVars, deinitVars
<1>10. ASSUME NEW c \in Cores, DispatcherBoot(c)
      PROVE  TypeInv'
  <2>1. running' \in [Cores -> BOOLEAN]
    BY <1>10, Zenon DEF DispatcherBoot, TypeInv, TypeOK
  <2>2. ready' \in [Cores -> Nat]
    BY <1>10 DEF DispatcherBoot, TypeInv, TypeOK
  <2>3. dpc' \in [Cores -> DPC] /\ Located'
    BY <1>10 DEF DispatcherBoot, TypeInv, TypeOK, Located, DPC, agentVars
  <2> QED
    BY <1>10, <2>1, <2>2, <2>3 DEF DispatcherBoot, TypeInv, TypeOK, Located,
       poolVars, schedVars, agentVars, dispVars, coreVars, deinitVars
<1>11. ASSUME NEW c \in Cores, LoopTest(c)
      PROVE  TypeInv'
  BY <1>11, ActorAssumption
     DEF LoopTest, DPC, TypeInv, TypeOK, Located, poolVars, schedVars,
         agentVars, dispVars, coreVars, deinitVars
<1>12. ASSUME NEW c \in Cores, WaitEvent(c)
      PROVE  TypeInv'
  <2>1. sem[c] \in Nat /\ sem[c] > 0
    BY <1>12 DEF WaitEvent, TypeInv, TypeOK
  <2>2. sem[c] - 1 \in Nat
    BY <2>1
  <2>3. sem' \in [Cores -> Nat]
    BY <1>12, <2>2 DEF WaitEvent, TypeInv, TypeOK
  <2>4. dpc' \in [Cores -> DPC] /\ Located'
    BY <1>12 DEF WaitEvent, TypeInv, TypeOK, Located, DPC, agentVars
  <2> QED
    BY <1>12, <2>3, <2>4 DEF WaitEvent, TypeInv, TypeOK, Located,
       poolVars, schedVars, agentVars, dispVars, coreVars, deinitVars
<1>13. ASSUME NEW c \in Cores, PopActor(c)
      PROVE  TypeInv'
  <2>1. CASE runq[c] = <<>>
    BY <1>13, <2>1 DEF PopActor, DPC, TypeInv, TypeOK, Located, poolVars,
       schedVars, agentVars, dispVars, coreVars, deinitVars
  <2>2. CASE runq[c] # <<>>
    <3>1. Pop(runq[c]).node \in Actors /\ Pop(runq[c]).rest \in Seq(Actors)
      BY <2>2, PopFacts DEF TypeInv, TypeOK
    <3>2. runq' \in [Cores -> Seq(Actors)]
      BY <1>13, <2>2, <3>1 DEF PopActor, TypeInv, TypeOK
    <3>3. cur' \in [Cores -> Actors \cup {None}] /\ dpc' \in [Cores -> DPC] /\ Located'
      BY <1>13, <2>2, <3>1 DEF PopActor, DPC, TypeInv, TypeOK, Located,
         agentVars
    <3> QED
      BY <1>13, <2>2, <3>2, <3>3 DEF PopActor, TypeInv, TypeOK, Located,
         poolVars, schedVars, agentVars, dispVars, coreVars, deinitVars
  <2> QED
    BY <2>1, <2>2
<1>14. ASSUME NEW c \in Cores, PopMessage(c)
      PROVE  TypeInv'
  <2> DEFINE q == mailbox[cur[c]]
  <2>1. cur[c] \in Actors /\ q \in Seq(Msgs)
    BY <1>14 DEF PopMessage, TypeInv, TypeOK, Located
  <2>2. CASE q = <<>>
    BY <1>14, <2>1, <2>2 DEF PopMessage, DPC, TypeInv, TypeOK, Located,
       poolVars, schedVars, agentVars, dispVars, coreVars, deinitVars
  <2>3. CASE q # <<>>
    <3>1. Pop(q).node \in Msgs /\ Pop(q).rest \in Seq(Msgs)
      BY <2>1, <2>3, PopFacts
    <3>2. /\ msg' = [msg EXCEPT ![c] = Pop(q).node]
          /\ mailbox' = [mailbox EXCEPT ![cur[c]] = Pop(q).rest]
          /\ held' = [held EXCEPT ![c] = @ \cup {Pop(q).node}]
          /\ dpc' = [dpc EXCEPT ![c] = "hasMessage"]
      BY <1>14, <2>3 DEF PopMessage
    <3> HIDE DEF q
    <3>3. mailbox' \in [Actors -> Seq(Msgs)]
      BY <3>1, <3>2 DEF TypeInv, TypeOK
    <3>4. msg' \in [Cores -> Msgs \cup {None}] /\ held' \in [Agents -> SUBSET Msgs]
      BY <3>1, <3>2 DEF TypeInv, TypeOK
    <3>5. dpc' \in [Cores -> DPC] /\ Located'
      BY <1>14, <3>2, <2>1 DEF PopMessage, DPC, TypeInv, TypeOK, Located,
         agentVars
    <3> QED
      BY <1>14, <3>3, <3>4, <3>5 DEF PopMessage, TypeInv, TypeOK, Located,
         poolVars, schedVars, agentVars, dispVars, coreVars, deinitVars
  <2> QED
    BY <2>2, <2>3
<1>15. ASSUME NEW c \in Cores, HasMessage(c)
      PROVE  TypeInv'
  BY <1>15, ActorAssumption
     DEF HasMessage, DPC, TypeInv, TypeOK, Located, poolVars, schedVars,
         agentVars, dispVars, coreVars, deinitVars
<1>16. ASSUME NEW c \in Cores, Requeue(c)
      PROVE  TypeInv'
  BY <1>16, ActorAssumption, AddIfNotExistFacts
     DEF Requeue, PushActor, DPC, TypeInv, TypeOK, Located, poolVars,
         schedVars, agentVars, dispVars, coreVars, deinitVars
<1>17. ASSUME NEW c \in Cores, HandlerReturn(c)
      PROVE  TypeInv'
  BY <1>17, ActorAssumption
     DEF HandlerReturn, APC, DPC, TypeInv, TypeOK, Located, poolVars,
         schedVars, agentVars, dispVars, coreVars, deinitVars
<1>18. ASSUME ActorDeinit
      PROVE  TypeInv'
  BY <1>18, ActorAssumption
     DEF ActorDeinit, Stages, TypeInv, TypeOK, Located, poolVars, schedVars,
         agentVars, dispVars, coreVars, deinitVars
<1>19. ASSUME DeinitWaitReady
      PROVE  TypeInv'
  <2>1. dcore \in Cores
    BY DEF TypeInv, TypeOK
  <2>2. ready' \in [Cores -> Nat]
    BY <1>19, <2>1 DEF DeinitWaitReady, TypeInv, TypeOK
  <2> QED
    BY <1>19, <2>2 DEF DeinitWaitReady, Stages, TypeInv, TypeOK, Located,
       poolVars, schedVars, agentVars, dispVars, coreVars, deinitVars
<1>20. ASSUME DeinitStop
      PROVE  TypeInv'
  BY <1>20, ActorAssumption
     DEF DeinitStop, Stages, Cores, TypeInv, TypeOK, Located, poolVars,
         schedVars, agentVars, dispVars, coreVars, deinitVars
<1>21. ASSUME DeinitPost
      PROVE  TypeInv'
  <2>1. dcore \in Cores
    BY DEF TypeInv, TypeOK
  <2>2. sem' \in [Cores -> Nat]
    BY <1>21, <2>1 DEF DeinitPost, TypeInv, TypeOK
  <2> QED
    BY <1>21, <2>2 DEF DeinitPost, Stages, TypeInv, TypeOK, Located, poolVars,
       schedVars, agentVars, dispVars, coreVars, deinitVars
<1>22. ASSUME DeinitJoin
      PROVE  TypeInv'
  <2>1. dcore \in Cores
    BY DEF TypeInv, TypeOK
  <2>2. terminated' \in [Cores -> Nat]
    BY <1>22, <2>1 DEF DeinitJoin, TypeInv, TypeOK
  <2>3. dcore' \in Cores /\ stage' \in Stages
    BY <1>22, <2>1, ActorAssumption DEF DeinitJoin, Cores, Stages
  <2> QED
    BY <1>22, <2>2, <2>3 DEF DeinitJoin, TypeInv, TypeOK, Located, poolVars,
       schedVars, agentVars, dispVars, coreVars, deinitVars
<1>23. CASE UNCHANGED vars
  BY <1>23 DEF vars, TypeInv, TypeOK, Located, poolVars, schedVars, agentVars,
     dispVars, coreVars, deinitVars
<1> QED
  BY <1>1, <1>2, <1>3, <1>4, <1>5, <1>6, <1>7, <1>8, <1>9, <1>10, <1>11,
     <1>12, <1>13, <1>14, <1>15, <1>16, <1>17, <1>18, <1>19, <1>20, <1>21,
     <1>22, <1>23
     DEF Next, Call, Continue, Dispatcher, Deinit

\* Every variable keeps its type in every reachable state (struct core,
\* struct actor and struct msgpool of actor.c).
THEOREM TypeCorrect == Spec => []TypeOK
<1>1. TypeInv => TypeOK
  BY DEF TypeInv
<1> QED
  BY <1>1, TypeInit, TypeStep, PTL DEF Spec
(***************************************************************************)
(* No actor with mail is forgotten.                                        *)
(***************************************************************************)

\* An actor is queued on, and popped by, only the core of its priority.
Homed ==
    \A c \in Cores :
        /\ \A a \in Range(runq[c]) : Priority[a] = c
        /\ dpc[c] \in {"popMessage", "hasMessage", "requeue"} => Priority[cur[c]] = c

AttendInv == TypeInv /\ Homed /\ NoActorForgotten

LEMMA AttendInit == Init => AttendInv
<1>1. Init => NoActorForgotten
  BY DEF Init, NoActorForgotten
<1>2. Init => Homed
  BY DEF Init, Homed, Range
<1> QED
  BY <1>1, <1>2, TypeInit DEF AttendInv

LEMMA AttendStep == AttendInv /\ [Next]_vars => AttendInv'
<1> SUFFICES ASSUME AttendInv, [Next]_vars PROVE AttendInv'
  OBVIOUS
<1> TypeInv'
  BY TypeStep DEF AttendInv
<1>1. ASSUME NEW g \in Agents, ActorAlloc(g)
      PROVE  AttendInv'
  BY <1>1 DEF ActorAlloc, AttendInv, NoActorForgotten, Attended, Homed, vars,
     poolVars, schedVars, agentVars, dispVars, coreVars, deinitVars
<1>2. ASSUME NEW g \in Agents, NEW m \in Msgs, ActorFree(g, m)
      PROVE  AttendInv'
  BY <1>2 DEF ActorFree, AttendInv, NoActorForgotten, Attended, Homed, vars,
     poolVars, schedVars, agentVars, dispVars, coreVars, deinitVars
<1>3. ASSUME NEW g \in Agents, NEW a \in Actors, NEW m \in Msgs,
   ActorSendPush(g, a, m)
      PROVE  AttendInv'
  <2>1. Homed'
    BY <1>3 DEF ActorSendPush, AttendInv, NoActorForgotten, Attended, Homed,
       vars, poolVars, schedVars, agentVars, dispVars, coreVars, deinitVars
  <2>2. ASSUME NEW b \in Actors, mailbox'[b] # <<>> PROVE Attended(b)'
    <3>1. CASE m \in Range(mailbox[a])
      BY <1>3, <2>2, <3>1 DEF ActorSendPush, AddIfNotExist, TypeInv, TypeOK,
         AttendInv, NoActorForgotten, Attended, Homed, vars, poolVars,
         schedVars, agentVars, dispVars, coreVars, deinitVars
    <3>2. CASE m \notin Range(mailbox[a])
      <4>1. apc'[g] = "schedule" /\ target'[g] = a
        BY <1>3, <3>2 DEF ActorSendPush, TypeInv, TypeOK, AttendInv
      <4>2. CASE b = a
        BY <4>1, <4>2 DEF Attended
      <4>3. CASE b # a
        <5>1. mailbox[b] # <<>>
          BY <1>3, <2>2, <4>3 DEF ActorSendPush, TypeInv, TypeOK, AttendInv
        <5>2. \A h \in Agents : apc[h] = "schedule" => h # g
          BY <1>3 DEF ActorSendPush, CanCall
        <5>3. Attended(b)
          BY <5>1 DEF AttendInv, NoActorForgotten
        <5>4. /\ UNCHANGED <<runq, cur, dpc>>
              /\ \A h \in Agents \ {g} : apc'[h] = apc[h] /\ target'[h] = target[h]
          BY <1>3, <3>2 DEF ActorSendPush, AttendInv, TypeInv, TypeOK,
             schedVars, dispVars
        <5> QED
          BY <5>2, <5>3, <5>4 DEF Attended
      <4> QED
        BY <4>2, <4>3
    <3> QED
      BY <3>1, <3>2
  <2> QED
    BY <2>1, <2>2, <1>3 DEF AttendInv, NoActorForgotten
<1>4. ASSUME NEW g \in Agents, NEW a \in Actors, ActorSendNull(g, a)
      PROVE  AttendInv'
  <2>1. \A h \in Agents : apc[h] = "schedule" => h # g
    BY <1>4 DEF ActorSendNull, CanCall
  <2> QED
    BY <1>4, <2>1 DEF ActorSendNull, TypeInv, TypeOK, AttendInv,
       NoActorForgotten, Attended, Homed, vars, poolVars, schedVars,
       agentVars, dispVars, coreVars, deinitVars
<1>5. ASSUME NEW g \in Agents, NEW a \in Actors, ActorUnset(g, a)
      PROVE  AttendInv'
  <2>1. \A h \in Agents : apc[h] = "schedule" => h # g
    BY <1>5 DEF ActorUnset, CanCall
  <2> QED
    BY <1>5, <2>1 DEF ActorUnset, TypeInv, TypeOK, AttendInv,
       NoActorForgotten, Attended, Homed, vars, poolVars, schedVars,
       agentVars, dispVars, coreVars, deinitVars
<1>6. ASSUME NEW g \in Agents, NEW a \in Actors, ActorSet(g, a)
      PROVE  AttendInv'
  <2>1. \A b \in Actors : mailbox'[b] # <<>> => mailbox[b] # <<>>
    BY <1>6 DEF ActorSet, TypeInv, TypeOK, AttendInv
  <2> QED
    BY <1>6, <2>1 DEF ActorSet, AttendInv, NoActorForgotten, Attended, Homed,
       vars, poolVars, schedVars, agentVars, dispVars, coreVars, deinitVars
<1>7. ASSUME NEW g \in Agents, ScheduleActor(g)
      PROVE  AttendInv'
  <2> DEFINE d == Priority[target[g]]
  <2>1. target[g] \in Actors /\ d \in Cores /\ runq[d] \in Seq(Actors)
    BY <1>7, ActorAssumption DEF ScheduleActor, AttendInv, TypeInv, TypeOK,
       Located
  <2>2. Range(PushActor(target[g], runq[d])) = Range(runq[d]) \cup {target[g]}
    BY <2>1, AddIfNotExistFacts DEF PushActor
  <2>3. /\ runq'[d] = PushActor(target[g], runq[d])
        /\ \A c \in Cores \ {d} : runq'[c] = runq[c]
    BY <1>7, <2>1 DEF ScheduleActor, AttendInv, TypeInv, TypeOK
  <2>4. \A c \in Cores : Range(runq[c]) \subseteq Range(runq'[c])
    BY <2>2, <2>3
  <2>5. Homed'
    BY <1>7, <2>2, <2>3 DEF ScheduleActor, AttendInv, Homed, dispVars
  <2>6. ASSUME NEW b \in Actors, mailbox'[b] # <<>> PROVE Attended(b)'
    <3>1. Attended(b) /\ Priority[b] \in Cores
      BY <1>7, <2>6, ActorAssumption DEF ScheduleActor, AttendInv,
         NoActorForgotten, poolVars
    <3>2. CASE b = target[g]
      BY <2>2, <2>3, <3>2 DEF Attended
    <3>3. CASE b # target[g]
      <4>1. \A h \in Agents : apc[h] = "schedule" /\ target[h] = b =>
               apc'[h] = "schedule" /\ target'[h] = b
        BY <1>7, <3>3 DEF ScheduleActor, AttendInv, TypeInv, TypeOK
      <4> QED
        BY <1>7, <2>4, <3>1, <4>1 DEF ScheduleActor, Attended, dispVars
    <3> QED
      BY <3>2, <3>3
  <2> QED
    BY <2>5, <2>6 DEF AttendInv, NoActorForgotten
<1>8. ASSUME NEW g \in Agents, UnsetDrain(g)
      PROVE  AttendInv'
  <2>1. \A b \in Actors : mailbox'[b] # <<>> => mailbox[b] # <<>>
    BY <1>8 DEF UnsetDrain, AttendInv, TypeInv, TypeOK
  <2> QED
    BY <1>8, <2>1 DEF UnsetDrain, AttendInv, NoActorForgotten, Attended,
       Homed, vars, poolVars, schedVars, agentVars, dispVars, coreVars,
       deinitVars
<1>9. ASSUME NEW g \in Agents, UnsetDone(g)
      PROVE  AttendInv'
  <2>1. \A h \in Agents : apc[h] = "schedule" => h # g
    BY <1>9 DEF UnsetDone
  <2> QED
    BY <1>9, <2>1 DEF UnsetDone, TypeInv, TypeOK, AttendInv,
       NoActorForgotten, Attended, Homed, vars, poolVars, schedVars,
       agentVars, dispVars, coreVars, deinitVars
<1>10. ASSUME NEW c \in Cores, DispatcherBoot(c)
      PROVE  AttendInv'
  <2>1. /\ UNCHANGED <<mailbox, runq, apc, target>>
        /\ \A d \in Cores \ {c} : dpc'[d] = dpc[d] /\ cur'[d] = cur[d]
        /\ dpc[c] \notin {"popMessage", "hasMessage", "requeue"}
        /\ dpc'[c] \notin {"popMessage", "hasMessage", "requeue"}
    BY <1>10 DEF DispatcherBoot, AttendInv, TypeInv, TypeOK, vars, poolVars,
       schedVars, agentVars, dispVars, coreVars, deinitVars
  <2>2. Homed'
    BY <2>1 DEF AttendInv, Homed
  <2>3. ASSUME NEW b \in Actors, mailbox'[b] # <<>> PROVE Attended(b)'
    BY <2>1, <2>3, ActorAssumption DEF AttendInv, NoActorForgotten, Attended
  <2> QED
    BY <2>2, <2>3 DEF AttendInv, NoActorForgotten
<1>11. ASSUME NEW c \in Cores, LoopTest(c)
      PROVE  AttendInv'
  <2>1. /\ UNCHANGED <<mailbox, runq, apc, target>>
        /\ \A d \in Cores \ {c} : dpc'[d] = dpc[d] /\ cur'[d] = cur[d]
        /\ dpc[c] \notin {"popMessage", "hasMessage", "requeue"}
        /\ dpc'[c] \notin {"popMessage", "hasMessage", "requeue"}
    BY <1>11 DEF LoopTest, AttendInv, TypeInv, TypeOK, vars, poolVars,
       schedVars, agentVars, dispVars, coreVars, deinitVars
  <2>2. Homed'
    BY <2>1 DEF AttendInv, Homed
  <2>3. ASSUME NEW b \in Actors, mailbox'[b] # <<>> PROVE Attended(b)'
    BY <2>1, <2>3, ActorAssumption DEF AttendInv, NoActorForgotten, Attended
  <2> QED
    BY <2>2, <2>3 DEF AttendInv, NoActorForgotten
<1>12. ASSUME NEW c \in Cores, WaitEvent(c)
      PROVE  AttendInv'
  <2>1. /\ UNCHANGED <<mailbox, runq, apc, target>>
        /\ \A d \in Cores \ {c} : dpc'[d] = dpc[d] /\ cur'[d] = cur[d]
        /\ dpc[c] \notin {"popMessage", "hasMessage", "requeue"}
        /\ dpc'[c] \notin {"popMessage", "hasMessage", "requeue"}
    BY <1>12 DEF WaitEvent, AttendInv, TypeInv, TypeOK, vars, poolVars,
       schedVars, agentVars, dispVars, coreVars, deinitVars
  <2>2. Homed'
    BY <2>1 DEF AttendInv, Homed
  <2>3. ASSUME NEW b \in Actors, mailbox'[b] # <<>> PROVE Attended(b)'
    BY <2>1, <2>3, ActorAssumption DEF AttendInv, NoActorForgotten, Attended
  <2> QED
    BY <2>2, <2>3 DEF AttendInv, NoActorForgotten
<1>13. ASSUME NEW c \in Cores, PopActor(c)
      PROVE  AttendInv'
  <2>1. CASE runq[c] = <<>>
    <3>1. /\ UNCHANGED <<mailbox, runq, apc, target, cur>>
          /\ \A d \in Cores \ {c} : dpc'[d] = dpc[d]
          /\ dpc[c] = "popActor" /\ dpc'[c] = "loop"
      BY <1>13, <2>1 DEF PopActor, AttendInv, TypeInv, TypeOK, poolVars,
         agentVars
    <3>2. Homed'
      BY <3>1 DEF AttendInv, Homed
    <3>3. ASSUME NEW b \in Actors, mailbox'[b] # <<>> PROVE Attended(b)'
      <4>1. Attended(b) /\ Priority[b] \in Cores
        BY <3>1, <3>3, ActorAssumption DEF AttendInv, NoActorForgotten
      <4>2. CASE \/ b \in Range(runq[Priority[b]])
                 \/ \E h \in Agents : apc[h] = "schedule" /\ target[h] = b
        BY <3>1, <4>2 DEF Attended
      <4>3. CASE /\ cur[Priority[b]] = b
                 /\ dpc[Priority[b]] \in {"popMessage", "hasMessage",
                    "requeue"}
        <5>1. Priority[b] # c
          BY <3>1, <4>3
        <5> QED
          BY <3>1, <4>1, <4>3, <5>1 DEF Attended
      <4> QED
        BY <4>1, <4>2, <4>3 DEF Attended
    <3> QED
      BY <3>2, <3>3 DEF AttendInv, NoActorForgotten
  <2>2. CASE runq[c] # <<>>
    <3>1. /\ Range(runq[c]) = Range(Pop(runq[c]).rest) \cup {Pop(runq[c]).node}
          /\ Pop(runq[c]).node \in Actors
      <4>1. runq[c] \in Seq(Actors)
        BY DEF AttendInv, TypeInv, TypeOK
      <4> QED
        BY <2>2, <4>1, PopFacts
    <3>2. /\ cur'[c] = Pop(runq[c]).node /\ runq'[c] = Pop(runq[c]).rest
          /\ dpc'[c] = "popMessage"
          /\ \A d \in Cores \ {c} : /\ cur'[d] = cur[d] /\ runq'[d] = runq[d]
                                    /\ dpc'[d] = dpc[d]
      BY <1>13, <2>2 DEF PopActor, AttendInv, TypeInv, TypeOK
    <3>3. Homed'
      BY <3>1, <3>2 DEF AttendInv, Homed
    <3>4. ASSUME NEW b \in Actors, mailbox'[b] # <<>> PROVE Attended(b)'
      <4>1. Attended(b) /\ Priority[b] \in Cores
        BY <1>13, <3>4, ActorAssumption DEF PopActor, AttendInv,
           NoActorForgotten, poolVars
      <4>2. CASE b \in Range(runq[Priority[b]])
        BY <3>1, <3>2, <4>1, <4>2 DEF Attended
      <4>3. CASE \E h \in Agents : apc[h] = "schedule" /\ target[h] = b
        BY <1>13, <4>3 DEF PopActor, Attended, agentVars
      <4>4. CASE /\ cur[Priority[b]] = b
                 /\ dpc[Priority[b]] \in {"popMessage", "hasMessage",
                    "requeue"}
        <5>1. Priority[b] # c
          BY <1>13, <4>4 DEF PopActor
        <5> QED
          BY <3>2, <4>1, <4>4, <5>1 DEF Attended
      <4> QED
        BY <4>1, <4>2, <4>3, <4>4 DEF Attended
    <3> QED
      BY <3>3, <3>4 DEF AttendInv, NoActorForgotten
  <2> QED
    BY <2>1, <2>2
<1>14. ASSUME NEW c \in Cores, PopMessage(c)
      PROVE  AttendInv'
  <2>1. /\ cur[c] \in Actors /\ Priority[cur[c]] = c
        /\ dpc[c] = "popMessage" /\ mailbox[cur[c]] \in Seq(Msgs)
    BY <1>14 DEF PopMessage, AttendInv, TypeInv, TypeOK, Located, Homed
  <2>2. /\ UNCHANGED <<runq, apc, target, cur>>
        /\ \A d \in Cores \ {c} : dpc'[d] = dpc[d]
        /\ dpc'[c] = IF mailbox[cur[c]] = <<>> THEN "handler" ELSE "hasMessage"
        /\ \A b \in Actors \ {cur[c]} : mailbox'[b] = mailbox[b]
        /\ mailbox[cur[c]] = <<>> => mailbox'[cur[c]] = <<>>
    <3>1. /\ UNCHANGED <<runq, apc, target, cur>>
          /\ dpc \in [Cores -> DPC] /\ mailbox \in [Actors -> Seq(Msgs)]
      BY <1>14 DEF PopMessage, AttendInv, TypeInv, TypeOK, schedVars, agentVars
    <3>2. CASE mailbox[cur[c]] = <<>>
      <4>1. dpc' = [dpc EXCEPT ![c] = "handler"] /\ mailbox' = mailbox
        BY <1>14, <3>2 DEF PopMessage
      <4> QED
        BY <3>1, <3>2, <4>1
    <3>3. CASE mailbox[cur[c]] # <<>>
      <4>1. /\ dpc' = [dpc EXCEPT ![c] = "hasMessage"]
            /\ mailbox' = [mailbox EXCEPT ![cur[c]] = Pop(mailbox[cur[c]]).rest]
        BY <1>14, <3>3 DEF PopMessage
      <4> QED
        BY <2>1, <3>1, <3>3, <4>1
    <3> QED
      BY <3>2, <3>3
  <2>3. Homed'
    BY <2>1, <2>2 DEF AttendInv, Homed
  <2>4. ASSUME NEW b \in Actors, mailbox'[b] # <<>> PROVE Attended(b)'
    <3>1. Priority[b] \in Cores
      BY ActorAssumption
    <3>2. CASE b = cur[c]
      BY <2>1, <2>2, <2>4, <3>2 DEF Attended
    <3>3. CASE b # cur[c]
      <4>1. Attended(b)
        BY <2>2, <2>4, <3>3 DEF AttendInv, NoActorForgotten
      <4>2. CASE Priority[b] = c
        BY <2>2, <3>3, <4>1, <4>2 DEF Attended
      <4>3. CASE Priority[b] # c
        BY <2>2, <3>1, <4>1, <4>3 DEF Attended
      <4> QED
        BY <4>2, <4>3
    <3> QED
      BY <3>2, <3>3
  <2> QED
    BY <2>3, <2>4 DEF AttendInv, NoActorForgotten
<1>15. ASSUME NEW c \in Cores, HasMessage(c)
      PROVE  AttendInv'
  <2>1. /\ UNCHANGED <<mailbox, runq, apc, target, cur>>
        /\ \A d \in Cores \ {c} : dpc'[d] = dpc[d]
        /\ dpc[c] = "hasMessage"
        /\ dpc'[c] = IF mailbox[cur[c]] # <<>> THEN "requeue" ELSE "handler"
    BY <1>15 DEF HasMessage, HasMail, AttendInv, TypeInv, TypeOK, poolVars,
       schedVars, agentVars
  <2>2. Homed'
    BY <2>1 DEF AttendInv, Homed
  <2>3. ASSUME NEW b \in Actors, mailbox'[b] # <<>> PROVE Attended(b)'
    <3>1. Attended(b) /\ Priority[b] \in Cores
      BY <2>1, <2>3, ActorAssumption DEF AttendInv, NoActorForgotten
    <3>2. CASE Priority[b] = c
      BY <2>1, <2>3, <3>1, <3>2 DEF Attended
    <3>3. CASE Priority[b] # c
      BY <2>1, <3>1, <3>3 DEF Attended
    <3> QED
      BY <3>2, <3>3
  <2> QED
    BY <2>2, <2>3 DEF AttendInv, NoActorForgotten
<1>16. ASSUME NEW c \in Cores, Requeue(c)
      PROVE  AttendInv'
  <2>1. /\ cur[c] \in Actors /\ Priority[cur[c]] = c /\ runq[c] \in Seq(Actors)
    BY <1>16 DEF Requeue, AttendInv, TypeInv, TypeOK, Located, Homed
  <2>2. Range(PushActor(cur[c], runq[c])) = Range(runq[c]) \cup {cur[c]}
    BY <2>1, AddIfNotExistFacts DEF PushActor
  <2>3. /\ UNCHANGED <<mailbox, apc, target, cur>>
        /\ runq'[c] = PushActor(cur[c], runq[c]) /\ dpc'[c] = "handler"
        /\ \A d \in Cores \ {c} : runq'[d] = runq[d] /\ dpc'[d] = dpc[d]
    BY <1>16 DEF Requeue, AttendInv, TypeInv, TypeOK, poolVars, agentVars
  <2>4. Homed'
    BY <2>1, <2>2, <2>3 DEF AttendInv, Homed
  <2>5. ASSUME NEW b \in Actors, mailbox'[b] # <<>> PROVE Attended(b)'
    <3>1. Attended(b) /\ Priority[b] \in Cores
      BY <2>3, <2>5, ActorAssumption DEF AttendInv, NoActorForgotten
    <3>2. CASE Priority[b] = c
      BY <2>1, <2>2, <2>3, <3>1, <3>2 DEF Attended
    <3>3. CASE Priority[b] # c
      BY <2>3, <3>1, <3>3 DEF Attended
    <3> QED
      BY <3>2, <3>3
  <2> QED
    BY <2>4, <2>5 DEF AttendInv, NoActorForgotten
<1>17. ASSUME NEW c \in Cores, HandlerReturn(c)
      PROVE  AttendInv'
  <2>1. /\ UNCHANGED <<mailbox, runq, apc, target>>
        /\ \A d \in Cores \ {c} : dpc'[d] = dpc[d] /\ cur'[d] = cur[d]
        /\ dpc[c] \notin {"popMessage", "hasMessage", "requeue"}
        /\ dpc'[c] \notin {"popMessage", "hasMessage", "requeue"}
    BY <1>17 DEF HandlerReturn, AttendInv, TypeInv, TypeOK, vars, poolVars,
       schedVars, agentVars, dispVars, coreVars, deinitVars
  <2>2. Homed'
    BY <2>1 DEF AttendInv, Homed
  <2>3. ASSUME NEW b \in Actors, mailbox'[b] # <<>> PROVE Attended(b)'
    BY <2>1, <2>3, ActorAssumption DEF AttendInv, NoActorForgotten, Attended
  <2> QED
    BY <2>2, <2>3 DEF AttendInv, NoActorForgotten
<1>18. ASSUME ActorDeinit
      PROVE  AttendInv'
  BY <1>18 DEF ActorDeinit, AttendInv, NoActorForgotten, Attended, Homed,
     vars, poolVars, schedVars, agentVars, dispVars, coreVars, deinitVars
<1>19. ASSUME DeinitWaitReady
      PROVE  AttendInv'
  BY <1>19 DEF DeinitWaitReady, AttendInv, NoActorForgotten, Attended, Homed,
     vars, poolVars, schedVars, agentVars, dispVars, coreVars, deinitVars
<1>20. ASSUME DeinitStop
      PROVE  AttendInv'
  BY <1>20 DEF DeinitStop, AttendInv, NoActorForgotten, Attended, Homed,
     vars, poolVars, schedVars, agentVars, dispVars, coreVars, deinitVars
<1>21. ASSUME DeinitPost
      PROVE  AttendInv'
  BY <1>21 DEF DeinitPost, AttendInv, NoActorForgotten, Attended, Homed,
     vars, poolVars, schedVars, agentVars, dispVars, coreVars, deinitVars
<1>22. ASSUME DeinitJoin
      PROVE  AttendInv'
  BY <1>22 DEF DeinitJoin, AttendInv, NoActorForgotten, Attended, Homed,
     vars, poolVars, schedVars, agentVars, dispVars, coreVars, deinitVars
<1>23. CASE UNCHANGED vars
  BY <1>23 DEF AttendInv, NoActorForgotten, Attended, Homed, vars, poolVars,
     schedVars, agentVars, dispVars, coreVars, deinitVars
<1> QED
  BY <1>1, <1>2, <1>3, <1>4, <1>5, <1>6, <1>7, <1>8, <1>9, <1>10, <1>11,
     <1>12, <1>13, <1>14, <1>15, <1>16, <1>17, <1>18, <1>19, <1>20, <1>21,
     <1>22, <1>23
     DEF Next, Call, Continue, Dispatcher, Deinit

\* However the unlocked has_message test of dispatch_actor interleaves with
\* senders, an actor whose mailbox is not empty is in its run queue, about to
\* be queued by a sender, or in the hands of its dispatcher.
THEOREM ActorsNotForgotten == Spec => []NoActorForgotten
<1>1. AttendInv => NoActorForgotten
  BY DEF AttendInv
<1> QED
  BY <1>1, AttendInit, AttendStep, PTL DEF Spec

(***************************************************************************)
(* Every message has one owner.                                            *)
(***************************************************************************)

\* actor_unset drains the mailbox before anybody may set the actor again, so
\* the mailbox that actor_set empties is empty.
Drained ==
    \A a \in Actors : mailbox[a] # <<>> =>
        \/ a \in set
        \/ \E g \in Agents : apc[g] = "unset" /\ target[g] = a

OwnInv == TypeInv /\ MessageOwnedOnce /\ Drained

LEMMA OwnInit == Init => OwnInv
<1> SUFFICES ASSUME Init PROVE OwnInv
  OBVIOUS
<1>1. Range(free) = Msgs /\ IsInjective(free)
  BY DEF Init, Range, IsInjective, Msgs
<1>2. \A a \in Actors : Range(mailbox[a]) = {} /\ IsInjective(mailbox[a])
  BY DEF Init, Range, IsInjective
<1>3. \A g \in Agents : held[g] = {}
  BY DEF Init
<1>4. Drained
  BY DEF Init, Drained
<1> QED
  BY <1>1, <1>2, <1>3, <1>4, TypeInit DEF OwnInv, MessageOwnedOnce, OneOwner

\* A step that touches neither the pool, the mailboxes nor what agents own,
\* and leaves the actors that are being unset to their callers.
LEMMA OwnFrame ==
    ASSUME OwnInv, TypeInv', UNCHANGED poolVars,
           \A a \in set : a \in set' \/ \E g \in Agents : apc'[g] = "unset" /\ target'[g] = a,
           \A g \in Agents : apc[g] = "unset" /\ mailbox[target[g]] # <<>> =>
              apc'[g] = "unset" /\ target'[g] = target[g]
    PROVE  OwnInv'
<1>1. MessageOwnedOnce'
  BY DEF OwnInv, MessageOwnedOnce, OneOwner, poolVars
<1>2. Drained'
  BY DEF OwnInv, Drained, poolVars
<1> QED
  BY <1>1, <1>2 DEF OwnInv

\* A step that moves one message, to where it has one owner.
LEMMA OwnMoved ==
    ASSUME NEW m, OwnInv, OneOwner(m)',
           IsInjective(free'), \A a \in Actors : IsInjective(mailbox'[a]),
           \A n \in Msgs \ {m} :
              /\ n \in Range(free') <=> n \in Range(free)
              /\ \A a \in Actors : n \in Range(mailbox'[a]) <=> n \in Range(mailbox[a])
              /\ \A g \in Agents : n \in held'[g] <=> n \in held[g]
    PROVE  MessageOwnedOnce'
<1>1. ASSUME NEW n \in Msgs, n # m PROVE OneOwner(n)'
  <2>1. OneOwner(n)
    BY DEF OwnInv, MessageOwnedOnce
  <2> QED
    BY <1>1, <2>1 DEF OneOwner
<1> QED
  BY <1>1 DEF MessageOwnedOnce

LEMMA OwnStep == OwnInv /\ [Next]_vars => OwnInv'
<1> SUFFICES ASSUME OwnInv, [Next]_vars PROVE OwnInv'
  OBVIOUS
<1>0. TypeInv /\ TypeInv' /\ \A n \in Msgs : OneOwner(n)
  BY TypeStep DEF OwnInv, MessageOwnedOnce
<1>1. ASSUME NEW g \in Agents, ActorAlloc(g)
      PROVE  OwnInv'
  <2>1. /\ free \in Seq(Msgs) /\ free # <<>>
        /\ free' = Pop(free).rest
        /\ UNCHANGED <<mailbox, set, apc, target>>
    BY <1>0, <1>1 DEF ActorAlloc, Pop, TypeInv, TypeOK, agentVars
  <2> PICK m \in Msgs : m = Pop(free).node
    BY <2>1, PopFacts
  <2>2. /\ Range(free) = Range(free') \cup {m}
        /\ IsInjective(free') /\ m \notin Range(free')
    BY <2>1, PopFacts DEF OwnInv, MessageOwnedOnce
  <2>3. \A h \in Agents : held'[h] = IF h = g THEN held[h] \cup {m} ELSE held[h]
    BY <1>0, <1>1 DEF ActorAlloc, Pop, TypeInv, TypeOK
  <2>4. OneOwner(m)'
    <3>1. OneOwner(m) /\ m \in Range(free)
      BY <1>0, <2>2
    <3>2. /\ \A a \in Actors : m \notin Range(mailbox[a])
          /\ \A h \in Agents : m \notin held[h]
      BY <3>1 DEF OneOwner
    <3>3. m \in held'[g] /\ \A h \in Agents \ {g} : m \notin held'[h]
      BY <2>3, <3>2
    <3>4. \A a \in Actors : m \notin Range(mailbox'[a])
      BY <2>1, <3>2
    <3> QED
      BY <2>2, <3>3, <3>4 DEF OneOwner
  <2>5. MessageOwnedOnce'
    BY <2>1, <2>2, <2>3, <2>4, OwnMoved DEF OwnInv, MessageOwnedOnce
  <2> QED
    BY <1>0, <2>1, <2>5 DEF OwnInv, Drained
<1>2. ASSUME NEW g \in Agents, NEW m \in Msgs, ActorFree(g, m)
      PROVE  OwnInv'
  <2>1. /\ free' = AddIfNotExist(m, free) /\ free \in Seq(Msgs) /\ IsInjective(free)
        /\ UNCHANGED <<mailbox, set, apc, target>>
        /\ m \in held[g] \cup Range(free)
    BY <1>0, <1>2 DEF ActorFree, TypeInv, TypeOK, OwnInv, MessageOwnedOnce, agentVars
  <2>2. Range(free') = Range(free) \cup {m} /\ IsInjective(free')
    BY <2>1, AddIfNotExistFacts
  <2>3. \A h \in Agents : held'[h] = IF h = g THEN held[h] \ {m} ELSE held[h]
    BY <1>0, <1>2 DEF ActorFree, TypeInv, TypeOK
  <2>4. OneOwner(m)'
    BY <1>0, <2>1, <2>2, <2>3 DEF OneOwner
  <2>5. MessageOwnedOnce'
    BY <2>1, <2>2, <2>3, <2>4, OwnMoved DEF OwnInv, MessageOwnedOnce
  <2> QED
    BY <1>0, <2>1, <2>5 DEF OwnInv, Drained
<1>3. ASSUME NEW g \in Agents, NEW a \in Actors, NEW m \in Msgs,
             ActorSendPush(g, a, m)
      PROVE  OwnInv'
  <2>1. mailbox[a] \in Seq(Msgs) /\ IsInjective(mailbox[a])
    BY <1>0 DEF TypeInv, TypeOK, OwnInv, MessageOwnedOnce
  <2>2. /\ Range(AddIfNotExist(m, mailbox[a])) = Range(mailbox[a]) \cup {m}
        /\ IsInjective(AddIfNotExist(m, mailbox[a]))
    BY <2>1, AddIfNotExistFacts
  <2>3. /\ mailbox'[a] = AddIfNotExist(m, mailbox[a])
        /\ \A b \in Actors \ {a} : mailbox'[b] = mailbox[b]
        /\ \A h \in Agents : held'[h] = IF h = g THEN held[h] \ {m} ELSE held[h]
        /\ UNCHANGED <<free, set>>
    BY <1>0, <1>3 DEF ActorSendPush, TypeInv, TypeOK
  <2>4. m \in held[g] \cup Range(mailbox[a]) /\ a \in set /\ apc[g] = "idle"
    BY <1>3 DEF ActorSendPush, CanCall
  <2>5. \A h \in Agents : apc[h] = "unset" => apc'[h] = "unset" /\ target'[h] = target[h]
    BY <1>0, <1>3, <2>4 DEF ActorSendPush, TypeInv, TypeOK
  <2>6. /\ m \notin Range(free')
        /\ \A h \in Agents : m \notin held'[h]
        /\ \A b \in Actors : m \in Range(mailbox'[b]) <=> b = a
    BY <1>0, <2>2, <2>3, <2>4 DEF OneOwner
  <2>7. OneOwner(m)'
    BY <2>6 DEF OneOwner
  <2>8. MessageOwnedOnce'
    BY <2>2, <2>3, <2>7, OwnMoved DEF OwnInv, MessageOwnedOnce
  <2>9. Drained'
    BY <2>3, <2>4, <2>5 DEF OwnInv, Drained
  <2> QED
    BY <1>0, <2>8, <2>9 DEF OwnInv
<1>4. ASSUME NEW g \in Agents, NEW a \in Actors, ActorSendNull(g, a)
      PROVE  OwnInv'
  <2>1. \A h \in Agents : apc[h] = "unset" => apc'[h] = "unset" /\ target'[h] = target[h]
    BY <1>0, <1>4 DEF ActorSendNull, CanCall, TypeInv, TypeOK
  <2> QED
    BY <1>0, <1>4, <2>1, OwnFrame DEF ActorSendNull
<1>5. ASSUME NEW g \in Agents, NEW a \in Actors, ActorUnset(g, a)
      PROVE  OwnInv'
  <2>1. \A h \in Agents : apc[h] = "unset" => apc'[h] = "unset" /\ target'[h] = target[h]
    BY <1>0, <1>5 DEF ActorUnset, CanCall, TypeInv, TypeOK
  <2>2. apc'[g] = "unset" /\ target'[g] = a /\ set' = set \ {a}
    BY <1>0, <1>5 DEF ActorUnset, TypeInv, TypeOK
  <2>3. \A b \in set : b \in set' \/ \E h \in Agents : apc'[h] = "unset" /\ target'[h] = b
    BY <2>2
  <2> QED
    BY <1>0, <1>5, <2>1, <2>3, OwnFrame DEF ActorUnset
<1>6. ASSUME NEW g \in Agents, NEW a \in Actors, ActorSet(g, a)
      PROVE  OwnInv'
  <2>1. mailbox[a] = <<>>
    BY <1>6 DEF ActorSet, OwnInv, Drained
  <2>2. UNCHANGED poolVars
    BY <1>0, <1>6, <2>1 DEF ActorSet, TypeInv, TypeOK, poolVars
  <2> QED
    BY <1>0, <1>6, <2>2, OwnFrame DEF ActorSet
<1>7. ASSUME NEW g \in Agents, ScheduleActor(g)
      PROVE  OwnInv'
  <2>1. \A h \in Agents : apc[h] = "unset" => apc'[h] = "unset" /\ target'[h] = target[h]
    BY <1>0, <1>7 DEF ScheduleActor, TypeInv, TypeOK
  <2> QED
    BY <1>0, <1>7, <2>1, OwnFrame DEF ScheduleActor
<1>8. ASSUME NEW g \in Agents, UnsetDrain(g)
      PROVE  OwnInv'
  <2> PICK a \in Actors : a = target[g]
    BY <1>0, <1>8 DEF UnsetDrain, TypeInv, Located
  <2>1. /\ mailbox[a] \in Seq(Msgs) /\ mailbox[a] # <<>>
        /\ free \in Seq(Msgs) /\ IsInjective(free)
    BY <1>0, <1>8 DEF UnsetDrain, TypeInv, TypeOK, OwnInv, MessageOwnedOnce
  <2>m. PICK m \in Msgs : m = Pop(mailbox[a]).node
    BY <2>1, PopFacts
  <2>2. /\ Range(mailbox[a]) = Range(Pop(mailbox[a]).rest) \cup {m}
        /\ IsInjective(Pop(mailbox[a]).rest) /\ m \notin Range(Pop(mailbox[a]).rest)
    BY <2>1, <2>m, PopFacts DEF OwnInv, MessageOwnedOnce
  <2>3. /\ mailbox'[a] = Pop(mailbox[a]).rest
        /\ \A b \in Actors \ {a} : mailbox'[b] = mailbox[b]
        /\ free' = AddIfNotExist(m, free)
        /\ UNCHANGED <<held, set, apc, target>>
    BY <1>0, <1>8, <2>1, <2>m DEF UnsetDrain, TypeInv, TypeOK, agentVars
  <2>4. Range(free') = Range(free) \cup {m} /\ IsInjective(free')
    <3>1. free' = AddIfNotExist(m, free)
      BY <2>3
    <3>2. /\ Range(AddIfNotExist(m, free)) = Range(free) \cup {m}
          /\ IsInjective(AddIfNotExist(m, free))
      <4>1. free \in Seq(Msgs) /\ IsInjective(free)
        BY <2>1
      <4> QED
        BY <4>1, AddIfNotExistFacts
    <3> QED
      BY <3>1, <3>2
  <2>5. OneOwner(m)'
    <3>1. OneOwner(m) /\ m \in Range(mailbox[a])
      BY <1>0, <2>2
    <3>2. /\ \A b \in Actors \ {a} : m \notin Range(mailbox[b])
          /\ \A h \in Agents : m \notin held[h]
      BY <3>1 DEF OneOwner
    <3>3. ASSUME NEW b \in Actors PROVE m \notin Range(mailbox'[b])
      <4>1. CASE b = a
        BY <2>2, <2>3, <4>1
      <4>2. CASE b # a
        BY <2>3, <3>2, <4>2
      <4> QED
        BY <4>1, <4>2
    <3>4. m \in Range(free') /\ \A h \in Agents : m \notin held'[h]
      BY <2>3, <2>4, <3>2
    <3> QED
      BY <3>3, <3>4 DEF OneOwner
  <2>6. MessageOwnedOnce'
    BY <2>1, <2>2, <2>3, <2>4, <2>5, OwnMoved DEF OwnInv, MessageOwnedOnce
  <2>7. Drained'
    BY <1>8, <2>1, <2>3 DEF OwnInv, Drained, UnsetDrain
  <2> QED
    BY <1>0, <2>6, <2>7 DEF OwnInv
<1>9. ASSUME NEW g \in Agents, UnsetDone(g)
      PROVE  OwnInv'
  <2>1. \A h \in Agents : apc[h] = "unset" /\ mailbox[target[h]] # <<>> =>
           apc'[h] = "unset" /\ target'[h] = target[h]
    BY <1>0, <1>9 DEF UnsetDone, TypeInv, TypeOK
  <2> QED
    BY <1>0, <1>9, <2>1, OwnFrame DEF UnsetDone
<1>10. ASSUME NEW c \in Cores, PopMessage(c)
       PROVE  OwnInv'
  <2> PICK a \in Actors : a = cur[c]
    BY <1>0, <1>10 DEF PopMessage, TypeInv, Located
  <2>1. mailbox[a] \in Seq(Msgs) /\ c \in Agents
    BY <1>0 DEF TypeInv, TypeOK, Agents
  <2>2. CASE mailbox[a] = <<>>
    BY <1>0, <1>10, <2>2, OwnFrame DEF PopMessage, poolVars, agentVars
  <2>3. CASE mailbox[a] # <<>>
    <3> PICK m \in Msgs : m = Pop(mailbox[a]).node
      BY <2>1, <2>3, PopFacts
    <3>1. /\ Range(mailbox[a]) = Range(Pop(mailbox[a]).rest) \cup {m}
          /\ IsInjective(Pop(mailbox[a]).rest) /\ m \notin Range(Pop(mailbox[a]).rest)
      BY <2>1, <2>3, PopFacts DEF OwnInv, MessageOwnedOnce
    <3>2. /\ mailbox'[a] = Pop(mailbox[a]).rest
          /\ \A b \in Actors \ {a} : mailbox'[b] = mailbox[b]
          /\ UNCHANGED <<free, set, apc, target>>
      BY <1>0, <1>10, <2>1, <2>3 DEF PopMessage, TypeInv, TypeOK, agentVars
    <3>3. held' = [held EXCEPT ![c] = @ \cup {m}] /\ held \in [Agents -> SUBSET Msgs]
      BY <1>0, <1>10, <2>3 DEF PopMessage, TypeInv, TypeOK
    <3>4. \A h \in Agents : held'[h] = IF h = c THEN held[h] \cup {m} ELSE held[h]
      BY <2>1, <3>3
    <3>5. OneOwner(m)'
      <4>1. /\ m \notin Range(free')
            /\ \A b \in Actors : m \notin Range(mailbox'[b])
            /\ \A h \in Agents : m \in held'[h] <=> h = c
        <5>1. OneOwner(m) /\ m \in Range(mailbox[a])
          BY <1>0, <3>1
        <5>2. /\ m \notin Range(free)
              /\ \A b \in Actors \ {a} : m \notin Range(mailbox[b])
              /\ \A h \in Agents : m \notin held[h]
          BY <5>1 DEF OneOwner
        <5>3. \A b \in Actors : m \notin Range(mailbox'[b])
          BY <3>1, <3>2, <5>2
        <5>4. \A h \in Agents : m \in held'[h] <=> h = c
          BY <3>4, <5>2
        <5> QED
          BY <3>2, <5>2, <5>3, <5>4
      <4> QED
        BY <2>1, <4>1 DEF OneOwner
    <3>6. MessageOwnedOnce'
      <4>1. /\ IsInjective(free')
            /\ \A b \in Actors : IsInjective(mailbox'[b])
        BY <3>1, <3>2 DEF OwnInv, MessageOwnedOnce
      <4>2. ASSUME NEW n \in Msgs \ {m}
            PROVE  /\ n \in Range(free') <=> n \in Range(free)
                   /\ \A b \in Actors : n \in Range(mailbox'[b]) <=> n \in Range(mailbox[b])
                   /\ \A h \in Agents : n \in held'[h] <=> n \in held[h]
        BY <3>1, <3>2, <3>4
      <4> QED
        BY <3>5, <4>1, <4>2, OwnMoved
    <3>7. Drained'
      BY <2>1, <2>3, <3>2 DEF OwnInv, Drained
    <3> QED
      BY <1>0, <3>6, <3>7 DEF OwnInv
  <2> QED
    BY <2>2, <2>3
<1>11. ASSUME NEW c \in Cores,
              \/ DispatcherBoot(c) \/ LoopTest(c) \/ WaitEvent(c) \/ PopActor(c)
              \/ HasMessage(c) \/ Requeue(c) \/ HandlerReturn(c)
       PROVE  OwnInv'
  <2>1. UNCHANGED <<poolVars, agentVars>>
    BY <1>11 DEF DispatcherBoot, LoopTest, WaitEvent, PopActor, HasMessage,
       Requeue, HandlerReturn
  <2> QED
    BY <1>0, <2>1, OwnFrame DEF agentVars
<1>12. CASE ActorDeinit \/ Deinit \/ UNCHANGED vars
  <2>1. UNCHANGED <<poolVars, agentVars>>
    BY <1>12 DEF ActorDeinit, Deinit, DeinitWaitReady, DeinitStop, DeinitPost,
       DeinitJoin, vars
  <2> QED
    BY <1>0, <2>1, OwnFrame DEF agentVars
<1> QED
  BY <1>1, <1>2, <1>3, <1>4, <1>5, <1>6, <1>7, <1>8, <1>9, <1>10, <1>11, <1>12
     DEF Next, Call, Continue, Dispatcher

\* No block of the message pool is ever lost, duplicated or shared, whatever
\* the interleaving of allocations, sends, deliveries, frees (a second free of
\* a free block included) and actor_unset: it is free, in one mailbox, or in
\* the hands of one thread.
THEOREM MessagesOwnedOnce == Spec => []MessageOwnedOnce
<1>1. OwnInv => MessageOwnedOnce
  BY DEF OwnInv
<1> QED
  BY <1>1, OwnInit, OwnStep, PTL DEF Spec

(***************************************************************************)
(* The runtime implements MessagePassing.                                  *)
(***************************************************************************)

LEMMA RefinementInit == Init => MP!Init
<1> SUFFICES ASSUME Init PROVE MP!Init
  OBVIOUS
<1>1. Range(free) = Msgs
  BY DEF Init, Range, Msgs
<1> QED
  BY <1>1 DEF Init, MP!Init

\* A step of the runtime moves one message as MessagePassing may, or none.
LEMMA RefinementStep == AttendInv /\ OwnInv /\ [Next]_vars => [MP!Next]_(MP!vars)
<1> SUFFICES ASSUME AttendInv, OwnInv, [Next]_vars PROVE [MP!Next]_(MP!vars)
  OBVIOUS
<1>0. TypeInv /\ \A n \in Msgs : OneOwner(n)
  BY DEF OwnInv, MessageOwnedOnce
<1>1. ASSUME NEW g \in Agents, ActorAlloc(g)
      PROVE  \E m \in Msgs : MP!Take(g, m)
  <2>1. free \in Seq(Msgs) /\ free # <<>> /\ free' = Pop(free).rest
    BY <1>0, <1>1 DEF ActorAlloc, Pop, TypeInv, TypeOK
  <2>2. PICK m \in Msgs : m = Pop(free).node
    BY <2>1, PopFacts
  <2>3. Range(free) = Range(free') \cup {m} /\ m \notin Range(free')
    BY <2>1, <2>2, PopFacts DEF OwnInv, MessageOwnedOnce
  <2>4. held' = [held EXCEPT ![g] = @ \cup {m}] /\ UNCHANGED mailbox
    BY <1>1, <2>2 DEF ActorAlloc, Pop
  <2> QED
    BY <2>3, <2>4 DEF MP!Take
<1>2. ASSUME NEW g \in Agents, NEW m \in Msgs, ActorFree(g, m)
      PROVE  MP!Return(g, m) \/ UNCHANGED MP!vars
  <2>1. /\ free' = AddIfNotExist(m, free) /\ free \in Seq(Msgs)
        /\ held' = [held EXCEPT ![g] = @ \ {m}] /\ held \in [Agents -> SUBSET Msgs]
        /\ m \in held[g] \cup Range(free) /\ UNCHANGED mailbox
    BY <1>0, <1>2 DEF ActorFree, TypeInv, TypeOK
  <2>2. Range(free') = Range(free) \cup {m}
    BY <2>1, AddIfNotExistFacts
  <2>3. CASE m \in held[g]
    BY <2>1, <2>2, <2>3 DEF MP!Return
  <2>4. CASE m \in Range(free)
    <3>1. m \notin held[g]
      BY <1>0, <2>4 DEF OneOwner
    <3> QED
      BY <2>1, <2>2, <2>4, <3>1 DEF MP!vars
  <2> QED
    BY <2>1, <2>3, <2>4
<1>3. ASSUME NEW g \in Agents, NEW a \in Actors, NEW m \in Msgs,
             ActorSendPush(g, a, m)
      PROVE  MP!Send(g, a, m) \/ UNCHANGED MP!vars
  <2>1. /\ mailbox' = [mailbox EXCEPT ![a] = AddIfNotExist(m, @)]
        /\ mailbox \in [Actors -> Seq(Msgs)] /\ held \in [Agents -> SUBSET Msgs]
        /\ held' = [held EXCEPT ![g] = @ \ {m}]
        /\ m \in held[g] \cup Range(mailbox[a]) /\ UNCHANGED free
    BY <1>0, <1>3 DEF ActorSendPush, TypeInv, TypeOK
  <2>2. CASE m \in held[g]
    <3>1. m \notin Range(mailbox[a])
      BY <1>0, <2>2 DEF OneOwner
    <3>2. AddIfNotExist(m, mailbox[a]) = Append(mailbox[a], m)
      BY <3>1 DEF AddIfNotExist
    <3>3. mailbox' = [mailbox EXCEPT ![a] = Append(mailbox[a], m)]
      BY <2>1, <3>2
    <3> QED
      BY <2>1, <2>2, <3>3 DEF MP!Send
  <2>3. CASE m \in Range(mailbox[a])
    <3>1. m \notin held[g]
      BY <1>0, <2>3 DEF OneOwner
    <3>2. AddIfNotExist(m, mailbox[a]) = mailbox[a]
      BY <2>3 DEF AddIfNotExist
    <3>3. UNCHANGED <<mailbox, held>>
      BY <2>1, <3>1, <3>2
    <3> QED
      BY <2>1, <3>3 DEF MP!vars
  <2> QED
    BY <2>1, <2>2, <2>3
<1>4. ASSUME NEW g \in Agents, UnsetDrain(g)
      PROVE  \E a \in Actors : MP!Discard(a)
  <2>1. PICK a \in Actors : a = target[g]
    BY <1>0, <1>4 DEF UnsetDrain, TypeInv, Located
  <2>2. /\ mailbox[a] \in Seq(Msgs) /\ mailbox[a] # <<>> /\ free \in Seq(Msgs)
        /\ free' = AddIfNotExist(Head(mailbox[a]), free)
        /\ mailbox' = [mailbox EXCEPT ![a] = Tail(@)] /\ UNCHANGED held
    BY <1>0, <1>4, <2>1 DEF UnsetDrain, TypeInv, TypeOK, Pop
  <2>3. Head(mailbox[a]) \in Msgs
    BY <2>2
  <2>4. Range(free') = Range(free) \cup {Head(mailbox[a])}
    <3>1. PICK m \in Msgs : m = Head(mailbox[a])
      BY <2>3
    <3>2. free' = AddIfNotExist(m, free)
      BY <2>2, <3>1
    <3>3. free \in Seq(Msgs)
      BY <2>2
    <3>4. Range(free') = Range(free) \cup {m}
      BY <3>2, <3>3, AddIfNotExistFacts
    <3> QED
      BY <3>1, <3>4
  <2> QED
    BY <2>2, <2>4 DEF MP!Discard
<1>5. ASSUME NEW c \in Cores, PopMessage(c)
      PROVE  (\E a \in Actors : MP!Receive(a)) \/ UNCHANGED MP!vars
  <2>1. PICK a \in Actors : a = cur[c] /\ Priority[a] = c
    BY <1>0, <1>5 DEF PopMessage, TypeInv, Located, AttendInv, Homed
  <2>2. CASE mailbox[a] = <<>>
    BY <1>5, <2>1, <2>2 DEF PopMessage, MP!vars
  <2>3. CASE mailbox[a] # <<>>
    <3>1. /\ mailbox' = [mailbox EXCEPT ![a] = Tail(@)]
          /\ held' = [held EXCEPT ![Priority[a]] = @ \cup {Head(mailbox[a])}]
          /\ UNCHANGED free
      BY <1>5, <2>1, <2>3 DEF PopMessage, Pop
    <3> QED
      BY <2>3, <3>1 DEF MP!Receive
  <2> QED
    BY <2>2, <2>3
<1>6. ASSUME NEW g \in Agents, NEW a \in Actors, ActorSet(g, a)
      PROVE  UNCHANGED MP!vars
  <2>1. mailbox[a] = <<>>
    BY <1>6 DEF ActorSet, OwnInv, Drained
  <2> QED
    BY <1>0, <1>6, <2>1 DEF ActorSet, TypeInv, TypeOK, MP!vars
<1>7. ASSUME NEW g \in Agents,
             \/ \E a \in Actors : ActorSendNull(g, a) \/ ActorUnset(g, a)
             \/ ScheduleActor(g) \/ UnsetDone(g)
      PROVE  UNCHANGED MP!vars
  BY <1>7 DEF ActorSendNull, ActorUnset, ScheduleActor, UnsetDone, poolVars, MP!vars
<1>8. ASSUME NEW c \in Cores,
             \/ DispatcherBoot(c) \/ LoopTest(c) \/ WaitEvent(c) \/ PopActor(c)
             \/ HasMessage(c) \/ Requeue(c) \/ HandlerReturn(c)
      PROVE  UNCHANGED MP!vars
  BY <1>8 DEF DispatcherBoot, LoopTest, WaitEvent, PopActor, HasMessage,
     Requeue, HandlerReturn, poolVars, MP!vars
<1>9. CASE ActorDeinit \/ Deinit \/ UNCHANGED vars
  BY <1>9 DEF ActorDeinit, Deinit, DeinitWaitReady, DeinitStop, DeinitPost,
     DeinitJoin, vars, poolVars, MP!vars
<1> QED
  BY <1>1, <1>2, <1>3, <1>4, <1>5, <1>6, <1>7, <1>8, <1>9
     DEF Next, Call, Continue, Dispatcher, MP!Next

\* The runtime is a MessagePassing system: scheduling, rescheduling, unset and
\* shutdown never reorder a mailbox, and move a message only from the pool to a
\* caller, to the end of a mailbox, and from its head to the dispatcher of the
\* actor's priority.
THEOREM RuntimeImplements == Spec => ImplementsMessagePassing
<1>1. AttendInv /\ OwnInv /\ [Next]_vars => (AttendInv /\ OwnInv)'
  BY AttendStep, OwnStep
<1> QED
  BY <1>1, AttendInit, OwnInit, RefinementInit, RefinementStep, PTL
     DEF Spec, ImplementsMessagePassing, MP!Spec
=============================================================================
