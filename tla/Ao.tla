--------------------------------- MODULE Ao ---------------------------------
(***************************************************************************)
(* An active object, modules/ao/src/ao.c, with its timers,                 *)
(* modules/ao/src/ao_timer.c: a bounded ring of events that one task       *)
(* dispatches, and a pool of timers that post events later.  The queue is  *)
(* under ao_lock, the timer pool under ao_timer_lock; the _if_unique calls *)
(* take the second inside the first, ao_timer_step the first inside the    *)
(* second.                                                                 *)
(***************************************************************************)
EXTENDS Integers, Sequences, FiniteSets

CONSTANTS
    Events,        \* events given by the application
    Canceled,      \* the -ECANCELED event ao_stop posts
    Nothing,       \* NULL
    Callers,       \* application threads
    Calls,         \* the API calls those threads make
    MaxLen,        \* AO_EVENT_MAXLEN
    NumTimers,     \* AO_TIMER_MAXLEN
    Mod,           \* 2^16, the range of the uint16_t indices
    Delays,        \* delays and intervals, in units of the scan interval
    OneLock        \* the port's ao_lock and ao_timer_lock are one nestable lock

TimerThread == "timer"
Task == "task"
Threads == Callers \cup {TimerThread, Task}
AllCalls == {"post", "defer", "repeat", "postUnique", "deferUnique",
             "repeatUnique", "cancel", "stop"}

VARIABLES
    events, index, outdex, \* struct ao_event_queue
    aoSem,                 \* ao->event
    timers,                \* timer_pool: event, timeout_ms, interval_ms
    aoOwner, timerOwner,   \* who holds ao_lock and ao_timer_lock
    pc,                    \* where a thread is in an API call
    call, arg,             \* which call, on which event
    slot,                  \* the loop variable of do_step
    tpc, event,            \* the task: where it is, and its local "event"
    sent                   \* events accepted and not yet popped (observation)

queueVars == <<events, index, outdex, aoSem, sent>>
lockVars == <<aoOwner, timerOwner>>
callVars == <<pc, call, arg>>
taskVars == <<tpc, event>>
aoVars == <<queueVars, timers, lockVars, callVars, slot, taskVars>>

Slots == 1 .. NumTimers
NoTimer == [event |-> Nothing, timeout |-> 0, interval |-> 0]

\* Nested locking by the holder is possible only when both are one lock.
MayLockAo(th) ==
    /\ aoOwner \in {Nothing, th}
    /\ OneLock => timerOwner \in {Nothing, th}
\* A mutated form: the lock cannot be nested.
MayLockTimerNoNest(th) == timerOwner = Nothing /\ (OneLock => aoOwner = Nothing)

MayLockTimer(th) ==
    /\ timerOwner \in {Nothing, th}
    /\ OneLock => aoOwner \in {Nothing, th}

(***************************************************************************)
(* The ring.                                                               *)
(***************************************************************************)

\* get_index: the capacity is MaxLen rounded down to a power of two.
Cap == CHOOSE c \in 1 .. MaxLen :
          /\ \E k \in 0 .. MaxLen : c = 2 ^ k
          /\ 2 * c > MaxLen
GetIndex(i) == i % Cap

\* The length is a power of two, as ao.h:20 asks for: the ring then has room
\* for as many events as is_queue_full lets in.
ASSUME AoAssumption ==
    /\ MaxLen \in Nat /\ Mod \in Nat /\ MaxLen \in 1 .. Mod - 1
    /\ Cap = MaxLen /\ Mod % MaxLen = 0
    /\ NumTimers \in Nat \ {0}
    /\ Delays \subseteq Nat \ {0}
    /\ Calls \subseteq AllCalls
    /\ OneLock \in BOOLEAN
    /\ Canceled \notin Events /\ Nothing \notin Events \cup {Canceled}
    /\ {TimerThread, Task, Nothing} \cap Callers = {}
    /\ Nothing \notin {TimerThread, Task}

\* get_queue_len, in uint16_t arithmetic.
QueueLen == (index - outdex) % Mod

\* A mutated form: one event more than there is room for.
IsQueueFullLate == QueueLen > MaxLen

\* is_queue_full
IsQueueFull == QueueLen >= MaxLen

\* is_event_already_queued
IsQueued(e) == \E k \in 0 .. QueueLen - 1 : events[GetIndex(outdex + k)] = e

\* A mutated form of post_event: the task is not woken.
PostSilently(e) ==
    IF IsQueueFull THEN UNCHANGED queueVars
    ELSE /\ events' = [events EXCEPT ![GetIndex(index)] = e]
         /\ index' = (index + 1) % Mod
         /\ sent' = Append(sent, e)
         /\ UNCHANGED <<outdex, aoSem>>

\* A mutated form: the index does not wrap.
PostUnwrapped(e) ==
    IF IsQueueFull THEN UNCHANGED queueVars
    ELSE /\ events' = [events EXCEPT ![GetIndex(index)] = e]
         /\ index' = index + 1
         /\ aoSem' = aoSem + 1
         /\ sent' = Append(sent, e)
         /\ UNCHANGED outdex

\* post_event: push_event, then sem_post; a full queue answers -ENOSPC.
PostEvent(e) ==
    IF IsQueueFull THEN UNCHANGED queueVars
    ELSE /\ events' = [events EXCEPT ![GetIndex(index)] = e]
         /\ index' = (index + 1) % Mod
         /\ aoSem' = aoSem + 1
         /\ sent' = Append(sent, e)
         /\ UNCHANGED outdex

(***************************************************************************)
(* The timer pool.                                                         *)
(***************************************************************************)

\* free_timers_by_event, as a dry run.
IsArmed(e) == \E s \in Slots : timers[s].event = e

\* add_timer takes the first free slot, or answers -ENOSPC.
AddTimer(e, d, i) ==
    LET free == {s \in Slots : timers[s].event = Nothing}
    IN IF free = {} THEN UNCHANGED timers
       ELSE timers' = [timers EXCEPT ![CHOOSE s \in free : \A r \in free : s <= r] =
                          [event |-> e, timeout |-> d, interval |-> i]]

(***************************************************************************)
(* Initial state: ao_create, ao_timer_reset and ao_start.                  *)
(***************************************************************************)
AoInit ==
    /\ events = [k \in 0 .. MaxLen - 1 |-> Nothing]
    /\ index = 0 /\ outdex = 0 /\ aoSem = 0
    /\ timers = [s \in Slots |-> NoTimer]
    /\ aoOwner = Nothing /\ timerOwner = Nothing
    /\ pc = [th \in Callers |-> "idle"]
    /\ call = [th \in Callers |-> "post"]
    /\ arg = [th \in Callers |-> Nothing]
    /\ slot = 0
    /\ tpc = "wait" /\ event = Nothing
    /\ sent = <<>>

(***************************************************************************)
(* The API.  A call under one lock is one step.                            *)
(***************************************************************************)
Starts(th, c) == pc[th] = "idle" /\ c \in Calls

Post(th, e) ==
    /\ Starts(th, "post") /\ MayLockAo(th)
    /\ PostEvent(e)
    /\ UNCHANGED <<timers, lockVars, callVars, slot, taskVars>>

\* ao_post_defer and ao_post_repeat
PostLater(th, c, e, d) ==
    /\ c \in {"defer", "repeat"}
    /\ Starts(th, c) /\ MayLockTimer(th)
    /\ AddTimer(e, d, IF c = "repeat" THEN d ELSE 0)
    /\ UNCHANGED <<queueVars, lockVars, callVars, slot, taskVars>>

\* ao_cancel
CancelEvent(th, e) ==
    /\ Starts(th, "cancel") /\ MayLockTimer(th)
    /\ timers' = [s \in Slots |-> IF timers[s].event = e THEN NoTimer ELSE timers[s]]
    /\ UNCHANGED <<queueVars, lockVars, callVars, slot, taskVars>>

\* A mutated form: the event is not looked up in the queue.
UniqueNoLookup(th, c, e) ==
    /\ c \in {"postUnique", "deferUnique", "repeatUnique"}
    /\ Starts(th, c) /\ MayLockAo(th)
    /\ aoOwner' = th
    /\ pc' = [pc EXCEPT ![th] = "isArmed"]
    /\ call' = [call EXCEPT ![th] = c]
    /\ arg' = [arg EXCEPT ![th] = e]
    /\ UNCHANGED <<queueVars, timers, timerOwner, slot, taskVars>>

\* The _if_unique calls take ao_lock and look in the queue first; a queued
\* event ends the call with -EEXIST.
Unique(th, c, e) ==
    /\ c \in {"postUnique", "deferUnique", "repeatUnique"}
    /\ Starts(th, c) /\ MayLockAo(th)
    /\ IF IsQueued(e)
       THEN UNCHANGED <<aoOwner, callVars>>
       ELSE /\ aoOwner' = th
            /\ pc' = [pc EXCEPT ![th] = "isArmed"]
            /\ call' = [call EXCEPT ![th] = c]
            /\ arg' = [arg EXCEPT ![th] = e]
    /\ UNCHANGED <<queueVars, timers, timerOwner, slot, taskVars>>

\* ao_timer_is_armed, inside ao_lock.
UniqueArmed(th) ==
    /\ pc[th] = "isArmed" /\ MayLockTimer(th)
    /\ IF IsArmed(arg[th])
       THEN pc' = [pc EXCEPT ![th] = "idle"] /\ aoOwner' = Nothing
       ELSE pc' = [pc EXCEPT ![th] = "add"] /\ UNCHANGED aoOwner
    /\ UNCHANGED <<queueVars, timers, timerOwner, call, arg, slot, taskVars>>

\* post_event or ao_timer_add, then ao_unlock.
UniqueAdd(th, d) ==
    /\ pc[th] = "add"
    /\ IF call[th] = "postUnique"
       THEN PostEvent(arg[th]) /\ UNCHANGED timers
       ELSE /\ MayLockTimer(th)
            /\ AddTimer(arg[th], d, IF call[th] = "repeatUnique" THEN d ELSE 0)
            /\ UNCHANGED queueVars
    /\ pc' = [pc EXCEPT ![th] = "idle"]
    /\ aoOwner' = Nothing
    /\ UNCHANGED <<timerOwner, call, arg, slot, taskVars>>

\* ao_stop posts -ECANCELED, whether or not there is room for it, and joins.
\* It is called by the last thread that uses the object.
Stop(th) ==
    /\ Starts(th, "stop") /\ MayLockAo(th)
    /\ \A h \in Callers : pc[h] = "idle"
    /\ PostEvent(Canceled)
    /\ pc' = [h \in Callers |-> IF h = th THEN "join" ELSE "gone"]
    /\ UNCHANGED <<timers, lockVars, call, arg, slot, taskVars>>

StopJoin(th) ==
    /\ pc[th] = "join" /\ tpc = "exited"
    /\ pc' = [pc EXCEPT ![th] = "gone"]
    /\ UNCHANGED <<queueVars, timers, lockVars, call, arg, slot, taskVars>>

(***************************************************************************)
(* The timer thread: ao_timer_step(1).                                     *)
(***************************************************************************)
StepBegin ==
    /\ slot = 0 /\ MayLockTimer(TimerThread)
    /\ timerOwner' = TimerThread
    /\ slot' = 1
    /\ UNCHANGED <<queueVars, timers, aoOwner, callVars, taskVars>>

\* update_timeout
UpdateTimeout(s) == IF 1 >= timers[s].timeout THEN 0 ELSE timers[s].timeout - 1

\* A mutated form: the result of ao_post is ignored.
AfterPostAlways(s) ==
    IF timers[s].interval = 0
    THEN timers' = [timers EXCEPT ![s] = NoTimer]
    ELSE timers' = [timers EXCEPT ![s].timeout = timers[s].interval]

\* What process_timer does with the timer after ao_post: it keeps it, timed
\* out, for the next step when the queue was full.
AfterPost(s) ==
    IF IsQueueFull
    THEN timers' = [timers EXCEPT ![s].timeout = 0]
    ELSE timers' = [timers EXCEPT ![s] =
                       IF @.interval = 0 THEN NoTimer
                       ELSE [@ EXCEPT !.timeout = timers[s].interval]]

\* process_timer on one slot; a timer that times out posts under ao_lock.
StepSlot ==
    /\ slot \in Slots
    /\ IF timers[slot].event = Nothing
       THEN UNCHANGED <<timers, queueVars>>
       ELSE IF UpdateTimeout(slot) > 0
       THEN /\ timers' = [timers EXCEPT ![slot].timeout = UpdateTimeout(slot)]
            /\ UNCHANGED queueVars
       ELSE /\ MayLockAo(TimerThread)
            /\ PostEvent(timers[slot].event)
            /\ AfterPost(slot)
    /\ slot' = slot + 1
    /\ UNCHANGED <<lockVars, callVars, taskVars>>

StepEnd ==
    /\ slot = NumTimers + 1
    /\ timerOwner' = Nothing
    /\ slot' = 0
    /\ UNCHANGED <<queueVars, timers, aoOwner, callVars, taskVars>>

(***************************************************************************)
(* The task.                                                               *)
(***************************************************************************)
TaskWait ==
    /\ tpc = "wait" /\ aoSem > 0
    /\ aoSem' = aoSem - 1
    /\ tpc' = "pop"
    /\ UNCHANGED <<events, index, outdex, sent, timers, lockVars, callVars, slot, event>>

\* pop_event under ao_lock; -ECANCELED ends the task.
TaskPop ==
    /\ tpc = "pop" /\ MayLockAo(Task)
    /\ IF QueueLen = 0
       THEN event' = Nothing /\ UNCHANGED <<outdex, sent>>
       ELSE /\ event' = events[GetIndex(outdex)]
            /\ outdex' = (outdex + 1) % Mod
            /\ sent' = Tail(sent)
    /\ tpc' = IF event' = Canceled THEN "exited" ELSE "dispatch"
    /\ UNCHANGED <<events, index, aoSem, timers, lockVars, callVars, slot>>

\* The application's dispatcher returns.
TaskDispatch ==
    /\ tpc = "dispatch"
    /\ tpc' = "wait" /\ event' = Nothing
    /\ UNCHANGED <<queueVars, timers, lockVars, callVars, slot>>

CallStep(th) == UniqueArmed(th) \/ (\E d \in Delays : UniqueAdd(th, d)) \/ StopJoin(th)
TaskStep == TaskWait \/ TaskPop \/ TaskDispatch
TimerStep == StepBegin \/ StepSlot \/ StepEnd

AoNext ==
    \/ \E th \in Callers :
          \/ CallStep(th) \/ Stop(th)
          \/ \E e \in Events :
                \/ Post(th, e) \/ CancelEvent(th, e)
                \/ \E c \in AllCalls, d \in Delays : PostLater(th, c, e, d)
                \/ \E c \in AllCalls : Unique(th, c, e)
    \/ TaskStep \/ TimerStep

AoSpec == AoInit /\ [][AoNext]_aoVars

\* The task, the timer thread and a thread inside a call keep running; a
\* contended lock goes to each of its waiters eventually.
AoFairSpec ==
    /\ AoSpec
    /\ SF_aoVars(TaskStep) /\ SF_aoVars(TimerStep)
    /\ \A th \in Callers : SF_aoVars(CallStep(th))

(***************************************************************************)
(* Properties.                                                             *)
(***************************************************************************)

\* Every variable has its type (struct ao, struct ao_timer).
AoTypeOK ==
    /\ events \in [0 .. MaxLen - 1 -> Events \cup {Canceled, Nothing}]
    /\ index \in 0 .. Mod - 1 /\ outdex \in 0 .. Mod - 1
    /\ aoSem \in Nat
    /\ \A s \in Slots : /\ timers[s].event \in Events \cup {Nothing}
                        /\ timers[s].timeout \in Nat /\ timers[s].interval \in Nat
    /\ aoOwner \in Threads \cup {Nothing} /\ timerOwner \in Threads \cup {Nothing}
    /\ slot \in 0 .. NumTimers + 1

\* The ring holds exactly the accepted events in order, through index
\* wrap-around and at full load, and there is one wake-up for each of them.
RingHoldsSent ==
    /\ QueueLen = Len(sent)
    /\ \A k \in 1 .. Len(sent) : events[GetIndex(outdex + k - 1)] = sent[k]
    /\ aoSem + (IF tpc = "pop" THEN 1 ELSE 0) = Len(sent)

\* What an _if_unique call found stays true until it inserts: the event is
\* neither queued nor armed, although the timer thread and other callers move
\* events between the two in the meantime.
UniqueWhenAdded ==
    \A th \in Callers : pc[th] = "add" => ~IsQueued(arg[th]) /\ ~IsArmed(arg[th])

\* The ring holds what was accepted and not yet handled, in order and with a
\* wake-up for each, and, where ao_lock and ao_timer_lock are one lock, an event
\* that was to be unique still is when it is added.
AoQueueExact == AoTypeOK /\ RingHoldsSent /\ (OneLock => UniqueWhenAdded)

\* A deferred event is not lost when the queue is full at its time: in a step
\* of the timer thread a timer goes away only if its event went in the queue.
TimedEventNotLost ==
    [][/\ slot \in Slots /\ slot' = slot + 1
       /\ timers[slot].event # Nothing /\ timers'[slot] = NoTimer
       => sent' = Append(sent, timers[slot].event)]_aoVars

\* A call on the object returns: no thread waits forever for a lock.
CallReturns == \A th \in Callers : (pc[th] \in {"isArmed", "add"}) ~> (pc[th] = "idle")

\* ao_stop returns if its event found room in the queue.
StopReturns ==
    \A th \in Callers :
        (pc[th] = "join" /\ \E k \in 1 .. Len(sent) : sent[k] = Canceled)
            ~> (pc[th] = "gone")

\* Calls on the object return, and so does ao_stop once its event is queued.
AoCallsReturn == CallReturns /\ StopReturns
=============================================================================
