------------------------------ MODULE AppTimer ------------------------------
(***************************************************************************)
(* The hierarchical timer wheel, modules/apptimer/src/apptimer.c.          *)
(*                                                                         *)
(* A timer's list node is represented by the list it is on; the order of   *)
(* a list is left open, the code promises none.  apptimer_start decides    *)
(* and computes the goal time before it takes wheels_lock, so it is two    *)
(* steps.  apptimer_schedule holds the lock while it cascades the wheels   *)
(* and runs the callbacks, one at a time: a timer is off every list while  *)
(* its callback runs.  The counter and (int) have their widths.            *)
(***************************************************************************)
EXTENDS Integers, FiniteSets, FiniteSetsExt

CONSTANTS
    Timers,
    Repeating,      \* the timers created with repeat = true
    SlotBits,       \* SLOTS_BITS
    NumWheels,      \* APPTIMER_NR_WHEELS
    TimeBits,       \* width of apptimer_timeout_t
    IntBits,        \* width of int
    Timeouts,       \* the timeouts the application asks for
    Elapsed,        \* the arguments apptimer_schedule is called with
    StartRunning,   \* may the application start a timer that is running
    MaxOvertakes    \* bound: apptimer_schedule calls one apptimer_start waits through

NumSlots == 2 ^ SlotBits
WheelsBits == SlotBits * NumWheels
MaxWheelsTimeout == 2 ^ WheelsBits
MaxTimeout == 2 ^ (TimeBits - 1) - 1    \* APPTIMER_MAX_TIMEOUT
Time == 0 .. 2 ^ TimeBits - 1
Wheels == (0 .. NumWheels - 1) \X (0 .. NumSlots - 1)
Off == <<-1, 0>>                        \* llist_empty(&timer->list)
Pending == <<-1, 1>>                    \* m.pending
Idle == -1                              \* no apptimer_start waits for wheels_lock

\* What the module takes the constants to be.
AppTimerAssumption ==
    /\ {SlotBits, NumWheels, TimeBits, IntBits} \subseteq Nat \ {0}
    /\ IntBits <= TimeBits
    /\ Repeating \subseteq Timers
    /\ Timeouts \subseteq Nat
    /\ Elapsed \subseteq 1 .. MaxTimeout    \* apptimer_schedule asserts > 0
    /\ StartRunning \in BOOLEAN
    /\ MaxOvertakes \in Nat

VARIABLES
    time,       \* m.time_counter
    place,      \* the list each timer is on
    goaltime, interval,
    active,     \* m.active_timers
    alarm,      \* the last argument of update_alarm
    starting,   \* per timer: the calls that overtook an apptimer_start, or Idle
    todo,       \* timers run_pending_timers has yet to run
    current,    \* the timers whose callback is running: none or one
    locked,     \* apptimer_schedule holds wheels_lock
    broken,     \* a linked node was linked again: the lists are corrupt
    due,        \* ticks until the timer should expire (observation)
    aligned     \* every insertion since its start was at an aligned time (observation)

timerVars == <<place, goaltime, interval>>
schedVars == <<todo, current, locked>>
vars == <<time, timerVars, active, alarm, starting, schedVars, broken, due, aligned>>

(***************************************************************************)
(* Arithmetic of the code.                                                 *)
(***************************************************************************)

\* A mutated form: the sum does not wrap.
AfterUnbounded(t, d) == t + d

\* A sum of type apptimer_timeout_t
After(t, d) == (t + d) % 2 ^ TimeBits

\* flsl(n) - 1, for n # 0
Msb(n) == Max({k \in 0 .. TimeBits : 2 ^ k <= n})

\* get_wheel_index_from_timeout, from the highest bit set
WheelOfBit(b) == (IF b > WheelsBits - 1 THEN WheelsBits - 1 ELSE b) \div SlotBits

\* get_slot_index_from_timeout
SlotOf(t, wheel) == (t \div 2 ^ (SlotBits * wheel)) % NumSlots

\* A mutated form: expired one tick early.
TimeBeforeEarly(goal, chasing) == (chasing + 1 - goal) % 2 ^ IntBits >= 2 ^ (IntBits - 1)

\* (int)(chasing - goal) < 0
TimeBefore(goal, chasing) == (chasing - goal) % 2 ^ IntBits >= 2 ^ (IntBits - 1)

\* insert_timer_into_wheel: the list a timer with this goal time goes on
ListFor(goal, now) ==
    IF ~TimeBefore(goal, now) THEN Pending
    ELSE LET t == (((goal - now) % 2 ^ TimeBits) + (now % NumSlots)) % 2 ^ TimeBits
             wheel == WheelOfBit(Msb(t))
         IN <<wheel, SlotOf(t, wheel)>>

\* The highest bit of current_time ^ previous_time
DiffBit(prev, cur) ==
    Max({k \in 0 .. TimeBits - 1 : cur \div 2 ^ k # prev \div 2 ^ k})

\* A mutated form: one slot too few.
VisitedOneShort(prev, cur, elapsed) ==
    LET bit == DiffBit(prev, cur)
        farmost == WheelOfBit(bit)
        slot == IF bit >= WheelsBits THEN NumSlots - 1 ELSE SlotOf(cur, farmost)
    IN {w \in Wheels : \/ w[1] < farmost
                       \/ w[1] = farmost /\ w[2] \in slot - elapsed + 2 .. slot}

\* The slots apptimer_schedule empties and inserts again
Visited(prev, cur, elapsed) ==
    LET bit == DiffBit(prev, cur)
        farmost == WheelOfBit(bit)
        slot == IF bit >= WheelsBits THEN NumSlots - 1 ELSE SlotOf(cur, farmost)
    IN {w \in Wheels : \/ w[1] < farmost
                       \/ w[1] = farmost /\ w[2] \in slot - elapsed + 1 .. slot}

\* find_earliest_timer_wheel_timeout
Earliest(count, pl) ==
    LET used == {pl[x][1] : x \in {x \in Timers : pl[x] \in Wheels}}
    IN IF count <= 0 \/ used = {} THEN MaxWheelsTimeout
       ELSE 2 ^ (SlotBits * Min(used))

\* The slot the code computes is relative to the start of the innermost wheel's
\* turn.  It is the slot apptimer_schedule will look at only when the outer
\* wheels up to the one chosen were at the start of their turn as well.
IsAligned(list, now) == list \in Wheels => now % NumSlots ^ (list[1] + 1) < NumSlots

Listed(pl) == {x \in Timers : pl[x] # Off}

Init ==
    /\ time = 0
    /\ place = [x \in Timers |-> Off]
    /\ goaltime = [x \in Timers |-> 0]
    /\ interval = [x \in Timers |-> 0]
    /\ active = 0
    /\ alarm = MaxWheelsTimeout
    /\ starting = [x \in Timers |-> Idle]
    /\ todo = {} /\ current = {} /\ locked = FALSE
    /\ broken = FALSE
    /\ due = [x \in Timers |-> 0]
    /\ aligned = [x \in Timers |-> TRUE]

\* A mutated form: the counter is not updated.
LinkUncounted(x, goal) ==
    /\ active' = active
    /\ broken' = (broken \/ place[x] # Off)
    /\ place' = [place EXCEPT ![x] = ListFor(goal, time)]
    /\ aligned' = [aligned EXCEPT ![x] = IsAligned(ListFor(goal, time), time)]

\* llist_add of a timer: linking a node that is already linked ruins the list.
Link(x, goal) ==
    /\ active' = active + 1
    /\ broken' = (broken \/ place[x] # Off)
    /\ place' = [place EXCEPT ![x] = ListFor(goal, time)]
    /\ aligned' = [aligned EXCEPT ![x] = IsAligned(ListFor(goal, time), time)]

(***************************************************************************)
(* apptimer_start: the checks and the goal time, outside the lock          *)
(***************************************************************************)
StartRead(x, timeout) ==
    /\ ~broken
    /\ starting[x] = Idle
    /\ place[x] = Off               \* else APPTIMER_ALREADY_STARTED
    /\ timeout <= MaxTimeout        \* else APPTIMER_TIME_LIMIT_EXCEEDED
    /\ StartRunning \/ x \notin current
    /\ interval' = [interval EXCEPT ![x] = timeout]
    /\ goaltime' = [goaltime EXCEPT ![x] = After(time, timeout)]
    /\ due' = [due EXCEPT ![x] = timeout]
    /\ starting' = [starting EXCEPT ![x] = 0]
    /\ UNCHANGED <<time, place, active, alarm, schedVars, broken, aligned>>

\* apptimer_start: under wheels_lock
StartInsert(x) ==
    /\ ~broken
    /\ starting[x] # Idle /\ ~locked
    /\ starting' = [starting EXCEPT ![x] = Idle]
    /\ Link(x, goaltime[x])
    /\ alarm' = Earliest(active', place')
    /\ UNCHANGED <<time, goaltime, interval, schedVars, due>>

\* apptimer_stop and apptimer_destroy: remove_timer_from_list
Stop(x) ==
    /\ ~broken
    /\ ~locked
    /\ place[x] # Off
    /\ place' = [place EXCEPT ![x] = Off]
    /\ active' = active - 1
    /\ due' = [due EXCEPT ![x] = 0]
    /\ aligned' = [aligned EXCEPT ![x] = TRUE]
    /\ UNCHANGED <<time, goaltime, interval, alarm, starting, schedVars, broken>>

\* apptimer_schedule: the counter moves, the wheels cascade
Schedule(elapsed) ==
    /\ ~broken
    /\ ~locked
    /\ \A x \in Timers : starting[x] < MaxOvertakes
    /\ locked' = TRUE
    /\ starting' = [x \in Timers |-> IF starting[x] = Idle THEN Idle ELSE starting[x] + 1]
    /\ time' = After(time, elapsed)
    /\ place' = [x \in Timers |->
            IF place[x] \in Visited(time, time', elapsed)
            THEN ListFor(goaltime[x], time') ELSE place[x]]
    /\ aligned' = [x \in Timers |->
            IF place[x] \in Visited(time, time', elapsed)
            THEN aligned[x] /\ IsAligned(place'[x], time') ELSE aligned[x]]
    /\ todo' = {x \in Timers : place'[x] = Pending}
    /\ due' = [x \in Timers |-> IF due[x] > elapsed THEN due[x] - elapsed ELSE 0]
    /\ UNCHANGED <<goaltime, interval, active, alarm, current, broken>>

\* run_pending_timers: a timer leaves the list and its callback begins
RunCallback(x) ==
    /\ ~broken
    /\ locked /\ current = {} /\ x \in todo
    /\ todo' = todo \ {x}
    /\ current' = {x}
    /\ place' = [place EXCEPT ![x] = Off]
    /\ active' = active - 1
    /\ UNCHANGED <<time, goaltime, interval, alarm, starting, locked, broken, due, aligned>>

\* run_pending_timers: the callback returns, a repeating timer goes back
CallbackReturns(x) ==
    /\ ~broken
    /\ current = {x}
    /\ current' = {}
    /\ \/ /\ x \in Repeating
          /\ goaltime' = [goaltime EXCEPT ![x] = After(time, interval[x])]
          /\ due' = [due EXCEPT ![x] = interval[x]]
          /\ Link(x, goaltime'[x])
       \/ /\ x \notin Repeating
          /\ UNCHANGED <<goaltime, due, place, active, broken, aligned>>
    /\ UNCHANGED <<time, interval, alarm, starting, todo, locked>>

\* The end of apptimer_schedule
ScheduleEnd ==
    /\ ~broken
    /\ locked /\ todo = {} /\ current = {}
    /\ alarm' = Earliest(active, place)
    /\ locked' = FALSE
    /\ UNCHANGED <<time, timerVars, active, starting, todo, current, broken, due, aligned>>

Next ==
    \/ \E x \in Timers :
        \/ \E timeout \in Timeouts : StartRead(x, timeout)
        \/ StartInsert(x)
        \/ Stop(x)
        \/ RunCallback(x)
        \/ CallbackReturns(x)
    \/ \E elapsed \in Elapsed : Schedule(elapsed)
    \/ ScheduleEnd

Spec == Init /\ [][Next]_vars

(***************************************************************************)
(* Properties                                                              *)
(***************************************************************************)

\* Every variable has its type; the times stay in apptimer_timeout_t
\* (struct apptimer and the wheels).
TypeOK ==
    /\ time \in Time
    /\ place \in [Timers -> Wheels \cup {Off, Pending}]
    /\ goaltime \in [Timers -> Time]
    /\ interval \in [Timers -> Timeouts \cup {0}]
    /\ active \in Int /\ alarm \in Nat
    /\ starting \in [Timers -> Idle .. MaxOvertakes]
    /\ todo \subseteq Timers /\ current \subseteq Timers
    /\ locked \in BOOLEAN /\ broken \in BOOLEAN
    /\ due \in [Timers -> Nat] /\ aligned \in [Timers -> BOOLEAN]

\* apptimer_count() is the number of timers on the lists, although insertion,
\* cascading, expiry and removal each adjust the counter on their own; and the
\* lists are never corrupted by linking a node twice.
ActiveCountExact == ~broken /\ active = Cardinality(Listed(place))

\* No callback runs before its timeout has elapsed, whatever way the timer
\* took through the wheels and wherever the counter wrapped.
NeverEarly == \A x \in current : due[x] = 0

\* After each apptimer_schedule no expired timer is left on a wheel, provided it
\* was started, and each time cascaded, at an aligned time; a timer that goes
\* straight to the innermost wheel always is.
OnTimeIfAligned ==
    ~locked => \A x \in Timers : place[x] \in Wheels /\ aligned[x] => due[x] > 0

\* A timer expires once its timeout has passed, whenever it was started
\* (apptimer_test.cpp, Timer_ShouldExpire_WhenTimePassedMoreThanGivenTimeout).
OnTime == ~locked => \A x \in Timers : place[x] \in Wheels => due[x] > 0

\* The alarm is not set beyond the earliest expiration (apptimer.h: update_alarm
\* "sets hardware timer counter to get notified at the timeout expiration").
AlarmNotLate ==
    ~locked => \A x \in Timers : place[x] \in Wheels /\ due[x] > 0 => alarm <= due[x]

\* A timer that is running is not started a second time (apptimer_test.cpp,
\* start_ShouldReturnAlreadyStarted_WhenStartAgain).
NoDoubleStart == ~broken
=============================================================================
