------------------------------ MODULE MCTimers ------------------------------
(***************************************************************************)
(* Small instances of the modules that act on the clock: the actors' and   *)
(* the application's timers (ActorTimer, AppTimer), the software watchdogs *)
(* (Wdt), retry and rate limits (Retry, Ratelim) and the buzzer. One       *)
(* module explores them side by side: sel, chosen in the initial state,    *)
(* says which of them runs, so their state spaces add up and do not        *)
(* multiply.  The modules with theorems (TimerProofs) are extended, the    *)
(* two timer modules are instances.                                        *)
(***************************************************************************)
EXTENDS Buzzer, Retry, Wdt, Ratelim, FiniteSets

CONSTANTS once, again

\* Parameters of retry_new: no wait, waits that grow to the maximum and past it,
\* a jitter above it; limited and unlimited.
RetryParams ==
    [min : {0, 1, 3}, max : {0, 2, 5}, jitter : {0, 2, 4}, attempts : {0, 2}]

\* A single tone, and two with a rest between them.
MelodySet == {<<TRUE>>, <<TRUE, FALSE, TRUE>>}

\* One watchdog sooner than the thread's longest sleep, one as late.
WdtPeriods == [w \in {"a", "b"} |-> IF w = "a" THEN 2 ELSE 3]

VARIABLES
    sel,    \* the module whose behaviours this one explores
    at_next, at_timeout, at_handle, at_spc, at_p, at_t, at_now, at_curr, at_prev,
    at_elapsed, at_due, at_lead, at_turns,
    ap_time, ap_place, ap_goaltime, ap_interval, ap_active, ap_alarm,
    ap_starting, ap_todo, ap_current, ap_locked, ap_broken, ap_due, ap_aligned

atVars == <<at_next, at_timeout, at_handle, at_spc, at_p, at_t, at_now,
            at_curr, at_prev, at_elapsed, at_due, at_lead, at_turns>>
\* Three timers by a clock of milliseconds; two by one that is finer.
AT == INSTANCE ActorTimer WITH
    NumTimers <- 3, Delays <- {0, 2}, TicksPerMs <- 1, MaxTime <- 2,
    StopWhen <- {"idle"}, next <- at_next, timeout <- at_timeout,
    handle <- at_handle, spc <- at_spc, p <- at_p, t <- at_t, now <- at_now,
    curr <- at_curr, prev <- at_prev, elapsed <- at_elapsed, due <- at_due,
    lead <- at_lead, turns <- at_turns
AF == INSTANCE ActorTimer WITH
    NumTimers <- 2, Delays <- {0, 1, 2}, TicksPerMs <- 2, MaxTime <- 5,
    StopWhen <- {"idle"}, next <- at_next, timeout <- at_timeout,
    handle <- at_handle, spc <- at_spc, p <- at_p, t <- at_t, now <- at_now,
    curr <- at_curr, prev <- at_prev, elapsed <- at_elapsed, due <- at_due,
    lead <- at_lead, turns <- at_turns

apVars == <<ap_time, ap_place, ap_goaltime, ap_interval, ap_active, ap_alarm,
            ap_starting, ap_todo, ap_current, ap_locked, ap_broken, ap_due,
            ap_aligned>>
AP == INSTANCE AppTimer WITH
    Timers <- {once, again}, Repeating <- {again}, SlotBits <- 1, NumWheels <- 3,
    TimeBits <- 4, IntBits <- 4, Timeouts <- {1, 6}, Elapsed <- {1, 3},
    StartRunning <- FALSE, MaxOvertakes <- 1, time <- ap_time,
    place <- ap_place, goaltime <- ap_goaltime, interval <- ap_interval,
    active <- ap_active, alarm <- ap_alarm, starting <- ap_starting,
    todo <- ap_todo, current <- ap_current, locked <- ap_locked,
    broken <- ap_broken, due <- ap_due, aligned <- ap_aligned

ASSUME TimersAssumption ==
    AT!ActorTimerAssumption /\ AF!ActorTimerAssumption /\ AP!AppTimerAssumption

-----------------------------------------------------------------------------
Parts ==
    {"ActorTimer", "ActorTimerFine", "AppTimer", "Wdt", "Retry", "Ratelim", "Buzzer"}

SuiteInit ==
    /\ sel \in Parts
    /\ IF sel = "ActorTimerFine" THEN AF!Init ELSE AT!Init
    /\ AP!Init /\ WdtInit /\ RetryInit /\ BucketInit /\ BuzzerInit

\* A step of the selected module; every other stays in its initial state.
SuiteNext ==
    /\ UNCHANGED sel
    /\ CASE sel = "ActorTimer" -> AT!Next
         [] sel = "ActorTimerFine" -> AF!Next
         [] OTHER -> UNCHANGED atVars
    /\ IF sel = "AppTimer" THEN AP!Next ELSE UNCHANGED apVars
    /\ IF sel = "Wdt" THEN WdtNext ELSE UNCHANGED wdtVars
    /\ IF sel = "Retry" THEN RetryNext ELSE UNCHANGED retryVars
    /\ IF sel = "Ratelim" THEN BucketNext ELSE UNCHANGED bucketVars
    /\ IF sel = "Buzzer" THEN BuzzerNext ELSE UNCHANGED buzzerVars

suiteVars == <<sel, atVars, apVars, wdtVars, retryVars, bucketVars, buzzerVars>>

SuiteSpec == SuiteInit /\ [][SuiteNext]_suiteVars

-----------------------------------------------------------------------------
\* Every actor timer is in exactly one list, armed or free, no step walks in a
\* circle, and a deferred message is sent once, not before its time and at the
\* latest by the step at which its delay is over but for the fractions of a
\* millisecond that the port's loop drops in each of its turns.
ActorTimersExact ==
    /\ sel = "ActorTimer" =>
           /\ AT!TypeOK /\ AT!TimersAccounted /\ AT!TraversalEnds
           /\ AT!SentOnceAndNotTooEarly /\ AT!NoneOverdue
    /\ sel = "ActorTimerFine" =>
           /\ AF!TypeOK /\ AF!TimersAccounted /\ AF!TraversalEnds
           /\ AF!SentOnceAndNotTooEarly /\ AF!NoneOverdue

\* The count of active timers is that of the wheels; no callback comes early,
\* and none late unless its timer was linked on a boundary the wheels skip.
AppTimersExact == sel = "AppTimer" =>
    /\ AP!TypeOK /\ AP!ActiveCountExact /\ AP!NeverEarly /\ AP!OnTimeIfAligned
=============================================================================
