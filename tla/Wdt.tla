-------------------------------- MODULE Wdt ---------------------------------
(***************************************************************************)
(* ports/esp-idf/wdt.c: software watchdogs in a list, watched by a thread  *)
(* that sleeps until the earliest deadline.  The thread reads the clock    *)
(* before it takes the mutex, and feeding takes no mutex at all; the       *)
(* thread may be delayed by up to MaxLag ticks between its steps.  Times   *)
(* are differences modulo 2^Width, as in uint32_t.                         *)
(***************************************************************************)
EXTENDS Integers, Sequences, FiniteSetsExt, SequencesExt

CONSTANTS
    Wdts, Period,     \* watchdogs and their periods
    BaseMin,          \* min_period_ms of lm_wdt_init
    WdtWidth, MaxLag

\* No wait the thread can cause is as long as the clock takes to wrap around.
ASSUME WdtAssumption ==
    /\ 2^WdtWidth \in Nat \ {0} /\ MaxLag \in Nat /\ BaseMin \in Nat
    /\ Period \in [Wdts -> Nat]
    /\ \A w \in Wdts : /\ Period[w] + 2 * MaxLag < 2^WdtWidth
                       /\ BaseMin + 2 * MaxLag < 2^WdtWidth

VARIABLES
    ms,               \* board_get_time_since_boot_ms
    wdt,              \* wdt[w] = [enabled, last]
    list,             \* m.list, newest first
    minPeriod,        \* m.min_period_ms
    task,             \* the thread: [pc, now, sleep, lag, victim]
    age,              \* ghost: ticks since w was enabled or fed
    alarms,           \* ghost: the watchdogs whose timeout was reported
    falseAlarm,       \* ghost: one of them was reported within its period
    dangling          \* ghost: one of them had been freed when it was reported

wdtVars == <<ms, wdt, list, minPeriod, task, age, alarms, falseAlarm, dangling>>

WdtInit ==
    /\ ms = 0
    /\ wdt = [w \in Wdts |-> [enabled |-> FALSE, last |-> 0]]
    /\ list = <<>>
    /\ minPeriod = BaseMin
    /\ task = [pc |-> "sleep", now |-> 0, sleep |-> 0, lag |-> 0, victim |-> {}]
    /\ age = [w \in Wdts |-> 0]
    /\ alarms = {}
    /\ falseAlarm = FALSE
    /\ dangling = FALSE

TimeUntilDeadline(w, now) ==
    LET elapsed == (now - wdt[w].last) % 2^WdtWidth
    IN  IF elapsed > Period[w] THEN 0 ELSE Period[w] - elapsed

IsTimedout(w, now) == wdt[w].enabled /\ TimeUntilDeadline(w, now) = 0

WdtTick ==
    /\ alarms = {}
    /\ IF task.pc = "sleep" /\ task.sleep > 0
         THEN task' = [task EXCEPT !.sleep = @ - 1]
         ELSE task.lag < MaxLag /\ task' = [task EXCEPT !.lag = @ + 1]
    /\ ms' = (ms + 1) % 2^WdtWidth
    /\ age' = [w \in Wdts |-> IF wdt[w].enabled THEN age[w] + 1 ELSE 0]
    /\ UNCHANGED <<wdt, list, minPeriod, alarms, falseAlarm, dangling>>

-----------------------------------------------------------------------------
WdtNew(w) ==
    /\ w \notin Range(list)
    /\ task.victim # {w}
    /\ list' = <<w>> \o list
    /\ wdt' = [wdt EXCEPT ![w] = [enabled |-> FALSE, last |-> 0]]
    /\ minPeriod' = Min({minPeriod, Period[w]})
    /\ UNCHANGED <<ms, task, age, alarms, falseAlarm, dangling>>

Enable(w) ==
    /\ w \in Range(list)
    /\ wdt' = [wdt EXCEPT ![w] = [enabled |-> TRUE, last |-> ms]]
    /\ age' = [age EXCEPT ![w] = 0]
    /\ UNCHANGED <<ms, list, minPeriod, task, alarms, falseAlarm, dangling>>

Disable(w) ==
    /\ w \in Range(list)
    /\ wdt' = [wdt EXCEPT ![w].enabled = FALSE]
    /\ UNCHANGED <<ms, list, minPeriod, task, age, alarms, falseAlarm, dangling>>

\* A watchdog that has timed out can no longer be fed.
Feed(w) ==
    /\ w \in Range(list) /\ ~IsTimedout(w, ms)
    /\ wdt' = [wdt EXCEPT ![w].last = ms]
    /\ age' = [age EXCEPT ![w] = 0]
    /\ UNCHANGED <<ms, list, minPeriod, task, alarms, falseAlarm, dangling>>

Delete(w) ==
    /\ \E i \in DOMAIN list : list[i] = w /\ list' = RemoveAt(list, i)
    /\ wdt' = [wdt EXCEPT ![w].enabled = FALSE]
    /\ UNCHANGED <<ms, minPeriod, task, age, alarms, falseAlarm, dangling>>

-----------------------------------------------------------------------------
\* process_timeouts up to the call of any_timeouts: its argument is the time.
Wake ==
    /\ task.pc = "sleep" /\ task.sleep = 0
    /\ task' = [task EXCEPT !.pc = "scan", !.now = ms]
    /\ UNCHANGED <<ms, wdt, list, minPeriod, age, alarms, falseAlarm, dangling>>

\* A bug the runs must notice: sleeping for the period, not until the deadline.
NextDeadlinePeriod(seen) == minPeriod

\* What any_timeouts makes of next_deadline_ms over the watchdogs it looked at.
NextDeadline(seen) ==
    Min({minPeriod} \cup {TimeUntilDeadline(w, task.now) : w \in {v \in Range(seen) : wdt[v].enabled}})

\* any_timeouts under the mutex: the first that timed out, or the next deadline.
Scan ==
    LET out == {i \in DOMAIN list : IsTimedout(list[i], task.now)}
        seen == IF out = {} THEN list ELSE SubSeq(list, 1, Min(out) - 1)
    IN  /\ task.pc = "scan"
        /\ task' = IF out = {}
              THEN [task EXCEPT !.pc = "sleep", !.sleep = NextDeadline(seen), !.lag = 0]
              ELSE [task EXCEPT !.pc = "report", !.sleep = NextDeadline(seen), !.victim = {list[Min(out)]}]
        /\ falseAlarm' = (falseAlarm \/ \E i \in out : i = Min(out) /\ age[list[i]] < Period[list[i]])
        /\ UNCHANGED <<ms, wdt, list, minPeriod, age, alarms, dangling>>

\* The callbacks are called after the mutex was released.
Report ==
    /\ task.pc = "report"
    /\ alarms' = alarms \cup task.victim
    /\ dangling' = (dangling \/ \E w \in task.victim : w \notin Range(list))
    /\ task' = [task EXCEPT !.pc = "sleep", !.lag = 0, !.victim = {}]
    /\ UNCHANGED <<ms, wdt, list, minPeriod, age, falseAlarm>>

WdtNext ==
    \/ WdtTick \/ Wake \/ Scan \/ Report
    \/ \E w \in Wdts : WdtNew(w) \/ Enable(w) \/ Disable(w) \/ Feed(w) \/ Delete(w)

WdtSpec == WdtInit /\ [][WdtNext]_wdtVars

-----------------------------------------------------------------------------
\* A watchdog that is not fed is noticed: some timeout has been reported (the
\* first in the list hides the others) by its period, or by the sleep the
\* thread was in when it was enabled, and the thread's own delays.
WdtNoticed ==
    alarms = {} => \A w \in Wdts :
        age[w] <= Max({Period[w], BaseMin}) + 2 * MaxLag

\* wdt.h: the timeout is triggered `if the timeout period elapses without being
\* reset'.  A watchdog fed between the thread's reading of the clock and its
\* scan is reported at once: now - last_feed_ms wraps around.
NeverFalseAlarm == ~falseAlarm
=============================================================================
