----------------------------- MODULE ActorTimer -----------------------------
(***************************************************************************)
(* Deferred messages, modules/actor/src/actor_timer.c: a pool of timers on *)
(* two intrusive circular lists (free and armed), and actor_timer_step,    *)
(* which the port's timer thread calls with the time elapsed since its     *)
(* last call.  The step releases actor_lock around every actor_send and    *)
(* goes on from a saved pointer, so the lists are modelled by their next   *)
(* pointers (common/include/libmcu/list.h).                                *)
(***************************************************************************)
EXTENDS Integers, FiniteSets

CONSTANTS
    NumTimers,   \* timers that fit in the memory given to actor_timer_init
    Delays,      \* values of millisec_delay
    TicksPerMs,  \* ticks of the port's clock in a millisecond
    MaxTime,     \* bound on the clock, in ticks
    StopWhen     \* where the step may be when an owner stops a started timer

Timers == 1 .. NumTimers
Armed == 0                  \* &m.timer_armed
Free == NumTimers + 1       \* &m.timer_free
Nodes == Armed .. Free

\* What the module takes the constants to be.
ActorTimerAssumption ==
    /\ NumTimers \in Nat \ {0}
    /\ Delays \subseteq Nat
    /\ TicksPerMs \in Nat \ {0}
    /\ MaxTime \in Nat
    /\ StopWhen \subseteq {"idle", "send", "relock"}

VARIABLES
    next,        \* the next pointer of every list node
    timeout,     \* timer->timeout_ms
    handle,      \* what the owner of a timer knows of it
    spc, p, t,   \* actor_timer_step: where it is, and its two cursors
    now,         \* the clock the port reads, in its ticks
    curr, prev,  \* its value in this and in the previous turn of the port's loop
    elapsed,     \* the argument of the step in progress, in milliseconds
    due,         \* when the delay of an armed timer ends (observation)
    lead,        \* time between the turn before its start and the start (observation)
    turns        \* turns of the port's loop since its start (observation)

stepVars == <<spc, p, t, curr, prev, elapsed>>
obsVars == <<due, lead, turns>>
vars == <<next, timeout, handle, stepVars, now, obsVars>>

Handles == {"none", "new", "started", "stopped", "deleting"}

(***************************************************************************)
(* list.h, on a next-pointer function nx.                                  *)
(***************************************************************************)

\* The node k pointers after x.
Hop(nx, x, k) == LET h[i \in 0 .. k] == IF i = 0 THEN x ELSE nx[h[i - 1]] IN h[k]

\* A traversal that starts at this head comes back to it.
Closed(nx, head) == \E k \in 1 .. NumTimers + 1 : Hop(nx, head, k) = head

\* What list_for_each visits.
Members(nx, head) ==
    {Hop(nx, head, k) : k \in {k \in 1 .. NumTimers :
        \A j \in 1 .. k : Hop(nx, head, j) # head}}

\* The node list_del and list_add_tail stop at: the one before the target,
\* or the last one of the list.
Before(nx, head, node) ==
    CHOOSE x \in Members(nx, head) \cup {head} :
        /\ nx[x] \in {head, node}
        /\ nx[x] # node => node \notin Members(nx, head)

\* add_to_list: list_add_tail unless the node is there.
AddToList(nx, node, head) ==
    IF node \in Members(nx, head)
    THEN nx
    ELSE [nx EXCEPT ![node] = head, ![Before(nx, head, head)] = node]

\* list_del unlinks whatever follows the node it stops at, which is the
\* head itself when the target is not in the list.
ListDel(nx, node, head) ==
    LET x == Before(nx, head, node) IN [nx EXCEPT ![x] = nx[nx[x]]]

(***************************************************************************)
(* Initial state: actor_timer_init.                                        *)
(***************************************************************************)
Init ==
    /\ next = [n \in Nodes |-> CASE n = Armed -> Armed
                                 [] n = Free -> 1
                                 [] OTHER -> n + 1]
    /\ timeout = [x \in Timers |-> 0]
    /\ handle = [x \in Timers |-> "none"]
    /\ spc = "idle" /\ p = Armed /\ t = Armed
    /\ now = 0 /\ curr = 0 /\ prev = 0 /\ elapsed = 0
    /\ due = [x \in Timers |-> 0]
    /\ lead = [x \in Timers |-> 0]
    /\ turns = [x \in Timers |-> 0]

\* actor_lock can be taken: the step holds it while it walks.
LockFree == spc \in {"idle", "send", "relock"}

\* Nothing is observed of a timer that is not armed.
Forget(x) ==
    /\ due' = [due EXCEPT ![x] = 0]
    /\ lead' = [lead EXCEPT ![x] = 0]
    /\ turns' = [turns EXCEPT ![x] = 0]

\* A list operation of the code ends; otherwise its thread spins for good.
Ends(head) == Closed(next, head)

(***************************************************************************)
(* The API.  An owner uses a timer until it fires or is deleted.           *)
(***************************************************************************)

\* actor_timer_new: alloc_timer, then the fields, which nobody else reads yet.
TimerNew(d) ==
    /\ LockFree /\ Ends(Free)
    /\ next[Free] \in Timers
    /\ LET x == next[Free]
       IN /\ next' = ListDel(next, x, Free)
          /\ timeout' = [timeout EXCEPT ![x] = d]
          /\ handle' = [handle EXCEPT ![x] = "new"]
    /\ UNCHANGED <<stepVars, now, obsVars>>

\* actor_timer_start
TimerStart(x) ==
    /\ LockFree /\ Ends(Armed)
    /\ handle[x] \in {"new", "stopped"}
    /\ next' = AddToList(next, x, Armed)
    /\ handle' = [handle EXCEPT ![x] = "started"]
    /\ due' = [due EXCEPT ![x] = now + timeout[x] * TicksPerMs]
    /\ lead' = [lead EXCEPT ![x] = now - prev]
    /\ turns' = [turns EXCEPT ![x] = 0]
    /\ UNCHANGED <<timeout, stepVars, now>>

\* The critical section of actor_timer_stop.
Unlink(x) ==
    /\ LockFree /\ Ends(Armed)
    /\ next' = IF x \in Members(next, Armed) THEN ListDel(next, x, Armed) ELSE next
    /\ Forget(x)
    /\ UNCHANGED <<timeout, stepVars, now>>

TimerStop(x) ==
    /\ spc \in StopWhen
    /\ handle[x] = "started"
    /\ handle' = [handle EXCEPT ![x] = "stopped"]
    /\ Unlink(x)

\* actor_timer_delete: actor_timer_stop, then free_timer in a second section.
TimerDelete(x) ==
    /\ \/ handle[x] \in {"new", "stopped"}
       \/ handle[x] = "started" /\ spc \in StopWhen
    /\ handle' = [handle EXCEPT ![x] = "deleting"]
    /\ Unlink(x)

DeleteFree(x) ==
    /\ LockFree /\ Ends(Free)
    /\ handle[x] = "deleting"
    /\ next' = AddToList(next, x, Free)
    /\ handle' = [handle EXCEPT ![x] = "none"]
    /\ Forget(x)
    /\ UNCHANGED <<timeout, stepVars, now>>

(***************************************************************************)
(* The port's timer thread.                                                *)
(***************************************************************************)
Tick ==
    /\ now < MaxTime
    /\ now' = now + 1
    /\ UNCHANGED <<next, timeout, handle, stepVars, obsVars>>

\* The milliseconds the port makes of the time since its last turn: a division
\* that drops the rest, which is not carried over.
ElapsedMs == (now - prev) \div TicksPerMs

\* The last line of the port's loop remembers the clock, rest or not.
TurnEnds ==
    /\ prev' = curr'
    /\ turns' = [x \in Timers |-> IF handle[x] = "started" THEN turns[x] + 1 ELSE 0]
    /\ UNCHANGED <<due, lead>>

\* A turn after less than a millisecond does not call actor_timer_step.
TurnTooShort ==
    /\ spc = "idle" /\ now > prev /\ ElapsedMs = 0
    /\ curr' = now
    /\ TurnEnds
    /\ UNCHANGED <<next, timeout, handle, spc, p, t, elapsed, now>>

\* Otherwise the port calls it; the step takes the lock and
\* list_for_each_safe loads its cursors.
StepBegin ==
    /\ spc = "idle" /\ ElapsedMs > 0
    /\ curr' = now
    /\ elapsed' = ElapsedMs
    /\ p' = next[Armed]
    /\ t' = next[next[Armed]]
    /\ spc' = "walk"
    /\ UNCHANGED <<next, timeout, handle, prev, now, obsVars>>

\* Mutated forms: the subtraction runs below zero; a timer expires one unit
\* early; a timeout equal to the elapsed time is left for later.
UpdateTimeoutWrap(x) == timeout[x] - elapsed
UpdateTimeoutEarly(x) == IF elapsed + 1 >= timeout[x] THEN 0 ELSE timeout[x] - elapsed
UpdateTimeoutLate(x) ==
    IF elapsed > timeout[x] THEN 0
    ELSE IF elapsed = timeout[x] THEN 1 ELSE timeout[x] - elapsed

\* update_timeout
UpdateTimeout(x) == IF elapsed >= timeout[x] THEN 0 ELSE timeout[x] - elapsed

\* One turn of the loop, lock held: a timer that has expired is sent next.
StepWalk ==
    /\ spc = "walk" /\ p \in Timers
    /\ timeout' = [timeout EXCEPT ![p] = UpdateTimeout(p)]
    /\ IF timeout'[p] = 0
       THEN spc' = "send" /\ UNCHANGED <<p, t>>
       ELSE p' = t /\ t' = next[t] /\ UNCHANGED spc
    /\ UNCHANGED <<next, handle, curr, prev, elapsed, now, obsVars>>

\* actor_send, with actor_lock released.
StepSend ==
    /\ spc = "send"
    /\ spc' = "relock"
    /\ UNCHANGED <<next, timeout, handle, p, t, curr, prev, elapsed, now, obsVars>>

\* A mutated form: the timer is put back without being unlinked.
FreeStillLinked(x) == AddToList(next, x, Free)

\* list_del from the armed list, then free_timer.
Disarm(x) == AddToList(ListDel(next, x, Armed), x, Free)

\* The lock is taken again, the timer freed, and the cursors move on.
StepDisarm ==
    /\ spc = "relock" /\ Ends(Armed) /\ Ends(Free)
    /\ next' = Disarm(p)
    /\ handle' = [handle EXCEPT ![p] = IF @ = "started" THEN "none" ELSE @]
    /\ p' = t
    /\ t' = next'[t]
    /\ spc' = "walk"
    /\ Forget(p)
    /\ UNCHANGED <<timeout, curr, prev, elapsed, now>>

\* The loop ends at the list head; the port remembers when it stepped.
StepEnd ==
    /\ spc = "walk" /\ p = Armed
    /\ spc' = "idle" /\ t' = Armed
    /\ curr' = curr /\ TurnEnds
    /\ elapsed' = 0
    /\ UNCHANGED <<next, timeout, handle, p, now>>

Next ==
    \/ \E d \in Delays : TimerNew(d)
    \/ \E x \in Timers : \/ TimerStart(x) \/ TimerStop(x)
                         \/ TimerDelete(x) \/ DeleteFree(x)
    \/ Tick \/ TurnTooShort \/ StepBegin \/ StepWalk \/ StepSend \/ StepDisarm \/ StepEnd

Spec == Init /\ [][Next]_vars

(***************************************************************************)
(* Properties.                                                             *)
(***************************************************************************)

\* Every variable has its type (struct actor_timer and the two list heads).
TypeOK ==
    /\ next \in [Nodes -> Nodes]
    /\ timeout \in [Timers -> Nat]
    /\ handle \in [Timers -> Handles]
    /\ spc \in {"idle", "walk", "send", "relock"}
    /\ p \in Nodes /\ t \in Nodes
    /\ {now, curr, prev, elapsed} \subseteq 0 .. MaxTime

\* The timers split into the armed ones, the free ones and the ones only
\* their owner knows, whatever owners do while the step has released the
\* lock: a timer is armed exactly when its owner started it, free exactly
\* when nobody owns it, and the step's cursor stands on an armed timer.
TimersAccounted ==
    /\ \A x \in Timers : /\ x \in Members(next, Armed) <=> handle[x] = "started"
                         /\ x \in Members(next, Free) <=> handle[x] = "none"
    /\ spc # "idle" => p \in Members(next, Armed) \cup {Armed}

\* Every traversal of the two lists ends: the loops of actor_timer_start,
\* _stop, _new, _step and _count_messages run with actor_lock held, so one
\* that does not end stops the whole actor system.
TraversalEnds == Closed(next, Armed) /\ Closed(next, Free)

\* Only a started timer sends its message (sending ends its arming, so it
\* sends once), and not before its delay has passed since the turn before it was
\* started (actor_timer_step debits the time since then).
SentOnceAndNotTooEarly ==
    \A x \in Timers :
        spc = "send" /\ p = x => /\ handle[x] = "started"
                                 /\ curr >= due[x] - lead[x]

\* Between turns no armed timer is overdue by more than what the port's
\* division drops, less than a millisecond for each turn since it was started:
\* a step sends every timer whose delay ended that long before it, even when
\* timers are freed, recycled and started behind the cursor while the lock is
\* released.
NoneOverdue ==
    spc = "idle" => \A x \in Members(next, Armed) :
        prev <= due[x] + turns[x] * (TicksPerMs - 1)

\* The same without the allowance: a deferred message is sent by the first
\* turn after its delay.
NeverOverdue ==
    spc = "idle" => \A x \in Members(next, Armed) :
        prev <= due[x]

\* actor_send_defer's message is not sent before its delay has passed.
NotBeforeDelay ==
    spc = "send" => curr >= due[p]
=============================================================================
