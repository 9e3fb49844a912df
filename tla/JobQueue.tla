------------------------------ MODULE JobQueue ------------------------------
(***************************************************************************)
(* The thread pool of modules/jobqueue/src/jobqueue.c: jobs wait on a      *)
(* list, a semaphore counts wake-ups, and worker threads are created on    *)
(* demand by job_schedule and leave by themselves in jobqueue_process.     *)
(***************************************************************************)
EXTENDS Integers, Sequences, FiniteSets, SequencesExt

CONSTANTS
    Jobs,          \* struct job objects
    Workers,       \* thread slots; at least the largest max_threads
    MaxConcurrent, \* max_concurrent_jobs
    Attrs,         \* [min, max] thread limits given to jobqueue_set_attr
    CreateMayFail, \* whether pthread_create may fail
    MaxSem,        \* bound on the semaphore
    NoJob          \* the NULL pointer

\* The limits have the widths jobqueue.h gives them: uint8_t for
\* max_concurrent_jobs and max_threads, int8_t for min_threads.
ASSUME JobQueueAssumption ==
    /\ IsFiniteSet(Workers)
    /\ MaxConcurrent \in 0 .. 255
    /\ Attrs # {} /\ Attrs \subseteq [min : -128 .. 127, max : 0 .. 255]
    /\ \A a \in Attrs : a.max <= Cardinality(Workers)
    /\ CreateMayFail \in BOOLEAN
    /\ MaxSem \in Nat
    /\ NoJob \notin Jobs

VARIABLES
    list,      \* job_list
    sem,       \* job_queue
    active,    \* active_threads
    running,   \* nr_running
    attr,      \* attr
    wpc,       \* where each worker is in jobqueue_process
    job        \* its local "job"

vars == <<list, sem, active, running, attr, wpc, job>>

WPC == {"none", "wait", "detach", "run", "finish"}

\* is_job_scheduled
IsScheduled(j) == Contains(list, j)

\* job_count_internal
JobCount == Len(list) + running

\* jobqueue_create, then the first jobqueue_set_attr.
Init ==
    /\ list = <<>> /\ sem = 0 /\ active = 0 /\ running = 0
    /\ attr \in Attrs
    /\ wpc = [w \in Workers |-> "none"]
    /\ job = [w \in Workers |-> NoJob]

\* jobqueue_set_attr
SetAttr(a) ==
    /\ attr' = a
    /\ UNCHANGED <<list, sem, active, running, wpc, job>>

\* A mutated form: the duplicate test is missing.
EnqueueAgain(j) == list' = Append(list, j) /\ sem' = sem + 1

\* job_schedule_internal: the queueing part.
Enqueue(j) ==
    IF IsScheduled(j) THEN UNCHANGED <<list, sem>>
    ELSE list' = Append(list, j) /\ sem' = sem + 1

\* A mutated form: the new thread is not counted.
SpawnUncounted ==
    IF JobCount >= active /\ active < attr.max
    THEN \/ \E w \in Workers : /\ wpc[w] = "none"
                               /\ wpc' = [wpc EXCEPT ![w] = "wait"]
                               /\ UNCHANGED active
         \/ CreateMayFail /\ UNCHANGED <<wpc, active>>
    ELSE UNCHANGED <<wpc, active>>

\* job_schedule_internal: a thread is created when every active one has a job
\* already.  When pthread_create fails the job stays queued.
Spawn ==
    IF JobCount >= active /\ active < attr.max
    THEN \/ \E w \in Workers : /\ wpc[w] = "none"
                               /\ wpc' = [wpc EXCEPT ![w] = "wait"]
                               /\ active' = active + 1
         \/ CreateMayFail /\ UNCHANGED <<wpc, active>>
    ELSE UNCHANGED <<wpc, active>>

\* A mutated form: one more job than allowed is accepted.
ScheduleOneMore(j) ==
    /\ JobCount <= MaxConcurrent /\ sem < MaxSem
    /\ Enqueue(j) /\ Spawn
    /\ UNCHANGED <<running, attr, job>>

\* job_schedule; a full pool answers JOB_FULL and changes nothing.
Schedule(j) ==
    /\ JobCount < MaxConcurrent /\ sem < MaxSem
    /\ Enqueue(j) /\ Spawn
    /\ UNCHANGED <<running, attr, job>>

\* job_deschedule: job_delete_internal unlinks the first node that is the
\* job's; the semaphore keeps the wake-up of the removed job.
Deschedule(j) ==
    /\ \E i \in 1 .. Len(list) :
          /\ list[i] = j /\ \A k \in 1 .. i - 1 : list[k] # j
          /\ list' = RemoveAt(list, i)
    /\ UNCHANGED <<sem, active, running, attr, wpc, job>>

\* A mutated form: the wait returns without an event.
WaitNothing(w) ==
    /\ wpc[w] = "wait"
    /\ sem' = sem - 1
    /\ wpc' = [wpc EXCEPT ![w] = "detach"]
    /\ UNCHANGED <<list, active, running, attr, job>>

\* sem_wait(&pool->job_queue)
WaitJob(w) ==
    /\ wpc[w] = "wait" /\ sem > 0
    /\ sem' = sem - 1
    /\ wpc' = [wpc EXCEPT ![w] = "detach"]
    /\ UNCHANGED <<list, active, running, attr, job>>

\* First critical section: get_job_scheduled_detaching; with nothing on the
\* list the worker still counts itself as running.
Detach(w) ==
    /\ wpc[w] = "detach"
    /\ IF list = <<>>
       THEN UNCHANGED <<list, job>>
       ELSE list' = Tail(list) /\ job' = [job EXCEPT ![w] = Head(list)]
    /\ running' = running + 1
    /\ wpc' = [wpc EXCEPT ![w] = "run"]
    /\ UNCHANGED <<sem, active, attr>>

\* The callback runs and returns, with no lock held.
RunJob(w) ==
    /\ wpc[w] = "run"
    /\ wpc' = [wpc EXCEPT ![w] = "finish"]
    /\ job' = [job EXCEPT ![w] = NoJob]
    /\ UNCHANGED <<list, sem, active, running, attr>>

\* A mutated form: the last worker may leave.
LeavesBelowMin(count) == count <= active /\ active >= attr.min

\* The worker leaves when the others can carry the remaining jobs.
Leaves(count) == count <= active /\ active > attr.min

\* Second critical section.
Finish(w) ==
    /\ wpc[w] = "finish"
    /\ running' = running - 1
    /\ IF Leaves(Len(list) + running')
       THEN active' = active - 1 /\ wpc' = [wpc EXCEPT ![w] = "none"]
       ELSE wpc' = [wpc EXCEPT ![w] = "wait"] /\ UNCHANGED active
    /\ UNCHANGED <<list, sem, attr, job>>

Worker(w) == WaitJob(w) \/ Detach(w) \/ RunJob(w) \/ Finish(w)

Next ==
    \/ \E a \in Attrs : SetAttr(a)
    \/ \E j \in Jobs : Schedule(j) \/ Deschedule(j)
    \/ \E w \in Workers : Worker(w)

Spec == Init /\ [][Next]_vars

\* Worker threads keep running and callbacks return.  A semaphore does not
\* promise which waiter it wakes, so each worker's wake-up is only weakly fair.
FairSpec == Spec /\ \A w \in Workers : WF_vars(Worker(w))

(***************************************************************************)
(* Properties.                                                             *)
(***************************************************************************)

\* Every variable has its type; the counters fit the uint8_t they are kept
\* in (struct jobqueue).
TypeOK ==
    /\ list \in Seq(Jobs)
    /\ sem \in Nat
    /\ active \in 0 .. 255 /\ running \in 0 .. 255
    /\ attr \in Attrs
    /\ wpc \in [Workers -> WPC]
    /\ job \in [Workers -> Jobs \cup {NoJob}]

\* The threads there are, those between their two critical sections, those
\* woken that have not taken a job yet, and those that hold one.
Created == {w \in Workers : wpc[w] # "none"}
Busy == {w \in Workers : wpc[w] \in {"run", "finish"}}
Woken == {w \in Workers : wpc[w] = "detach"}
Holding == {w \in Workers : job[w] # NoJob}

\* The two thread counters agree with the threads there are, and the uint8_t
\* that job_count_internal returns holds the sum it computes: the count that
\* job_schedule compares with the limits never wraps around.
CountersExact ==
    /\ active = Cardinality(Created) /\ running = Cardinality(Busy)
    /\ JobCount \in 0 .. 255

\* There is a wake-up for every job on the list, still in the semaphore or
\* taken by a worker about to detach a job, and no job is on the list twice.
WakeUpForEveryJob ==
    /\ Len(list) <= sem + Cardinality(Woken)
    /\ IsInjective(list)

\* No more jobs are accepted than max_concurrent_jobs.
AtMostMaxConcurrent == Len(list) + Cardinality(Holding) <= MaxConcurrent

\* The pool's counters are those of its threads, a wake-up waits for every
\* queued job that has no worker yet, and no more jobs are queued or run than
\* were allowed (job_schedule, job_deschedule, jobqueue_process).
JobPoolExact ==
    TypeOK /\ CountersExact /\ WakeUpForEveryJob /\ AtMostMaxConcurrent

\* Once there is a worker, a queued job is run (or descheduled) without any
\* further job_schedule, whichever workers leave the pool.
QueuedJobRuns == \A j \in Jobs : IsScheduled(j) /\ active > 0 ~> ~IsScheduled(j)
=============================================================================
