------------------------------ MODULE MCTasks -------------------------------
(***************************************************************************)
(* Small instances of the two modules that run callers' work on threads of *)
(* their own: the thread pool (JobQueue) and the active object (Ao). One   *)
(* module explores them side by side: sel, chosen in the initial state,    *)
(* says which of them runs, so their state spaces add up and do not        *)
(* multiply.                                                               *)
(***************************************************************************)
EXTENDS JobQueue, Ao

CONSTANTS j1, j2, j3, w1, w2, e1, e2, t1

\* Limits a pool may be switched between; one worker always stays, as with the
\* default JOBQUEUE_DEFAULT_MIN_THREADS.
Resized == {[min |-> 1, max |-> 1], [min |-> 1, max |-> 2]}

VARIABLES
    sel     \* the module whose behaviours this one explores

-----------------------------------------------------------------------------
Parts == {"JobQueue", "Ao"}

SuiteInit ==
    /\ sel \in Parts
    /\ Init /\ AoInit
    /\ sel # "JobQueue" => attr.max = 1

\* A step of the selected module; every other stays in its initial state.
SuiteNext ==
    /\ UNCHANGED sel
    /\ IF sel = "JobQueue" THEN Next ELSE UNCHANGED vars
    /\ IF sel = "Ao" THEN AoNext ELSE UNCHANGED aoVars

suiteVars == <<sel, vars, aoVars>>

\* Every worker, the task, the timer thread and the callers are threads the
\* scheduler does not starve; a lock is granted to a thread that keeps asking.
SuiteSpec ==
    /\ SuiteInit /\ [][SuiteNext]_suiteVars
    /\ \A w \in Workers : WF_vars(sel = "JobQueue" /\ Worker(w))
    /\ SF_aoVars(sel = "Ao" /\ TaskStep) /\ SF_aoVars(sel = "Ao" /\ TimerStep)
    /\ \A th \in Callers : SF_aoVars(sel = "Ao" /\ CallStep(th))
=============================================================================
