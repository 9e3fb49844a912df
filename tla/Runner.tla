------------------------------- MODULE Runner -------------------------------
(***************************************************************************)
(* modules/runner/src/runner.c and runner_overrides.c: one of a table of   *)
(* runners is current; a change terminates it and prepares the next, with  *)
(* callbacks of the application around.  All of them are the application's *)
(* own code and may call runner_change again, so a call of change_current  *)
(* is a frame on a stack and each of its calls to the application a step.  *)
(***************************************************************************)
EXTENDS Integers, Sequences

CONSTANTS
    Types,       \* the types of the registered runners
    Unknown,     \* a type no runner has: find_runner_by_type gives the default
    MaxDepth,    \* bound on nested changes
    Null

ASSUME RunnerAssumption == Null \notin Types \cup {Unknown}

VARIABLES
    current,     \* m.current
    frames,      \* calls of change_current in progress, innermost last
    prepared,    \* ghost: runners whose prepare was called and terminate not since
    bypassed,    \* ghost: a change bypassed them or overtook one in progress, or
                 \* runner_start was called again
    served       \* ghost: the runner that last answered runner_run or one of its kind

runnerVars == <<current, frames, prepared, bypassed, served>>

\* Unknown also stands for the default runner, which has no functions and so is
\* never in `prepared', and whose own type is none that a caller would name.
FindRunner(type) == type
HasApi(runner) == runner \in Types

RunnerInit ==
    /\ current = Null
    /\ frames = <<>>
    /\ prepared = {}
    /\ bypassed = FALSE
    /\ served = Null

\* A frame's pc names the call to the application change_current is in.
Top == frames[Len(frames)]
Goto(pc) == frames' = [frames EXCEPT ![Len(frames)].pc = pc]
Return == frames' = SubSeq(frames, 1, Len(frames) - 1)

\* runner_start; prepare and the callback are called in the same call.  A second
\* one replaces the current runner without terminating it.
Start(type) ==
    /\ current' = FindRunner(type)
    /\ prepared' = prepared \cup ({type} \cap Types)
    /\ bypassed' = (bypassed \/ current # Null)
    /\ UNCHANGED <<frames, served>>

\* change_current up to its first call: the same type is refused, but an unknown
\* one is never the default runner's.
Change(type, bypass) ==
    /\ current # Null
    /\ Len(frames) < MaxDepth
    /\ type # current \/ type = Unknown
    /\ frames' = Append(frames, [type |-> type, old |-> current, bypass |-> bypass, pc |-> "pre"])
    /\ bypassed' = (bypassed \/ bypass
            \/ \E i \in DOMAIN frames : frames[i].pc \in {"pre", "terminate"})
    /\ UNCHANGED <<current, prepared, served>>

\* The callback before the change returns.  When it accepts, terminate is called
\* on the runner that was current when change_current began.
PreChange(accepted) ==
    /\ frames # <<>> /\ Top.pc = "pre"
    /\ IF accepted THEN Goto("terminate") ELSE Return
    /\ prepared' = IF accepted /\ ~Top.bypass THEN prepared \ {Top.old} ELSE prepared
    /\ UNCHANGED <<current, bypassed, served>>

\* A bug the runs must notice: prepare runs before the runner is made current.
TerminateLate ==
    /\ frames # <<>> /\ Top.pc = "terminate"
    /\ prepared' = IF Top.bypass THEN prepared ELSE prepared \cup ({Top.type} \cap Types)
    /\ Goto("prepare")
    /\ UNCHANGED <<current, bypassed, served>>

\* terminate returns; the new runner is made current and its prepare called.
Terminate ==
    /\ frames # <<>> /\ Top.pc = "terminate"
    /\ current' = FindRunner(Top.type)
    /\ prepared' = IF Top.bypass THEN prepared ELSE prepared \cup ({Top.type} \cap Types)
    /\ Goto("prepare")
    /\ UNCHANGED <<bypassed, served>>

Prepare ==
    /\ frames # <<>> /\ Top.pc = "prepare"
    /\ Goto("post")
    /\ UNCHANGED <<current, prepared, bypassed, served>>

PostChange ==
    /\ frames # <<>> /\ Top.pc = "post"
    /\ Return
    /\ UNCHANGED <<current, prepared, bypassed, served>>

\* runner_step, _run, _sleep, _busy, _input, _output go to the current runner.
Serve ==
    /\ current # Null
    /\ served' = IF HasApi(current) THEN current ELSE Null
    /\ UNCHANGED <<current, frames, prepared, bypassed>>

RunnerNext ==
    \/ \E type \in Types \cup {Unknown} : Start(type)
    \/ \E type \in Types \cup {Unknown}, bypass \in BOOLEAN : Change(type, bypass)
    \/ \E accepted \in BOOLEAN : PreChange(accepted)
    \/ Terminate \/ Prepare \/ PostChange \/ Serve

RunnerSpec == RunnerInit /\ [][RunnerNext]_runnerVars

-----------------------------------------------------------------------------
\* Whenever the application may be served (no change is inside a terminate),
\* the current runner is the only prepared one, even when prepare or the
\* callback after a change starts another change.  A change made from the
\* callback before another, a bypass, or a second runner_start, is the exception.
OnlyCurrentPrepared ==
    ~bypassed /\ (\A i \in DOMAIN frames : frames[i].pc # "terminate")
        => prepared = {current} \cap Types
=============================================================================
