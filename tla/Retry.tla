------------------------------- MODULE Retry --------------------------------
(***************************************************************************)
(* modules/retry/src/retry.c: exponential backoff with jitter.  Times are  *)
(* milliseconds in 32 bits here of Width, attempts and parameters in 16,   *)
(* here of Narrow.  One retry object and the loop of its user.             *)
(***************************************************************************)
EXTENDS Integers

CONSTANTS Width, Narrow, Params    \* the parameters passed to retry_new

\* The parameters have the types of struct retry_param: max_backoff_ms is a
\* uint32_t, the others are uint16_t.
ASSUME RetryAssumption ==
    /\ 2^Width \in Nat \ {0} /\ 2^Narrow \in Nat \ {0}
    /\ Params \subseteq [min : 0 .. 2^Narrow - 1, max : 0 .. 2^Width - 1,
                         jitter : 0 .. 2^Narrow - 1, attempts : 0 .. 2^Narrow - 1]
    /\ 2^Narrow <= 2^Width

VARIABLES
    param,       \* self->param
    attempts,    \* self->attempts
    previous,    \* self->previous_backoff_ms
    tries        \* ghost: backoffs handed out since the last reset

retryVars == <<param, attempts, previous, tries>>

Unset == [min |-> 0, max |-> 0, jitter |-> 0, attempts |-> 0]

RetryInit ==
    /\ param = Unset
    /\ attempts = 0
    /\ previous = 0
    /\ tries = 0

\* retry_new, retry_new_static: the maximum is raised to the minimum.
RetryNew(p) ==
    /\ param' = [p EXCEPT !.max = IF p.min > p.max THEN p.min ELSE p.max]
    /\ attempts' = 0
    /\ previous' = 0
    /\ tries' = 0

GetJitter(random) == IF param.jitter > 0 THEN random % param.jitter ELSE 0

IsExhausted == param.attempts > 0 /\ attempts >= param.attempts

\* A bug the runs must notice: the jitter added on top of the maximum.
CalcBackoffOver(random) ==
    LET first == IF previous = 0 THEN param.min ELSE (previous * 2) % 2^Width
    IN  (IF first > param.max THEN param.max ELSE first) + GetJitter(random)

CalcBackoff(random) ==
    LET jitter == GetJitter(random)
        backoff == ((IF previous = 0 THEN param.min ELSE previous * 2) + jitter) % 2^Width
    IN  IF backoff > param.max
          THEN ((param.max - param.jitter) + jitter) % 2^Width
          ELSE backoff

Backoff(random) ==
    /\ param # Unset
    /\ ~IsExhausted
    /\ attempts' = (attempts + 1) % 2^Narrow
    /\ previous' = CalcBackoff(random)
    /\ tries' = IF tries < 2^Narrow THEN tries + 1 ELSE tries
    /\ UNCHANGED param

RetryReset ==
    /\ attempts' = 0
    /\ previous' = 0
    /\ tries' = 0
    /\ UNCHANGED param

RetryNext ==
    \/ \E p \in Params : RetryNew(p)
    \/ RetryReset
    \/ \E random \in 0..2^Narrow - 1 : Backoff(random)

RetrySpec == RetryInit /\ [][RetryNext]_retryVars

-----------------------------------------------------------------------------
\* Where the jitter is no larger than the maximum, no wait is longer than the
\* maximum, whatever the random numbers were on the way, and a limited retry
\* gives up after exactly as many waits as it was allowed.
RetryBounded ==
    /\ param.jitter <= param.max /\ tries > 0 => previous <= param.max
    /\ param.attempts > 0 => (IsExhausted <=> tries = param.attempts)
=============================================================================
