------------------------------ MODULE Ratelim -------------------------------
(***************************************************************************)
(* modules/ratelim/src/ratelim.c: a leaky bucket over a clock of whole     *)
(* seconds.  Rates are kept per hour; Hour is SECONDS_PER_HOUR and Minute  *)
(* SECONDS_PER_MINUTE, and the 32-bit products wrap at 2^BucketWidth.      *)
(* Rates the divisions come out even for are told apart from the others.   *)
(***************************************************************************)
EXTENDS Naturals, FiniteSetsExt

CONSTANTS
    Hour, Minute, BucketWidth,
    Cap,          \* capacity
    Rates,        \* values of leak_rate passed to ratelim_init
    MaxTime       \* bound on the clock

\* No product of the time and a rate, and no sum of tokens, wraps around while
\* the clock runs.
ASSUME BucketAssumption ==
    /\ 2^BucketWidth \in Nat \ {0} /\ Hour \in Nat \ {0} /\ Minute \in Nat
    /\ Cap \in Nat /\ MaxTime \in Nat /\ Rates \subseteq Nat
    /\ 2 * Cap < 2^BucketWidth /\ MaxTime < 2^BucketWidth
    /\ \A n \in Rates : \A scale \in {Hour, Minute, 1} :
            MaxTime * (n * scale) < 2^BucketWidth

VARIABLES
    bucket,       \* [load, rate, buffer, last]
    clock,        \* ratelim_get_time_seconds
    grants        \* ghost: grants[t] = tokens granted until second t

bucketVars == <<bucket, clock, grants>>

Units == {"second", "minute", "hour"}
PerHour(unit, n) ==
    (n * (CASE unit = "second" -> Hour [] unit = "minute" -> Minute [] OTHER -> 1)) % 2^BucketWidth

BucketInit ==
    /\ bucket = [load |-> 0, rate |-> 0, buffer |-> 0, last |-> 0]
    /\ clock = 0
    /\ grants = [t \in 0..MaxTime |-> 0]

RatelimInit(unit, n) ==
    /\ bucket.rate = 0
    /\ bucket' = [load |-> 0, rate |-> PerHour(unit, n), buffer |-> 0, last |-> clock]
    /\ UNCHANGED <<clock, grants>>

BucketTick ==
    /\ clock < MaxTime
    /\ clock' = clock + 1
    /\ grants' = [grants EXCEPT ![clock + 1] = grants[clock]]
    /\ UNCHANGED bucket

Leaked(b, buffer) == ((buffer * b.rate) % 2^BucketWidth) \div Hour

\* A bug the runs must notice: the time already accounted for stays in the buffer.
UpdateBucketKeep(b) ==
    LET buffer == (b.buffer + (clock - b.last)) % 2^BucketWidth
        leaked == Leaked(b, buffer)
    IN  [b EXCEPT !.load = IF leaked >= @ THEN 0 ELSE @ - leaked,
                  !.buffer = buffer, !.last = clock]

\* update_bucket: whole tokens leak, and the time they took leaves the buffer.
UpdateBucket(b) ==
    LET buffer == (b.buffer + (clock - b.last)) % 2^BucketWidth
        leaked == Leaked(b, buffer)
    IN  IF clock <= b.last THEN b
        ELSE [b EXCEPT
                !.load = IF leaked >= @ THEN 0 ELSE @ - leaked,
                !.buffer = IF leaked > 0 THEN buffer - ((leaked * Hour) \div b.rate) ELSE buffer,
                !.last = clock]

IsFull(b) == b.load >= Cap

\* ratelim_request, and ratelim_request_format, whose format function is then called.
Request ==
    LET b == UpdateBucket(bucket) IN
    /\ bucket.rate > 0
    /\ bucket' = IF IsFull(b) THEN b ELSE [b EXCEPT !.load = @ + 1]
    /\ grants' = IF IsFull(b) THEN grants ELSE [grants EXCEPT ![clock] = @ + 1]
    /\ UNCHANGED clock

\* ratelim_request_ext of n tokens: all or none, and the bucket is not updated
\* when there can never be as many.
RequestExt(n) ==
    LET b == UpdateBucket(bucket)
        granted == (b.load + n) % 2^BucketWidth <= Cap
    IN  /\ bucket.rate > 0 /\ n \in 1..Cap
        /\ bucket' = IF granted THEN [b EXCEPT !.load = @ + n] ELSE b
        /\ grants' = IF granted THEN [grants EXCEPT ![clock] = @ + n] ELSE grants
        /\ UNCHANGED clock

Full ==
    /\ bucket' = UpdateBucket(bucket)
    /\ UNCHANGED <<clock, grants>>

BucketNext ==
    \/ \E unit \in Units, n \in Rates : RatelimInit(unit, n)
    \/ BucketTick
    \/ Request
    \/ \E n \in 1..Cap : RequestExt(n)
    \/ Full

BucketSpec == BucketInit /\ [][BucketNext]_bucketVars

-----------------------------------------------------------------------------
\* Between any two seconds the bucket granted at most its capacity and what its
\* rate lets through in that time, rounded up.
WithinRate ==
    \A s \in 0..clock, t \in 0..clock : s < t =>
        (grants[t] - grants[s]) * Hour <= Cap * Hour + (t - s) * bucket.rate + Hour

\* A bucket never lets more through than its capacity and its rate allow, in any
\* interval and however its calls fall between the seconds, when a token takes
\* a whole number of seconds or a second brings a whole number of tokens: an
\* idle bucket saves nothing up.
RateLimited == bucket.rate > 0 /\ (bucket.rate % Hour = 0 \/ Hour % bucket.rate = 0) => WithinRate

\* README.md of the module: `The bucket "leaks" requests at a fixed rate', at
\* every rate.  It does not: where leaked * 3600 / leak_rate is rounded down the
\* rest of the time stays in the buffer and leaks again.
LeaksAtFixedRate == WithinRate
=============================================================================
