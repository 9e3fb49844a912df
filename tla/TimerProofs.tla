---------------------------- MODULE TimerProofs -----------------------------
(***************************************************************************)
(* Theorems about the modules that act on the clock: the buzzer, retry,    *)
(* the software watchdogs and rate limits.  Each is an invariant that the  *)
(* run `timers' checks on a small instance, here for every value of the    *)
(* constants.                                                              *)
(***************************************************************************)
EXTENDS Buzzer, Retry, Wdt, Ratelim,
        SequenceTheorems, WellFoundedInduction, TLAPS

(***************************************************************************)
(* Buzzer: BuzzerQuiet, for any melodies and any number of plays.          *)
(***************************************************************************)

\* A sound always has somebody about to turn it off: the timer that will
\* expire, the callback in progress, or buzzer_play on its way to stop the
\* channel or to start the timer.  From "select" to "start_pwm", and in
\* buzzer_mute, the application vouches for nothing: a callback that missed
\* apptmr_stop and sounds a tone there will itself start the timer.
SoundAttended ==
    driven => armed \/ cb # Idle \/ app \in {"stop_pwm", "start_timer"}

LEMMA SoundStep == SoundAttended /\ [BuzzerNext]_buzzerVars => SoundAttended'
<1> SUFFICES ASSUME SoundAttended, [BuzzerNext]_buzzerVars PROVE SoundAttended'
  OBVIOUS
<1> USE DEF SoundAttended, Idle
<1>1. CASE App
  <2>1. ASSUME NEW m \in Melodies, Play(m) PROVE SoundAttended'
    BY <2>1 DEF Play, Call
  <2>2. CASE StopTimer \/ StopPwm
    BY <2>2 DEF StopTimer, StopPwm
  <2>3. CASE Select \/ Rewind
    BY <2>3 DEF Select, Rewind
  <2>4. CASE StartPwm \/ StartTimer
    BY <2>4 DEF StartPwm, StartTimer
  <2>5. CASE Mute
    BY <2>5 DEF Mute
  <2>6. CASE MuteDone
    BY <2>6 DEF MuteDone, Return
  <2>7. CASE Unmute
    BY <2>7 DEF Unmute
  <2> QED
    BY <1>1, <2>1, <2>2, <2>3, <2>4, <2>5, <2>6, <2>7 DEF App
<1>2. CASE Timer
  <2>1. CASE Timeout
    BY <2>1 DEF Timeout
  <2>2. CASE NextTone
    BY <2>2 DEF NextTone
  <2>3. CASE Stop
    BY <2>3 DEF Stop
  <2>4. CASE SetTone
    BY <2>4 DEF SetTone
  <2>5. CASE Restart
    BY <2>5 DEF Restart
  <2> QED
    BY <1>2, <2>1, <2>2, <2>3, <2>4, <2>5 DEF Timer
<1>3. CASE UNCHANGED buzzerVars
  BY <1>3 DEF buzzerVars
<1> QED
  BY <1>1, <1>2, <1>3 DEF BuzzerNext

\* However on_timeout, which takes no lock, falls between the steps of
\* buzzer_play and buzzer_mute, no sound is left on with nothing in progress
\* and no timer running that would turn it off.
THEOREM BuzzerFallsQuiet == BuzzerSpec => []BuzzerQuiet
<1>1. BuzzerInit => SoundAttended
  BY DEF BuzzerInit, SoundAttended
<1>2. SoundAttended => BuzzerQuiet
  BY DEF SoundAttended, BuzzerQuiet, Quiet, Idle
<1> QED
  BY <1>1, <1>2, SoundStep, PTL DEF BuzzerSpec

(***************************************************************************)
(* Retry: RetryBounded, for integers of any widths.                        *)
(***************************************************************************)

\* Attempts are counted exactly as long as they are limited, and what the next
\* wait is doubled from is within the maximum even before the first wait.
RetryInv ==
    /\ param \in [min : Nat, max : 0 .. 2^Width - 1, jitter : Nat,
                  attempts : 0 .. 2^Narrow - 1]
    /\ attempts \in Nat /\ previous \in Nat /\ tries \in Nat
    /\ param.jitter <= param.max => previous <= param.max
    /\ param.attempts > 0 => attempts = tries /\ tries <= param.attempts

\* get_jitter is within the jitter asked for.
LEMMA JitterBounded ==
    ASSUME RetryInv, NEW random \in Nat
    PROVE  GetJitter(random) \in Nat /\ GetJitter(random) <= param.jitter
<1>1. param.jitter \in Nat
  BY DEF RetryInv
<1> QED
  BY <1>1 DEF GetJitter

\* calc_backoff_time is within the maximum where the jitter is, though its
\* product may wrap around: past the maximum it is computed anew.
LEMMA WaitBounded ==
    ASSUME RetryInv, NEW random \in Nat
    PROVE  /\ CalcBackoff(random) \in Nat
           /\ param.jitter <= param.max => CalcBackoff(random) <= param.max
<1> DEFINE first == IF previous = 0 THEN param.min ELSE previous * 2
<1>1. PICK W \in Nat \ {0} : W = 2^Width
  BY RetryAssumption
<1>2. PICK j \in Nat : j = GetJitter(random) /\ j <= param.jitter
  BY JitterBounded
<1>3. PICK max \in 0 .. W - 1, jitter \in Nat : max = param.max /\ jitter = param.jitter
  BY <1>1 DEF RetryInv
<1>4. PICK f \in Nat : f = first
  BY DEF RetryInv
<1>5. CalcBackoff(random) =
        IF (f + j) % W > max THEN ((max - jitter) + j) % W ELSE (f + j) % W
  BY <1>1, <1>2, <1>3, <1>4 DEF CalcBackoff
<1>6. (f + j) % W \in Nat /\ ((max - jitter) + j) % W \in Nat
  <2>1. f + j \in Int /\ (max - jitter) + j \in Int
    BY <1>1, <1>3
  <2>2. \A n \in Int : n % W \in Nat
    BY <1>1
  <2> QED
    BY <2>1, <2>2
<1>7. ASSUME jitter <= max PROVE ((max - jitter) + j) % W <= max
  <2>1. PICK n \in 0 .. W - 1 : n = (max - jitter) + j /\ n <= max
    BY <1>1, <1>2, <1>3, <1>7
  <2>2. n % W = n
    BY <1>1, <2>1
  <2> QED
    BY <2>1, <2>2
<1> QED
  BY <1>3, <1>5, <1>6, <1>7

LEMMA RetryStep == RetryInv /\ [RetryNext]_retryVars => RetryInv'
<1> SUFFICES ASSUME RetryInv, [RetryNext]_retryVars PROVE RetryInv'
  OBVIOUS
<1>1. ASSUME NEW p \in Params, RetryNew(p) PROVE RetryInv'
  <2>1. PICK W \in Nat \ {0}, N \in Nat \ {0} : W = 2^Width /\ N = 2^Narrow /\ N <= W
    BY RetryAssumption
  <2>2. p \in [min : 0 .. N - 1, max : 0 .. W - 1, jitter : 0 .. N - 1, attempts : 0 .. N - 1]
    BY <2>1, RetryAssumption
  <2>3. PICK m \in 0 .. W - 1 : m = IF p.min > p.max THEN p.min ELSE p.max
    BY <2>1, <2>2
  <2>4. /\ param' = [p EXCEPT !.max = m]
        /\ attempts' = 0 /\ previous' = 0 /\ tries' = 0
    BY <1>1, <2>3 DEF RetryNew
  <2>5. param' \in [min : Nat, max : 0 .. W - 1, jitter : Nat, attempts : 0 .. N - 1]
    BY <2>1, <2>2, <2>3, <2>4
  <2>6. 0 <= param'.max /\ 0 <= param'.attempts
    BY <2>1, <2>5
  <2> QED
    BY <2>1, <2>4, <2>5, <2>6 DEF RetryInv
<1>2. CASE RetryReset
  <2>1. 0 <= param.max /\ 0 <= param.attempts
    BY RetryAssumption DEF RetryInv
  <2> QED
    BY <1>2, <2>1 DEF RetryReset, RetryInv
<1>3. ASSUME NEW random \in 0 .. 2^Narrow - 1, Backoff(random) PROVE RetryInv'
  <2>1. random \in Nat
    BY RetryAssumption
  <2>2. previous' \in Nat /\ (param.jitter <= param.max => previous' <= param.max)
    BY <1>3, <2>1, WaitBounded DEF Backoff
  <2>3. PICK N \in Nat \ {0} : N = 2^Narrow
    BY RetryAssumption
  <2>4. PICK a \in Nat, t \in Nat, limit \in 0 .. N - 1 :
            a = attempts /\ t = tries /\ limit = param.attempts
    BY <2>3 DEF RetryInv
  <2>5. /\ UNCHANGED param /\ attempts' = (a + 1) % N
        /\ tries' = IF t < N THEN t + 1 ELSE t
        /\ ~(limit > 0 /\ a >= limit) /\ (limit > 0 => a = t /\ t <= limit)
    BY <1>3, <2>3, <2>4 DEF Backoff, IsExhausted, RetryInv
  <2>6. (a + 1) % N \in Nat
    BY <2>3, <2>4
  <2>7. ASSUME limit > 0 PROVE attempts' = tries' /\ tries' <= limit
    <3>1. a = t /\ t < limit /\ t < N /\ a + 1 \in 0 .. N - 1
      BY <2>3, <2>4, <2>5, <2>7
    <3>2. (a + 1) % N = a + 1
      BY <2>3, <3>1
    <3> QED
      BY <2>4, <2>5, <3>1, <3>2
  <2> QED
    BY <2>2, <2>4, <2>5, <2>6, <2>7 DEF RetryInv
<1>4. CASE UNCHANGED retryVars
  BY <1>4 DEF RetryInv, retryVars
<1> QED
  BY <1>1, <1>2, <1>3, <1>4 DEF RetryNext

\* Whatever the widths, the parameters and the random numbers, no wait is
\* longer than the maximum where the jitter is not, and a limited retry gives
\* up after exactly as many waits as it was allowed (calc_backoff_time,
\* is_exhausted).
THEOREM RetriesBounded == RetrySpec => []RetryBounded
<1>1. RetryInit => RetryInv
  <2>1. 0 \in 0 .. 2^Width - 1 /\ 0 \in 0 .. 2^Narrow - 1
    BY RetryAssumption
  <2> QED
    BY <2>1 DEF RetryInit, RetryInv, Unset
<1>2. RetryInv => RetryBounded
  <2> SUFFICES ASSUME RetryInv PROVE RetryBounded
    OBVIOUS
  <2>1. param.attempts \in Nat /\ attempts \in Nat /\ tries \in Nat
    BY RetryAssumption DEF RetryInv
  <2> QED
    BY <2>1 DEF RetryInv, RetryBounded, IsExhausted
<1> QED
  BY <1>1, <1>2, RetryStep, PTL DEF RetrySpec

(***************************************************************************)
(* Wdt: WdtNoticed, for any watchdogs, any periods and delays that are     *)
(* short of the clock's wrap-around.                                       *)
(***************************************************************************)
LEMMA MinOfNaturals ==
    ASSUME NEW S, S \subseteq Nat, S # {}
    PROVE  Min(S) \in S /\ \A y \in S : Min(S) <= y
<1> DEFINE less == {ss \in Nat \X Nat : ss[1] < ss[2]}
<1>1. IsWellFoundedOn(less, Nat)
  BY NatLessThanWellFounded DEF OpToRel
<1> HIDE DEF less
<1>2. PICK x \in S : \A y \in S : ~(<<y, x>> \in less)
  BY <1>1, WFMin
<1>3. ASSUME NEW y \in S PROVE x <= y
  <2>1. ~(y < x)
    BY <1>2 DEF less
  <2> QED
    BY <2>1
<1> QED
  BY <1>3 DEF Min

\* Remainders within one turn of the clock.
LEMMA OneTurn ==
    ASSUME NEW W \in Nat \ {0}, NEW x \in -W .. 2 * W - 1
    PROVE  x % W = IF x < 0 THEN x + W ELSE IF x < W THEN x ELSE x - W
  OBVIOUS

\* now - last_feed_ms of a watchdog fed a ago and a clock read d ago: a - d, or
\* nearly a whole turn for one that was fed since.
ElapsedIs(W, now, last, a, d) ==
    (now - last) % W = IF d <= a THEN a - d ELSE W + a - d

LEMMA Elapsed ==
    ASSUME NEW W \in Nat \ {0}, NEW now \in 0 .. W - 1, NEW last \in 0 .. W - 1,
           NEW a \in 0 .. W - 1, NEW d \in 0 .. W - 1,
           (last + a) % W = (now + d) % W
    PROVE  ElapsedIs(W, now, last, a, d)
<1>1. PICK x \in -W .. 2 * W - 1 : x = last + a
  OBVIOUS
<1>2. PICK y \in -W .. 2 * W - 1 : y = now + d
  OBVIOUS
<1>3. PICK z \in -W .. 2 * W - 1 : z = now - last
  OBVIOUS
<1>4. x % W = y % W /\ (now - last) % W = z % W
  BY <1>1, <1>2, <1>3
<1>5. /\ x % W = IF x < 0 THEN x + W ELSE IF x < W THEN x ELSE x - W
      /\ y % W = IF y < 0 THEN y + W ELSE IF y < W THEN y ELSE y - W
      /\ z % W = IF z < 0 THEN z + W ELSE IF z < W THEN z ELSE z - W
  BY OneTurn
<1>6. PICK u, v, r : u = x % W /\ v = y % W /\ r = z % W
  OBVIOUS
<1> QED
  BY <1>1, <1>2, <1>3, <1>4, <1>5, <1>6 DEF ElapsedIs

Bound(w) == Max({Period[w], BaseMin}) + 2 * MaxLag

\* How long the thread may take before it scans again.
Remaining == (IF task.pc = "sleep" THEN task.sleep ELSE 0) + (MaxLag - task.lag)

\* While nothing was reported: the thread sleeps no longer than lm_wdt_init
\* asked for and is late only once awake, its reading of the clock is as old as
\* its lag at most, and a watchdog has time left for as long as it may take.
Watched ==
    /\ task.pc = "sleep" => task.sleep <= BaseMin /\ (task.sleep > 0 => task.lag = 0)
    /\ task.pc = "scan" => \E d \in 0 .. task.lag : ms = (task.now + d) % 2^WdtWidth
    /\ \A w \in Wdts : age[w] <= Bound(w)
    /\ \A w \in Wdts : wdt[w].enabled =>
          /\ ms = (wdt[w].last + age[w]) % 2^WdtWidth
          /\ age[w] + Remaining <= Bound(w)

WdtTypes ==
    /\ ms \in 0 .. 2^WdtWidth - 1
    /\ wdt \in [Wdts -> [enabled : BOOLEAN, last : 0 .. 2^WdtWidth - 1]]
    /\ list \in Seq(Wdts)
    /\ minPeriod \in 0 .. BaseMin
    /\ task \in [pc : {"sleep", "scan", "report"}, now : 0 .. 2^WdtWidth - 1,
                 sleep : Nat, lag : 0 .. MaxLag, victim : SUBSET Wdts]
    /\ age \in [Wdts -> Nat]

WdtInv ==
    /\ WdtTypes
    /\ task.pc = "report" => task.victim # {}
    /\ \A w \in Wdts : wdt[w].enabled => \E i \in DOMAIN list : list[i] = w
    /\ alarms = {} => Watched

LEMMA BoundFacts ==
    ASSUME NEW w \in Wdts
    PROVE  /\ Bound(w) \in Nat /\ Bound(w) < 2^WdtWidth
           /\ Period[w] + 2 * MaxLag <= Bound(w)
           /\ BaseMin + 2 * MaxLag <= Bound(w)
<1>1. PICK p \in Nat, b \in Nat : p = Period[w] /\ b = BaseMin
  BY WdtAssumption
<1>2. PICK m \in Nat : m \in {p, b} /\ p <= m /\ b <= m
  BY <1>1
<1>3. Max({p, b}) = m
  <2>1. \A y \in {p, b} : (\A z \in {p, b} : z <= y) => y = m
    BY <1>1, <1>2
  <2>2. \A z \in {p, b} : z <= m
    BY <1>2
  <2> QED
    BY <1>2, <2>1, <2>2 DEF Max
<1> QED
  BY <1>1, <1>2, <1>3, WdtAssumption DEF Bound

LEMMA WatchdogsInit == WdtInit => WdtInv
<1> SUFFICES ASSUME WdtInit PROVE WdtInv
  OBVIOUS
<1>1. 0 \in 0 .. 2^WdtWidth - 1 /\ 0 \in 0 .. MaxLag /\ BaseMin \in 0 .. BaseMin
  BY WdtAssumption
<1>2. WdtTypes
  BY <1>1 DEF WdtInit, WdtTypes
<1>3. \A w \in Wdts : 0 <= Bound(w)
  BY BoundFacts
<1> QED
  BY <1>1, <1>2, <1>3, WdtAssumption DEF WdtInit, WdtInv, Watched

LEMMA Quotient == \A x \in Int, n \in Int : n > 0 => x = n * (x \div n) + (x % n)
  BY Z3

LEMMA OneRemainder ==
    ASSUME NEW W \in Nat \ {0}, NEW q \in Int, NEW r \in 0 .. W - 1
    PROVE  (q * W + r) % W = r
  OBVIOUS

\* The clock and a watchdog's age go on together.
LEMMA ClockGoesOn ==
    ASSUME NEW W \in Nat \ {0}, NEW a \in Nat, NEW b \in Nat
    PROVE  (((a + b) % W) + 1) % W = (a + (b + 1)) % W
<1>1. PICK x \in Nat : x = a + b
  OBVIOUS
<1>2. ((x % W) + 1) % W = (x + 1) % W
  <2>1. PICK q \in Int, r \in 0 .. W - 1 : x = q * W + r /\ x % W = r
    <3>1. x \div W \in Int /\ x % W \in 0 .. W - 1
      OBVIOUS
    <3>2. x = W * (x \div W) + (x % W)
      BY Quotient
    <3>3. PICK q \in Int, r \in 0 .. W - 1 : q = x \div W /\ r = x % W
      BY <3>1
    <3>4. x = q * W + r
      BY <3>2, <3>3
    <3> QED
      BY <3>3, <3>4
  <2>2. CASE r + 1 < W
    <3>1. x + 1 = q * W + (r + 1) /\ r + 1 \in 0 .. W - 1
      BY <2>1, <2>2
    <3> QED
      BY <2>1, <3>1, OneRemainder
  <2>3. CASE r + 1 = W
    <3>1. x + 1 = (q + 1) * W + 0 /\ q + 1 \in Int /\ 0 \in 0 .. W - 1
      BY <2>1, <2>3
    <3>2. W % W = 0
      OBVIOUS
    <3> QED
      BY <2>1, <2>3, <3>1, <3>2, OneRemainder
  <2> QED
    BY <2>1, <2>2, <2>3
<1> QED
  BY <1>1, <1>2

LEMMA TickWatched == ASSUME WdtInv, WdtTick PROVE WdtInv'
<1>1. PICK W \in Nat \ {0} : W = 2^WdtWidth
  BY WdtAssumption
<1>2. /\ ms \in 0 .. W - 1 /\ ms' = (ms + 1) % W
      /\ alarms = {} /\ Watched
      /\ UNCHANGED <<wdt, list, minPeriod, alarms>>
      /\ age' = [w \in Wdts |-> IF wdt[w].enabled THEN age[w] + 1 ELSE 0]
  BY <1>1 DEF WdtInv, WdtTypes, WdtTick
<1>3. ms' \in 0 .. W - 1
  BY <1>1, <1>2
<1>4. PICK tk \in [pc : {"sleep", "scan", "report"}, now : 0 .. W - 1,
                   sleep : Nat, lag : 0 .. MaxLag, victim : SUBSET Wdts] :
        /\ tk = task
        /\ \/ /\ tk.pc = "sleep" /\ tk.sleep > 0
              /\ task' = [tk EXCEPT !.sleep = tk.sleep - 1]
           \/ /\ ~(tk.pc = "sleep" /\ tk.sleep > 0) /\ tk.lag < MaxLag
              /\ task' = [tk EXCEPT !.lag = tk.lag + 1]
  BY <1>1 DEF WdtInv, WdtTypes, WdtTick
<1>5. /\ task' \in [pc : {"sleep", "scan", "report"}, now : 0 .. W - 1,
                    sleep : Nat, lag : 0 .. MaxLag, victim : SUBSET Wdts]
      /\ task'.pc = tk.pc /\ task'.now = tk.now /\ task'.victim = tk.victim
      /\ (tk.pc = "sleep" => task'.sleep <= tk.sleep)
      /\ tk.lag <= task'.lag
      /\ (tk.pc # "sleep" => task'.lag = tk.lag + 1)
      /\ (tk.pc = "sleep" => \/ task'.sleep = tk.sleep - 1 /\ task'.lag = tk.lag
                             \/ task'.sleep = 0 /\ tk.sleep = 0 /\ task'.lag = tk.lag + 1)
  <2>1. MaxLag \in Nat
    BY WdtAssumption
  <2>2. CASE tk.pc = "sleep" /\ tk.sleep > 0 /\ task' = [tk EXCEPT !.sleep = tk.sleep - 1]
    BY <1>4, <2>1, <2>2
  <2>3. CASE ~(tk.pc = "sleep" /\ tk.sleep > 0) /\ tk.lag < MaxLag /\ task' = [tk EXCEPT !.lag = tk.lag + 1]
    <3>1. tk.lag + 1 \in 0 .. MaxLag /\ tk.lag <= tk.lag + 1
      BY <1>4, <2>1, <2>3
    <3> QED
      BY <1>4, <2>1, <2>3, <3>1
  <2> QED
    BY <1>4, <2>2, <2>3
<1>6. WdtTypes'
  <2>1. \A w \in Wdts : age[w] \in Nat
    BY DEF WdtInv, WdtTypes
  <2>2. \A w \in Wdts : (IF wdt[w].enabled THEN age[w] + 1 ELSE 0) \in Nat
    BY <2>1
  <2>3. age' \in [Wdts -> Nat]
    BY <1>2, <2>2
  <2> QED
    BY <1>1, <1>2, <1>3, <1>5, <2>3 DEF WdtInv, WdtTypes
<1>7. Watched'
  <2>1. task'.pc = "sleep" => task'.sleep <= BaseMin /\ (task'.sleep > 0 => task'.lag = 0)
    BY <1>2, <1>4, <1>5, WdtAssumption DEF Watched
  <2>2. ASSUME task'.pc = "scan"
        PROVE  \E d \in 0 .. task'.lag : ms' = (task'.now + d) % W
    <3>1. PICK d \in 0 .. tk.lag : ms = (tk.now + d) % W
      BY <1>1, <1>2, <1>4, <1>5, <2>2 DEF Watched
    <3>2. tk.now \in Nat /\ d \in Nat /\ d + 1 \in 0 .. task'.lag
      BY <1>1, <1>4, <1>5, <2>2, <3>1
    <3>3. ms' = (tk.now + (d + 1)) % W
      BY <1>2, <3>1, <3>2, ClockGoesOn
    <3> QED
      BY <1>5, <3>2, <3>3
  <2>3. Remaining' = Remaining - 1 /\ Remaining' \in Nat
    BY <1>4, <1>5, WdtAssumption DEF Remaining
  <2>4. ASSUME NEW w \in Wdts, wdt[w].enabled
        PROVE  /\ ms' = (wdt[w].last + age'[w]) % W
               /\ age'[w] + Remaining' <= Bound(w)
               /\ age'[w] <= Bound(w)
    <3>1. PICK a \in Nat, l \in 0 .. W - 1 : a = age[w] /\ l = wdt[w].last
      BY <1>1 DEF WdtInv, WdtTypes
    <3>2. ms = (l + a) % W /\ a + Remaining <= Bound(w) /\ age'[w] = a + 1
      BY <1>1, <1>2, <2>4, <3>1 DEF Watched
    <3>3. ms' = (l + (a + 1)) % W
      <4>1. l \in Nat
        BY <1>1, <3>1
      <4> QED
        BY <1>2, <3>1, <3>2, <4>1, ClockGoesOn
    <3>4. PICK r \in Int, b \in Nat : r = Remaining /\ b = Bound(w) /\ r - 1 \in Nat
      BY <2>3, BoundFacts, <1>4, WdtAssumption DEF Remaining
    <3> QED
      BY <2>3, <3>1, <3>2, <3>3, <3>4
  <2>5. ASSUME NEW w \in Wdts PROVE age'[w] <= Bound(w)
    BY <1>2, <2>4, BoundFacts
  <2> QED
    BY <1>1, <1>2, <2>1, <2>2, <2>4, <2>5 DEF Watched, Bound
<1> QED
  BY <1>2, <1>4, <1>5, <1>6, <1>7 DEF WdtInv

LEMMA RoomLeft ==
    ASSUME NEW L \in Nat, NEW B \in Nat, NEW l \in 0 .. L, NEW s \in Nat
    PROVE  /\ s + (L - l) \in Nat /\ 0 + (L - l) \in Nat /\ 0 + (L - l) <= B + L
           /\ s <= B => s + (L - l) <= B + L
  OBVIOUS

\* A step that leaves the clock, the thread and the alarms alone, and no
\* watchdog's age but those it sets to 0.
LEMMA CallsWatched ==
    ASSUME WdtInv, UNCHANGED <<ms, task, alarms>>,
           age' \in [Wdts -> Nat], wdt' \in [Wdts -> [enabled : BOOLEAN, last : 0 .. 2^WdtWidth - 1]],
           list' \in Seq(Wdts), minPeriod' \in 0 .. BaseMin,
           \A w \in Wdts : wdt'[w].enabled => \E i \in DOMAIN list' : list'[i] = w,
           \A w \in Wdts : age'[w] = 0 \/ age'[w] = age[w],
           \A w \in Wdts : wdt'[w].enabled =>
                \/ age'[w] = 0 /\ wdt'[w].last = ms
                \/ age'[w] = age[w] /\ wdt'[w] = wdt[w]
    PROVE  WdtInv'
<1>1. WdtTypes'
  BY DEF WdtInv, WdtTypes
<1>2. PICK W \in Nat \ {0}, L \in Nat, B \in Nat : W = 2^WdtWidth /\ L = MaxLag /\ B = BaseMin
  BY WdtAssumption
<1>3. Remaining' = Remaining
  BY DEF Remaining
<1>4. ASSUME alarms = {} PROVE Watched'
  <2>1. Watched
    BY <1>4 DEF WdtInv
  <2>2. ASSUME NEW w \in Wdts PROVE age'[w] <= Bound(w)
    <3>1. age[w] <= Bound(w) /\ Bound(w) \in Nat
      BY <2>1, BoundFacts DEF Watched
    <3>2. 0 <= Bound(w)
      BY <3>1
    <3> QED
      BY <3>1, <3>2
  <2>3. ASSUME NEW w \in Wdts, wdt'[w].enabled
        PROVE  ms = (wdt'[w].last + age'[w]) % W /\ age'[w] + Remaining <= Bound(w)
    <3>1. CASE age'[w] = age[w] /\ wdt'[w] = wdt[w]
      BY <1>2, <2>1, <2>3, <3>1 DEF Watched
    <3>2. CASE age'[w] = 0 /\ wdt'[w].last = ms
      <4>1. ms \in 0 .. W - 1
        BY <1>2 DEF WdtInv, WdtTypes
      <4>2. ms = (ms + 0) % W
        <5>1. PICK c \in -W .. 2 * W - 1 : c = ms /\ 0 <= c /\ c < W /\ ms + 0 = c
          BY <1>2, <4>1
        <5>2. c % W = c
          BY <1>2, <5>1, OneTurn
        <5> QED
          BY <5>1, <5>2
      <4>3. PICK b \in Nat : b = Bound(w) /\ B + 2 * L <= b
        BY <1>2, BoundFacts
      <4>4. PICK r \in Nat : r = Remaining /\ r <= B + L
        <5>1. task.lag \in 0 .. L /\ task.sleep \in Nat /\ (task.pc = "sleep" => task.sleep <= B)
          BY <1>2, <2>1 DEF WdtInv, WdtTypes, Watched
        <5>2. PICK l \in 0 .. L, s \in Nat : l = task.lag /\ s = task.sleep
          BY <5>1
        <5>3. Remaining = (IF task.pc = "sleep" THEN s ELSE 0) + (L - l)
          BY <1>2, <5>2 DEF Remaining
        <5>4. s + (L - l) \in Nat /\ 0 + (L - l) \in Nat /\ 0 + (L - l) <= B + L
          BY <1>2, <5>2, RoomLeft
        <5>5. task.pc = "sleep" => s + (L - l) <= B + L
          BY <1>2, <5>1, <5>2, RoomLeft
        <5> QED
          BY <5>3, <5>4, <5>5
      <4>5. 0 + r <= b
        BY <1>2, <4>3, <4>4
      <4> QED
        BY <3>2, <4>2, <4>3, <4>4, <4>5
    <3> QED
      BY <2>3, <3>1, <3>2
  <2> QED
    BY <1>2, <1>3, <2>1, <2>2, <2>3 DEF Watched, Bound
<1> QED
  BY <1>1, <1>4 DEF WdtInv

\* list_del
LEMMA WithoutOne ==
    ASSUME NEW S, NEW s \in Seq(S), NEW i \in 1 .. Len(s)
    PROVE  /\ RemoveAt(s, i) \in Seq(S) /\ Len(RemoveAt(s, i)) = Len(s) - 1
           /\ \A k \in 1 .. Len(s) - 1 :
                RemoveAt(s, i)[k] = IF k < i THEN s[k] ELSE s[k + 1]
<1> DEFINE before == SubSeq(s, 1, i - 1)
           after == SubSeq(s, i + 1, Len(s))
           t == RemoveAt(s, i)
<1>0. PICK n \in Nat : n = Len(s)
  OBVIOUS
<1> DEFINE d == n - i
<1>1. /\ Len(s) = n /\ i \in Nat /\ 1 <= i /\ i <= n /\ d \in Nat
      /\ DOMAIN s = 1 .. n
  BY <1>0
<1>2. /\ before \in Seq(S) /\ Len(before) = i - 1
      /\ \A k \in 1 .. i - 1 : before[k] = s[k]
  BY <1>1
<1>3. /\ after \in Seq(S) /\ Len(after) = d
      /\ \A k \in 1 .. d : after[k] = s[i + k]
  <2>1. i + 1 \in Int /\ Len(s) \in Int /\ \A k \in i + 1 .. Len(s) : s[k] \in S
    BY <1>1
  <2>2. /\ after \in Seq(S)
        /\ Len(after) = IF i + 1 <= n THEN n - (i + 1) + 1 ELSE 0
        /\ \A k \in 1 .. n - (i + 1) + 1 : after[k] = s[(i + 1) + k - 1]
    BY <1>0, <2>1, SubSeqProperties
  <2> HIDE DEF after
  <2>3. Len(after) = d
    <3>1. d = IF i + 1 <= n THEN n - (i + 1) + 1 ELSE 0
      BY <1>1
    <3> QED
      BY <2>2, <3>1
  <2>4. ASSUME NEW k \in 1 .. d PROVE after[k] = s[i + k]
    <3>1. k \in 1 .. n - (i + 1) + 1 /\ (i + 1) + k - 1 = i + k
      BY <1>1
    <3> QED
      BY <2>2, <3>1
  <2> QED
    BY <2>2, <2>3, <2>4
<1>4. t = before \o after
  BY DEF RemoveAt
<1> HIDE DEF before, after, t
<1>5. /\ t \in Seq(S) /\ Len(t) = Len(before) + Len(after)
      /\ \A k \in 1 .. Len(before) + Len(after) :
            t[k] = IF k <= Len(before) THEN before[k] ELSE after[k - Len(before)]
  BY <1>2, <1>3, <1>4, ConcatProperties
<1>6. /\ t \in Seq(S) /\ Len(t) = Len(s) - 1 /\ DOMAIN t = 1 .. Len(s) - 1
  <2>1. Len(before) + Len(after) = Len(s) - 1
    BY <1>1, <1>2, <1>3
  <2> QED
    BY <1>5, <2>1
<1>7. ASSUME NEW k \in 1 .. Len(s) - 1
      PROVE  t[k] = IF k < i THEN s[k] ELSE s[k + 1]
  <2>0. /\ k \in 1 .. Len(before) + Len(after)
        /\ k <= Len(before) <=> k < i
    BY <1>1, <1>2, <1>3
  <2>1. CASE k < i
    <3>1. t[k] = before[k]
      BY <1>5, <2>0, <2>1
    <3>2. k \in 1 .. i - 1
      BY <1>1, <2>1
    <3> QED
      BY <1>2, <2>1, <3>1, <3>2
  <2>2. CASE ~(k < i)
    <3>1. t[k] = after[k - (i - 1)]
      BY <1>2, <1>5, <2>0, <2>2
    <3>2. k - (i - 1) \in 1 .. d /\ i + (k - (i - 1)) = k + 1
      BY <1>1, <2>2
    <3> QED
      BY <1>3, <2>2, <3>1, <3>2
  <2> QED
    BY <2>1, <2>2
<1> QED
  BY <1>6, <1>7 DEF t

LEMMA ListWatched ==
    ASSUME WdtInv, NEW w \in Wdts, WdtNew(w) \/ Delete(w)
    PROVE  WdtInv'
<1> USE DEF WdtTypes
<1>1. PICK W \in Nat \ {0} : W = 2^WdtWidth /\ 0 \in 0 .. W - 1
  BY WdtAssumption
<1>2. /\ list \in Seq(Wdts) /\ minPeriod \in 0 .. BaseMin /\ age \in [Wdts -> Nat]
      /\ wdt \in [Wdts -> [enabled : BOOLEAN, last : 0 .. W - 1]]
      /\ \A v \in Wdts : wdt[v].enabled => \E i \in DOMAIN list : list[i] = v
  BY <1>1 DEF WdtInv
<1>3. CASE WdtNew(w)
  <2>1. /\ list' = <<w>> \o list /\ minPeriod' = Min({minPeriod, Period[w]})
        /\ wdt' = [wdt EXCEPT ![w] = [enabled |-> FALSE, last |-> 0]]
        /\ UNCHANGED <<ms, task, age, alarms>>
    BY <1>3 DEF WdtNew
  <2>2. minPeriod' \in 0 .. BaseMin
    <3>1. {minPeriod, Period[w]} \subseteq Nat /\ minPeriod \in {minPeriod, Period[w]}
      BY <1>2, WdtAssumption
    <3>2. /\ Min({minPeriod, Period[w]}) \in {minPeriod, Period[w]}
          /\ Min({minPeriod, Period[w]}) <= minPeriod
      BY <3>1, MinOfNaturals
    <3> QED
      BY <1>2, <2>1, <3>1, <3>2, WdtAssumption
  <2>3. /\ list' \in Seq(Wdts) /\ Len(list') = Len(list) + 1
        /\ \A i \in 1 .. Len(list) : list'[i + 1] = list[i]
    <3>1. <<w>> \in Seq(Wdts) /\ Len(<<w>>) = 1 /\ Len(list) \in Nat
      BY <1>2
    <3>2. /\ list' \in Seq(Wdts) /\ Len(list') = 1 + Len(list)
          /\ \A i \in 1 .. 1 + Len(list) : list'[i] = IF i <= 1 THEN <<w>>[i] ELSE list[i - 1]
      BY <1>2, <2>1, <3>1, ConcatProperties
    <3>3. ASSUME NEW i \in 1 .. Len(list) PROVE list'[i + 1] = list[i]
      <4>1. i + 1 \in 1 .. 1 + Len(list) /\ ~(i + 1 <= 1) /\ (i + 1) - 1 = i
        BY <3>1
      <4> QED
        BY <3>2, <4>1
    <3> QED
      BY <3>1, <3>2, <3>3
  <2>4. ASSUME NEW v \in Wdts, wdt'[v].enabled PROVE \E i \in DOMAIN list' : list'[i] = v
    <3>1. PICK i \in DOMAIN list : list[i] = v
      BY <1>2, <2>1, <2>4
    <3>2. i \in 1 .. Len(list) /\ Len(list) \in Nat
      BY <1>2, <3>1
    <3>3. i + 1 \in DOMAIN list' /\ list'[i + 1] = v
      BY <2>3, <3>1, <3>2
    <3> QED
      BY <3>3
  <2>5. /\ wdt' \in [Wdts -> [enabled : BOOLEAN, last : 0 .. W - 1]]
        /\ \A v \in Wdts : wdt'[v].enabled => wdt'[v] = wdt[v]
    BY <1>1, <1>2, <2>1
  <2> QED
    BY <1>1, <1>2, <2>1, <2>2, <2>3, <2>4, <2>5, CallsWatched
<1>4. CASE Delete(w)
  <2>1. PICK k \in DOMAIN list : list[k] = w /\ list' = RemoveAt(list, k)
    BY <1>4 DEF Delete
  <2>2. /\ wdt' = [wdt EXCEPT ![w].enabled = FALSE]
        /\ UNCHANGED <<ms, minPeriod, task, age, alarms>>
    BY <1>4 DEF Delete
  <2>3. PICK n \in Nat : n = Len(list) /\ k \in 1 .. n
    <3>1. Len(list) \in Nat /\ DOMAIN list = 1 .. Len(list)
      BY <1>2
    <3> QED
      BY <2>1, <3>1
  <2>4. /\ list' \in Seq(Wdts) /\ Len(list') = n - 1
        /\ \A i \in 1 .. n - 1 : list'[i] = IF i < k THEN list[i] ELSE list[i + 1]
    BY <1>2, <2>1, <2>3, WithoutOne
  <2>5. ASSUME NEW v \in Wdts, wdt'[v].enabled PROVE \E i \in DOMAIN list' : list'[i] = v
    <3>1. v # w /\ wdt[v].enabled
      BY <1>2, <2>2, <2>5
    <3>2. PICK i \in DOMAIN list : list[i] = v
      BY <1>2, <3>1
    <3>3. i \in 1 .. n /\ i # k
      BY <1>2, <2>1, <2>3, <3>1, <3>2
    <3>4. CASE i < k
      BY <2>3, <2>4, <3>2, <3>3, <3>4
    <3>5. CASE i > k
      <4>1. i - 1 \in 1 .. n - 1 /\ ~(i - 1 < k) /\ (i - 1) + 1 = i
        BY <2>3, <3>3, <3>5
      <4>2. list'[i - 1] = v
        BY <2>4, <3>2, <4>1
      <4> QED
        BY <2>4, <4>1, <4>2
    <3> QED
      BY <2>3, <3>3, <3>4, <3>5
  <2>6. /\ wdt' \in [Wdts -> [enabled : BOOLEAN, last : 0 .. W - 1]]
        /\ \A v \in Wdts : wdt'[v].enabled => wdt'[v] = wdt[v]
    BY <1>1, <1>2, <2>2
  <2> QED
    BY <1>1, <1>2, <2>2, <2>4, <2>5, <2>6, CallsWatched
<1> QED
  BY <1>3, <1>4

LEMMA FedWatched ==
    ASSUME WdtInv, NEW w \in Wdts, Enable(w) \/ Disable(w) \/ Feed(w)
    PROVE  WdtInv'
<1> USE DEF WdtTypes
<1>1. PICK W \in Nat \ {0} : W = 2^WdtWidth
  BY WdtAssumption
<1>2. /\ list \in Seq(Wdts) /\ minPeriod \in 0 .. BaseMin /\ age \in [Wdts -> Nat]
      /\ ms \in 0 .. W - 1
      /\ wdt \in [Wdts -> [enabled : BOOLEAN, last : 0 .. W - 1]]
      /\ \A v \in Wdts : wdt[v].enabled => \E i \in DOMAIN list : list[i] = v
  BY <1>1 DEF WdtInv
<1>3. /\ UNCHANGED <<ms, list, minPeriod, task, alarms>>
      /\ w \in Range(list)
      /\ \/ /\ wdt' = [wdt EXCEPT ![w] = [enabled |-> TRUE, last |-> ms]]
            /\ age' = [age EXCEPT ![w] = 0]
         \/ /\ wdt' = [wdt EXCEPT ![w].enabled = FALSE]
            /\ age' = age
         \/ /\ wdt' = [wdt EXCEPT ![w].last = ms]
            /\ age' = [age EXCEPT ![w] = 0]
  BY DEF Enable, Disable, Feed
<1>4. \E i \in DOMAIN list : list[i] = w
  BY <1>3 DEF Range
<1>5. /\ wdt' \in [Wdts -> [enabled : BOOLEAN, last : 0 .. W - 1]]
      /\ age' \in [Wdts -> Nat]
  <2>1. CASE age' = age /\ wdt' = [wdt EXCEPT ![w].enabled = FALSE]
    BY <1>2, <2>1
  <2>2. CASE age' = [age EXCEPT ![w] = 0] /\ wdt' = [wdt EXCEPT ![w].last = ms]
    BY <1>2, <2>2
  <2>3. CASE /\ age' = [age EXCEPT ![w] = 0]
             /\ wdt' = [wdt EXCEPT ![w] = [enabled |-> TRUE, last |-> ms]]
    BY <1>2, <2>3
  <2> QED
    BY <1>3, <2>1, <2>2, <2>3
<1>6. \A v \in Wdts \ {w} : wdt'[v] = wdt[v] /\ age'[v] = age[v]
  BY <1>2, <1>3
<1>7. /\ age'[w] = 0 \/ age'[w] = age[w]
      /\ wdt'[w].enabled => age'[w] = 0 /\ wdt'[w].last = ms
  BY <1>2, <1>3
<1>8. \A v \in Wdts : wdt'[v].enabled => \E i \in DOMAIN list' : list'[i] = v
  BY <1>2, <1>3, <1>4, <1>6
<1>9. /\ \A v \in Wdts : age'[v] = 0 \/ age'[v] = age[v]
      /\ \A v \in Wdts : wdt'[v].enabled =>
            \/ age'[v] = 0 /\ wdt'[v].last = ms
            \/ age'[v] = age[v] /\ wdt'[v] = wdt[v]
  BY <1>6, <1>7
<1> QED
  BY <1>1, <1>2, <1>3, <1>5, <1>8, <1>9, CallsWatched

LEMMA WakeWatched == ASSUME WdtInv, Wake PROVE WdtInv'
<1>1. PICK W \in Nat \ {0} : W = 2^WdtWidth
  BY WdtAssumption
<1>2. /\ task' = [task EXCEPT !.pc = "scan", !.now = ms]
      /\ task.pc = "sleep" /\ task.sleep = 0
      /\ UNCHANGED <<ms, wdt, list, minPeriod, age, alarms>>
  BY DEF Wake
<1>3. /\ task \in [pc : {"sleep", "scan", "report"}, now : 0 .. W - 1,
                   sleep : Nat, lag : 0 .. MaxLag, victim : SUBSET Wdts]
      /\ ms \in 0 .. W - 1
  BY <1>1 DEF WdtInv, WdtTypes
<1>4. /\ task' \in [pc : {"sleep", "scan", "report"}, now : 0 .. W - 1,
                    sleep : Nat, lag : 0 .. MaxLag, victim : SUBSET Wdts]
      /\ task'.pc = "scan" /\ task'.now = ms /\ task'.lag = task.lag
  BY <1>2, <1>3
<1>5. WdtTypes'
  BY <1>1, <1>2, <1>4 DEF WdtInv, WdtTypes
<1>6. ASSUME Watched PROVE Watched'
  <2>1. Remaining' = Remaining
    BY <1>2, <1>4 DEF Remaining
  <2>2. 0 \in 0 .. task'.lag /\ ms = (ms + 0) % W
    <3>1. PICK c \in -W .. 2 * W - 1 : c = ms /\ 0 <= c /\ c < W /\ ms + 0 = c
      BY <1>1, <1>3
    <3>2. c % W = c
      BY <1>1, <3>1, OneTurn
    <3>3. 0 \in 0 .. task'.lag
      BY <1>3, <1>4, WdtAssumption
    <3> QED
      BY <3>1, <3>2, <3>3
  <2>3. \E d \in 0 .. task'.lag : ms' = (task'.now + d) % W
    BY <1>2, <1>4, <2>2
  <2> QED
    BY <1>1, <1>2, <1>4, <1>6, <2>1, <2>3 DEF Watched, Bound
<1> QED
  BY <1>2, <1>4, <1>5, <1>6 DEF WdtInv

LEMMA ReportWatched == ASSUME WdtInv, Report PROVE WdtInv'
<1>1. /\ task' = [task EXCEPT !.pc = "sleep", !.lag = 0, !.victim = {}]
      /\ alarms' = alarms \cup task.victim /\ task.pc = "report"
      /\ UNCHANGED <<ms, wdt, list, minPeriod, age>>
  BY DEF Report
<1>2. alarms' # {}
  BY <1>1 DEF WdtInv
<1>3. 0 \in 0 .. MaxLag /\ {} \in SUBSET Wdts
  BY WdtAssumption
<1>4. WdtTypes' /\ task'.pc = "sleep"
  BY <1>1, <1>3 DEF WdtInv, WdtTypes
<1> QED
  BY <1>1, <1>2, <1>4 DEF WdtInv

LEMMA UntilDeadline ==
    ASSUME WdtTypes, NEW w \in Wdts, NEW now \in 0 .. 2^WdtWidth - 1
    PROVE  TimeUntilDeadline(w, now) \in Nat
<1>1. PICK W \in Nat \ {0} : W = 2^WdtWidth
  BY WdtAssumption
<1>2. PICK l \in 0 .. W - 1, p \in Nat, n \in 0 .. W - 1 :
        l = wdt[w].last /\ p = Period[w] /\ n = now
  BY <1>1, WdtAssumption DEF WdtTypes
<1>3. PICK e \in Nat : e = (n - l) % W
  BY <1>1, <1>2
<1>4. TimeUntilDeadline(w, now) = IF e > p THEN 0 ELSE p - e
  BY <1>1, <1>2, <1>3 DEF TimeUntilDeadline
<1> QED
  BY <1>2, <1>3, <1>4

\* The least of min_period_ms and what the watchdogs have left.
LEMMA DeadlineFacts ==
    ASSUME WdtTypes, NEW seen, Range(seen) \subseteq Wdts
    PROVE  /\ NextDeadline(seen) \in Nat /\ NextDeadline(seen) <= minPeriod
           /\ \A w \in Range(seen) : wdt[w].enabled =>
                  NextDeadline(seen) <= TimeUntilDeadline(w, task.now)
<1>1. PICK left :
        left = {TimeUntilDeadline(w, task.now) : w \in {v \in Range(seen) : wdt[v].enabled}}
  OBVIOUS
<1>2. task.now \in 0 .. 2^WdtWidth - 1 /\ minPeriod \in Nat
  BY WdtAssumption DEF WdtTypes
<1>3. left \subseteq Nat
  BY <1>1, <1>2, UntilDeadline
<1>4. PICK S : S = {minPeriod} \cup left
  OBVIOUS
<1>5. S \subseteq Nat /\ S # {}
  BY <1>2, <1>3, <1>4
<1>6. Min(S) \in S /\ \A y \in S : Min(S) <= y
  BY <1>5, MinOfNaturals
<1>7. NextDeadline(seen) = Min(S)
  BY <1>1, <1>4 DEF NextDeadline
<1> QED
  BY <1>1, <1>4, <1>5, <1>6, <1>7

\* A watchdog the scan did not find timed out has been waiting for no longer
\* than its period and the thread's delay, with what is left of its period.
LEMMA LeftOver ==
    ASSUME NEW W \in Nat \ {0}, NEW L \in Nat, NEW p \in Nat, NEW b \in Nat,
           NEW a \in Nat, NEW d \in 0 .. L, NEW e \in Int,
           p + 2 * L <= b, b < W, a <= b, e = (IF d <= a THEN a - d ELSE W + a - d),
           NEW left \in Nat, NEW s \in Nat, s <= left, left # 0,
           left = (IF e > p THEN 0 ELSE p - e)
    PROVE  a + (s + (L - 0)) <= b
<1>1. d <= a
  OBVIOUS
<1> QED
  BY <1>1

LEMMA ScanWatched == ASSUME WdtInv, Scan PROVE WdtInv'
<1>1. PICK W \in Nat \ {0} : W = 2^WdtWidth
  BY WdtAssumption
<1>2. PICK out : out = {i \in DOMAIN list : IsTimedout(list[i], task.now)}
  OBVIOUS
<1>3. PICK seen : seen = IF out = {} THEN list ELSE SubSeq(list, 1, Min(out) - 1)
  OBVIOUS
<1>4. PICK s : s = NextDeadline(seen)
  OBVIOUS
<1>5. /\ task.pc = "scan"
      /\ task' = IF out = {}
            THEN [task EXCEPT !.pc = "sleep", !.sleep = s, !.lag = 0]
            ELSE [task EXCEPT !.pc = "report", !.sleep = s, !.victim = {list[Min(out)]}]
      /\ UNCHANGED <<ms, wdt, list, minPeriod, age, alarms>>
  BY <1>2, <1>3, <1>4 DEF Scan
<1>6. /\ WdtTypes /\ list \in Seq(Wdts) /\ task.lag \in 0 .. MaxLag
      /\ task \in [pc : {"sleep", "scan", "report"}, now : 0 .. W - 1,
                   sleep : Nat, lag : 0 .. MaxLag, victim : SUBSET Wdts]
  BY <1>1 DEF WdtInv, WdtTypes
<1>7. DOMAIN list = 1 .. Len(list) /\ Len(list) \in Nat
  BY <1>6
<1>8. ASSUME out # {} PROVE Min(out) \in 1 .. Len(list) /\ list[Min(out)] \in Wdts
  <2>1. out \subseteq Nat /\ out \subseteq 1 .. Len(list)
    BY <1>2, <1>7
  <2>2. Min(out) \in out
    BY <1>8, <2>1, MinOfNaturals
  <2>3. \A i \in 1 .. Len(list) : list[i] \in Wdts
    BY <1>6
  <2> QED
    BY <2>1, <2>2, <2>3, Zenon
<1>9. Range(seen) \subseteq Wdts
  <2>1. CASE out = {}
    BY <1>3, <1>6, <2>1 DEF Range
  <2>2. CASE out # {}
    <3>1. PICK k \in 1 .. Len(list) : k = Min(out)
      BY <1>8, <2>2
    <3>2. 1 \in Int /\ k - 1 \in Int /\ \A i \in 1 .. k - 1 : list[i] \in Wdts
      BY <1>6, <1>7, <3>1
    <3>3. SubSeq(list, 1, k - 1) \in Seq(Wdts)
      BY <3>2, SubSeqProperties
    <3> QED
      BY <1>3, <2>2, <3>1, <3>3 DEF Range
  <2> QED
    BY <2>1, <2>2
<1>10. /\ s \in Nat /\ s <= minPeriod
       /\ \A w \in Range(seen) : wdt[w].enabled => s <= TimeUntilDeadline(w, task.now)
  BY <1>4, <1>6, <1>9, DeadlineFacts
<1>11. 0 \in 0 .. MaxLag /\ MaxLag \in Nat /\ BaseMin \in Nat
  BY WdtAssumption
<1>12. CASE out # {}
  <2>1. /\ task' \in [pc : {"sleep", "scan", "report"}, now : 0 .. W - 1,
                      sleep : Nat, lag : 0 .. MaxLag, victim : SUBSET Wdts]
        /\ task'.pc = "report" /\ task'.victim # {} /\ task'.lag = task.lag
    BY <1>5, <1>6, <1>8, <1>10, <1>12
  <2>2. WdtTypes'
    BY <1>1, <1>5, <1>6, <2>1 DEF WdtTypes
  <2>3. Remaining' = Remaining
    BY <1>5, <2>1 DEF Remaining
  <2>4. Watched => Watched'
    BY <1>5, <2>1, <2>3 DEF Watched, Bound
  <2> QED
    BY <1>5, <2>1, <2>2, <2>4 DEF WdtInv
<1>13. CASE out = {}
  <2>1. /\ task' \in [pc : {"sleep", "scan", "report"}, now : 0 .. W - 1,
                      sleep : Nat, lag : 0 .. MaxLag, victim : SUBSET Wdts]
        /\ task'.pc = "sleep" /\ task'.sleep = s /\ task'.lag = 0
    BY <1>5, <1>6, <1>10, <1>11, <1>13
  <2>2. WdtTypes'
    BY <1>1, <1>5, <1>6, <2>1 DEF WdtTypes
  <2>3. s <= BaseMin
    <3>1. minPeriod \in 0 .. BaseMin
      BY <1>6 DEF WdtTypes
    <3> QED
      BY <1>10, <1>11, <3>1
  <2>4. ASSUME Watched, NEW w \in Wdts, wdt[w].enabled
        PROVE  age[w] + Remaining' <= Bound(w)
    <3>1. PICK i \in DOMAIN list : list[i] = w
      BY <2>4 DEF WdtInv
    <3>2. w \in Range(seen)
      BY <1>3, <1>13, <3>1 DEF Range
    <3>3. TimeUntilDeadline(w, task.now) # 0
      BY <1>2, <1>13, <2>4, <3>1 DEF IsTimedout
    <3>4. PICK left \in Nat : left = TimeUntilDeadline(w, task.now) /\ s <= left /\ left # 0
      BY <1>1, <1>6, <1>10, <2>4, <3>2, <3>3, UntilDeadline
    <3>5. PICK d \in 0 .. task.lag : ms = (task.now + d) % W
      BY <1>1, <1>5, <2>4 DEF Watched
    <3>6. PICK b \in Nat, a \in Nat, l \in 0 .. W - 1, p \in Nat, L \in Nat, now \in 0 .. W - 1 :
            /\ b = Bound(w) /\ a = age[w] /\ l = wdt[w].last /\ p = Period[w]
            /\ L = MaxLag /\ now = task.now
      BY <1>1, <1>6, <1>11, BoundFacts, WdtAssumption DEF WdtTypes
    <3>7. b < W /\ p + 2 * L <= b
      BY <1>1, <3>6, BoundFacts
    <3>8. a <= b /\ (l + a) % W = (now + d) % W
      BY <1>1, <2>4, <3>5, <3>6 DEF Watched
    <3>9. d \in 0 .. L
      BY <1>6, <1>11, <3>5, <3>6
    <3>10. PICK e \in Int : e = (now - l) % W
      BY <1>1, <3>6
    <3>11. e = IF d <= a THEN a - d ELSE W + a - d
      <4>1. a \in 0 .. W - 1 /\ d \in 0 .. W - 1
        BY <1>1, <3>6, <3>7, <3>8, <3>9
      <4>2. (l + a) % W = (now + d) % W /\ W \in Nat \ {0} /\ now \in 0 .. W - 1 /\ l \in 0 .. W - 1
        BY <3>8
      <4>3. ElapsedIs(W, now, l, a, d)
        BY <4>1, <4>2, Elapsed
      <4> QED
        BY <3>10, <4>3, Zenon DEF ElapsedIs
    <3>12. left = IF e > p THEN 0 ELSE p - e
      <4>1. e = (task.now - wdt[w].last) % 2^WdtWidth
        BY <1>1, <3>6, <3>10
      <4>2. TimeUntilDeadline(w, task.now) = IF e > Period[w] THEN 0 ELSE Period[w] - e
        BY <4>1, Zenon DEF TimeUntilDeadline
      <4> QED
        BY <3>4, <3>6, <4>2
    <3>13. a + (s + (L - 0)) <= b
      BY <1>1, <1>10, <3>4, <3>6, <3>7, <3>8, <3>9, <3>10, <3>11, <3>12, LeftOver
    <3> QED
      BY <2>1, <3>6, <3>13 DEF Remaining
  <2>5. Watched => Watched'
    BY <1>1, <1>5, <2>1, <2>3, <2>4 DEF Watched, Bound
  <2> QED
    BY <1>5, <2>1, <2>2, <2>5 DEF WdtInv
<1> QED
  BY <1>12, <1>13

LEMMA WatchdogsStep == WdtInv /\ [WdtNext]_wdtVars => WdtInv'
<1> SUFFICES ASSUME WdtInv, [WdtNext]_wdtVars PROVE WdtInv'
  OBVIOUS
<1>1. CASE UNCHANGED wdtVars
  BY <1>1 DEF wdtVars, WdtInv, WdtTypes, Watched, Remaining, Bound
<1>2. CASE \E w \in Wdts : WdtNew(w) \/ Enable(w) \/ Disable(w) \/ Feed(w) \/ Delete(w)
  BY <1>2, ListWatched, FedWatched
<1> QED
  BY <1>1, <1>2, TickWatched, WakeWatched, ScanWatched, ReportWatched DEF WdtNext

\* For any number of watchdogs, any periods, and threads that are late by any
\* bounded delay: a watchdog that nobody feeds is noticed within its period, or
\* within the thread's longest sleep, and twice the delay, however feeding,
\* enabling, creation and deletion fall between the thread's reading of the
\* clock and its scan (process_timeouts, any_timeouts).
THEOREM WatchdogsNoticed == WdtSpec => []WdtNoticed
<1>1. WdtInv => WdtNoticed
  BY DEF WdtInv, Watched, WdtNoticed, Bound
<1> QED
  BY <1>1, WatchdogsInit, WatchdogsStep, PTL DEF WdtSpec

(***************************************************************************)
(* Ratelim: RateLimited, for any hour, capacity and rates, as long as no   *)
(* product of the time and a rate wraps around.                            *)
(***************************************************************************)
\* Products keep their order.
LEMMA Products ==
    ASSUME NEW a \in Nat, NEW b \in Nat, NEW c \in Nat, a <= b
    PROVE  a * c <= b * c /\ a * c \in Nat
  OBVIOUS

LEMMA QuotientIs ==
    ASSUME NEW n \in Nat \ {0}, NEW q \in Nat, NEW e \in 0 .. n - 1
    PROVE  (q * n + e) \div n = q
  OBVIOUS

LEMMA QuotientFits ==
    ASSUME NEW n \in Nat \ {0}, NEW x \in Nat
    PROVE  x \div n \in Nat /\ (x \div n) * n <= x /\ x < (x \div n) * n + n
<1>1. x \div n \in Nat
  OBVIOUS
<1>2. PICK q \in Nat : q = x \div n
  BY <1>1
<1>3. n * q <= x
  BY <1>2
<1>4. x < n * (q + 1)
  BY <1>2
<1>5. n * q = q * n /\ n * (q + 1) = q * n + n
  OBVIOUS
<1> QED
  BY <1>2, <1>3, <1>4, <1>5

\* The seconds the leaked tokens took are no more than those in the buffer.
LEMMA TimeFits ==
    ASSUME NEW H \in Nat \ {0}, NEW r \in Nat \ {0}, NEW B \in Nat, NEW L \in Nat,
           L * H <= B * r
    PROVE  (L * H) \div r \in Nat /\ (L * H) \div r <= B
<1>1. PICK x \in Nat : x = L * H
  OBVIOUS
<1>2. PICK q \in Nat : q = x \div r
  BY <1>1, QuotientFits
<1>3. q * r <= x
  BY <1>1, <1>2, QuotientFits
<1>4. q * r <= B * r
  BY <1>1, <1>3
<1>5. ASSUME q > B PROVE FALSE
  <2>1. B + 1 <= q
    BY <1>5
  <2>2. (B + 1) * r <= q * r
    BY <2>1, Products
  <2>3. (B + 1) * r = B * r + r
    OBVIOUS
  <2> QED
    BY <1>4, <2>2, <2>3
<1> QED
  BY <1>1, <1>2, <1>5

\* At an even rate the seconds that leave the buffer are exactly those the
\* leaked tokens took, and less than a token's worth stays.
EvenlyLeft(H, r, B, L) ==
    /\ (B - (L * H) \div r) * r < H
    /\ L * H + (B - (L * H) \div r) * r = B * r

LEMMA EvenLeak ==
    ASSUME NEW H \in Nat \ {0}, NEW r \in Nat \ {0}, NEW B \in Nat, NEW L \in Nat,
           L = (B * r) \div H, r % H = 0 \/ H % r = 0
    PROVE  EvenlyLeft(H, r, B, L)
<1> USE DEF EvenlyLeft
<1>1. CASE r % H = 0
  <2>1. PICK k \in Nat : r = k * H
    <3>1. PICK k \in Nat : k = r \div H
      BY QuotientFits
    <3>2. r = H * (r \div H) + (r % H)
      BY Quotient
    <3>3. r = H * k + 0
      BY <1>1, <3>1, <3>2, Zenon
    <3>4. r = k * H
      BY <3>3
    <3> QED
      BY <3>1, <3>4, Zenon
  <2>2. B * r = (B * k) * H + 0
    BY <2>1
  <2>3. L = B * k
    <3>1. PICK q \in Nat : q = B * k
      BY <2>1
    <3>2. (q * H + 0) \div H = q
      BY QuotientIs
    <3> QED
      BY <2>2, <3>1, <3>2
  <2>4. L * H = B * r + 0
    BY <2>1, <2>2, <2>3
  <2>5. (L * H) \div r = B
    <3>1. (B * r + 0) \div r = B
      BY QuotientIs
    <3> QED
      BY <2>4, <3>1
  <2>6. (B - (L * H) \div r) * r = 0
    BY <2>5
  <2> QED
    BY <2>4, <2>6
<1>2. CASE H % r = 0
  <2>1. PICK k \in Nat : H = k * r
    <3>1. PICK k \in Nat : k = H \div r
      BY QuotientFits
    <3>2. H = r * (H \div r) + (H % r)
      BY Quotient
    <3>3. H = r * k + 0
      BY <1>2, <3>1, <3>2, Zenon
    <3>4. H = k * r
      BY <3>3
    <3> QED
      BY <3>1, <3>4, Zenon
  <2>2. L * H = (L * k) * r + 0
    BY <2>1
  <2>3. PICK q \in Nat : q = L * k
    BY <2>1
  <2>4. (L * H) \div r = q
    <3>1. (q * r + 0) \div r = q
      BY QuotientIs
    <3> QED
      BY <2>2, <2>3, <3>1
  <2>5. L * H = q * r
    BY <2>2, <2>3
  <2>6. B * r < L * H + H
    <3>1. PICK x \in Nat : x = B * r
      OBVIOUS
    <3>2. x < (x \div H) * H + H
      BY <3>1, QuotientFits
    <3> QED
      BY <3>1, <3>2
  <2>7. (B - q) * r = B * r - q * r
    OBVIOUS
  <2> QED
    BY <2>4, <2>5, <2>6, <2>7
<1> QED
  BY <1>1, <1>2

\* What update_bucket makes of a bucket by second `now' (of M, with integers
\* below W): no more load, no less than has leaked of it, and at an even rate
\* less than a token's worth of time in the buffer.
Leaves(W, H, M, r, load, buffer, last, now, load2, buffer2) ==
    /\ load2 \in Nat /\ load2 <= load /\ buffer2 \in Nat /\ buffer2 <= now
    /\ r > 0 /\ (r % H = 0 \/ H % r = 0) =>
          /\ buffer2 * r < H
          /\ load * H - (buffer + (now - last)) * r <= load2 * H - buffer2 * r

\* update_bucket, where none of its products wraps around.
LEMMA LeakStep ==
    ASSUME NEW W \in Nat, NEW H \in Nat \ {0}, NEW M \in Nat, NEW r \in Nat,
           NEW load \in Nat, NEW buffer \in Nat, NEW last \in Nat, NEW now \in Nat,
           last < now, now <= M, buffer <= last, M * r < W, M < W,
           NEW B, B = (buffer + (now - last)) % W,
           NEW L, L = ((B * r) % W) \div H,
           NEW load2, load2 = (IF L >= load THEN 0 ELSE load - L),
           NEW buffer2, buffer2 = (IF L > 0 THEN B - ((L * H) \div r) ELSE B)
    PROVE  Leaves(W, H, M, r, load, buffer, last, now, load2, buffer2)
<1>1. B = buffer + (now - last) /\ B \in Nat /\ B <= now
  <2>1. PICK x \in 0 .. W - 1 : x = buffer + (now - last) /\ x <= now
    OBVIOUS
  <2>2. x % W = x
    BY <2>1
  <2> QED
    BY <2>1, <2>2
<1>2. PICK x \in Nat : x = B * r /\ x < W
  <2>1. B * r <= M * r /\ B * r \in Nat
    BY <1>1, Products
  <2> QED
    BY <2>1
<1>3. x % W = x
  BY <1>2
<1>4. L = x \div H
  BY <1>2, <1>3
<1>5. L \in Nat /\ L * H <= x /\ x < L * H + H
  BY <1>2, <1>4, QuotientFits
<1>6. L > 0 => r # 0
  <2>1. ASSUME r = 0 PROVE x = 0
    BY <1>1, <1>2, <2>1
  <2>2. L > 0 => H <= L * H
    <3>1. ASSUME L > 0 PROVE 1 * H <= L * H
      BY <1>5, <3>1, Products
    <3> QED
      BY <3>1
  <2> QED
    BY <1>5, <2>1, <2>2
<1>7. load2 \in Nat /\ load2 <= load /\ load - L <= load2
  BY <1>5
<1>8. ASSUME L > 0 PROVE (L * H) \div r \in Nat /\ (L * H) \div r <= B
  <2>1. r \in Nat \ {0} /\ L * H <= B * r
    BY <1>2, <1>5, <1>6, <1>8
  <2> QED
    BY <1>1, <1>5, <2>1, TimeFits
<1>9. buffer2 \in Nat /\ buffer2 <= B
  BY <1>1, <1>8
<1>10. ASSUME r > 0, r % H = 0 \/ H % r = 0
       PROVE  buffer2 * r < H /\ L * H + buffer2 * r = B * r
  <2>1. CASE L > 0
    <3>1. L = (B * r) \div H
      BY <1>2, <1>4
    <3>2. r \in Nat \ {0}
      BY <1>10
    <3>3. buffer2 = B - (L * H) \div r
      BY <2>1
    <3>4. EvenlyLeft(H, r, B, L)
      BY <1>1, <1>5, <1>10, <3>1, <3>2, EvenLeak
    <3> QED
      BY <3>3, <3>4, Zenon DEF EvenlyLeft
  <2>2. CASE ~(L > 0)
    <3>1. buffer2 = B /\ L = 0
      BY <1>5, <2>2
    <3>2. L * H = 0
      BY <3>1
    <3>3. buffer2 * r = x /\ x < H
      BY <1>2, <1>5, <3>1, <3>2
    <3>4. 0 + x = x
      BY <1>2
    <3> QED
      BY <1>2, <3>2, <3>3, <3>4, Zenon
  <2> QED
    BY <2>1, <2>2
<1>11. load * H - L * H <= load2 * H
  <2>1. load <= load2 + L
    BY <1>5, <1>7
  <2>2. load * H <= (load2 + L) * H
    BY <1>5, <1>7, <2>1, Products
  <2>3. (load2 + L) * H = load2 * H + L * H
    BY <1>5, <1>7
  <2>4. PICK p, q, s \in Int : p = load * H /\ q = load2 * H /\ s = L * H
    BY <1>5, <1>7
  <2> QED
    BY <2>2, <2>3, <2>4
<1>12. ASSUME r > 0, r % H = 0 \/ H % r = 0
       PROVE  load * H - (buffer + (now - last)) * r <= load2 * H - buffer2 * r
  <2>1. PICK p \in Int, q \in Int, s \in Int, u \in Int, v \in Int :
            /\ p = load * H /\ q = load2 * H /\ s = L * H
            /\ u = buffer2 * r /\ v = B * r
    <3>1. load * H \in Int /\ load2 * H \in Int /\ L * H \in Int
      BY <1>5, <1>7
    <3>2. buffer2 * r \in Int /\ B * r \in Int
      BY <1>1, <1>9
    <3> QED
      BY <3>1, <3>2, Zenon
  <2>2. s + u = v /\ p - s <= q
    BY <1>10, <1>11, <1>12, <2>1
  <2>3. p - v <= q - u
    BY <2>2
  <2>4. (buffer + (now - last)) * r = v
    BY <1>1, <2>1
  <2> QED
    BY <2>1, <2>3, <2>4
<1> QED
  <2>1. buffer2 <= now
    BY <1>1, <1>9
  <2> QED
    BY <1>7, <1>9, <1>10, <1>12, <2>1, Zenon DEF Leaves

\* What a bucket's load lets it have granted since second s.
Allowed(b, s) == b.load * Hour - b.buffer * b.rate + Hour + (b.last - s) * b.rate

Even == bucket.rate > 0 /\ (bucket.rate % Hour = 0 \/ Hour % bucket.rate = 0)

\* Less than a token's worth of time is in the buffer, whatever was granted is
\* in the load or has leaked, and nothing was granted since the last update.
Metered ==
    /\ bucket.buffer * bucket.rate < Hour
    /\ \A s \in 0 .. bucket.last : (grants[clock] - grants[s]) * Hour <= Allowed(bucket, s)
    /\ \A s \in bucket.last .. clock : grants[s] = grants[clock]

Buckets == [load : 0 .. Cap, rate : Nat, buffer : Nat, last : Nat]

BucketTypes ==
    /\ bucket \in Buckets
    /\ clock \in 0 .. MaxTime /\ bucket.last <= clock /\ bucket.buffer <= bucket.last
    /\ MaxTime * bucket.rate < 2^BucketWidth
    /\ grants \in [0 .. MaxTime -> Nat]
    /\ bucket.rate = 0 => \A t \in 0 .. MaxTime : grants[t] = 0

BucketInv == BucketTypes /\ (Even => Metered /\ WithinRate)

\* The bucket after update_bucket, and what it lets through.
Updated(b) ==
    /\ b \in Buckets /\ b.rate = bucket.rate /\ b.last = clock /\ b.buffer <= clock
    /\ Even =>
         /\ b.buffer * b.rate < Hour
         /\ \A s \in 0 .. clock : (grants[clock] - grants[s]) * Hour <= Allowed(b, s)

\* Time that passes adds to what may be granted.
LEMMA TimeAllows ==
    ASSUME NEW g \in Int, NEW a \in Int, NEW c \in Int, NEW r \in Nat, NEW H \in Nat,
           NEW buffer \in Nat, NEW last \in Nat, NEW now \in Nat, NEW s \in Nat,
           g <= a - buffer * r + H + (last - s) * r,
           a - (buffer + (now - last)) * r <= c
    PROVE  g <= c + H + (now - s) * r
<1>1. PICK u \in Int, v \in Int, w \in Int, x \in Int :
        u = buffer * r /\ v = last * r /\ w = now * r /\ x = s * r
  OBVIOUS
<1>2. /\ (last - s) * r = v - x /\ (now - s) * r = w - x
      /\ (buffer + (now - last)) * r = u + (w - v)
  BY <1>1
<1>3. g <= a - u + H + (v - x) /\ a - (u + (w - v)) <= c
  BY <1>1, <1>2
<1>4. g <= c + H + (w - x)
  BY <1>3
<1> QED
  BY <1>2, <1>4

LEMMA UpdateFacts ==
    ASSUME BucketInv PROVE Updated(UpdateBucket(bucket))
<1>1. PICK b \in Buckets : b = bucket
  BY DEF BucketInv, BucketTypes
<1>2. PICK load \in Nat, r \in Nat, buffer \in Nat, last \in Nat :
        /\ load = b.load /\ r = b.rate /\ buffer = b.buffer /\ last = b.last
        /\ load <= Cap
  BY <1>1, BucketAssumption DEF Buckets
<1>3. PICK W \in Nat, H \in Nat \ {0}, M \in Nat, now \in Nat :
        /\ W = 2^BucketWidth /\ H = Hour /\ M = MaxTime /\ now = clock
        /\ now <= M /\ last <= now /\ buffer <= last /\ M * r < W /\ M < W
  BY <1>1, <1>2, BucketAssumption DEF BucketInv, BucketTypes
<1>4. Cap \in Nat /\ grants \in [0 .. M -> Nat]
  BY <1>3, BucketAssumption DEF BucketInv, BucketTypes
<1>5. CASE now <= last
  <2>1. UpdateBucket(bucket) = b /\ last = now
    BY <1>1, <1>2, <1>3, <1>5 DEF UpdateBucket
  <2> QED
    BY <1>1, <1>2, <1>3, <2>1 DEF Updated, BucketInv, Metered
<1>6. CASE ~(now <= last)
  <2>1. PICK B : B = (buffer + (now - last)) % W
    OBVIOUS
  <2>2. PICK L : L = ((B * r) % W) \div H
    OBVIOUS
  <2>3. PICK load2 : load2 = (IF L >= load THEN 0 ELSE load - L)
    OBVIOUS
  <2>4. PICK buffer2 : buffer2 = (IF L > 0 THEN B - ((L * H) \div r) ELSE B)
    OBVIOUS
  <2>5. UpdateBucket(bucket) = [b EXCEPT !.load = load2, !.buffer = buffer2, !.last = now]
    <3>1. (bucket.buffer + (clock - bucket.last)) % 2^BucketWidth = B
      BY <1>1, <1>2, <1>3, <2>1
    <3>2. Leaked(bucket, B) = L
      BY <1>1, <1>2, <1>3, <2>2 DEF Leaked
    <3>3. /\ bucket = b /\ bucket.load = load /\ bucket.rate = r /\ Hour = H
          /\ clock = now /\ ~(clock <= bucket.last)
      BY <1>1, <1>2, <1>3, <1>6, Zenon
    <3> QED
      BY <2>3, <2>4, <3>1, <3>2, <3>3 DEF UpdateBucket
  <2>6. last < now /\ now <= M /\ buffer <= last /\ M * r < W /\ M < W
    BY <1>3, <1>6
  <2>7. Leaves(W, H, M, r, load, buffer, last, now, load2, buffer2)
    BY <2>1, <2>2, <2>3, <2>4, <2>6, LeakStep
  <2>8. load2 \in Nat /\ load2 <= load /\ buffer2 \in Nat /\ buffer2 <= now
    BY <2>7 DEF Leaves
  <2>9. PICK c \in Buckets : c = [b EXCEPT !.load = load2, !.buffer = buffer2, !.last = now]
    <3>1. load2 \in 0 .. Cap
      BY <1>2, <1>4, <2>8
    <3> QED
      BY <1>1, <1>3, <2>8, <3>1 DEF Buckets
  <2>10. c.load = load2 /\ c.buffer = buffer2 /\ c.last = now /\ c.rate = r
    BY <1>1, <1>2, <2>9 DEF Buckets
  <2>11. ASSUME Even
         PROVE  /\ buffer2 * r < H
                /\ \A s \in 0 .. now : (grants[now] - grants[s]) * H <= Allowed(c, s)
    <3>1. r > 0 /\ (r % H = 0 \/ H % r = 0)
      BY <1>1, <1>2, <1>3, <2>11 DEF Even
    <3>2. /\ buffer2 * r < H
          /\ load * H - (buffer + (now - last)) * r <= load2 * H - buffer2 * r
      BY <2>7, <3>1 DEF Leaves
    <3>3. PICK a \in Int, d \in Int : a = load * H /\ d = load2 * H - buffer2 * r
      BY <1>2, <1>3, <2>8
    <3>4. ASSUME NEW s \in 0 .. now PROVE (grants[now] - grants[s]) * H <= Allowed(c, s)
      <4>1. Allowed(c, s) = d + H + (now - s) * r
        BY <1>3, <2>10, <3>3 DEF Allowed
      <4>2. PICK g \in Int : g = (grants[now] - grants[s]) * H
        <5>1. grants[now] \in Nat /\ grants[s] \in Nat
          BY <1>3, <1>4, <3>4
        <5> QED
          BY <1>3, <5>1
      <4>3. s \in Nat
        BY <1>3, <3>4
      <4>4. CASE s <= last
        <5>1. s \in 0 .. b.last
          BY <1>2, <4>3, <4>4
        <5>2. g <= Allowed(b, s)
          BY <1>1, <1>2, <1>3, <2>11, <4>2, <5>1 DEF BucketInv, Metered
        <5>3. Allowed(b, s) = a - buffer * r + H + (last - s) * r
          BY <1>1, <1>2, <1>3, <3>3 DEF Allowed
        <5>4. g <= a - buffer * r + H + (last - s) * r
          BY <5>2, <5>3
        <5>5. a - (buffer + (now - last)) * r <= d
          BY <3>2, <3>3
        <5>6. g <= d + H + (now - s) * r
          BY <1>2, <1>3, <3>3, <4>2, <4>3, <5>4, <5>5, TimeAllows
        <5> QED
          BY <4>1, <4>2, <5>6
      <4>5. CASE ~(s <= last)
        <5>1. s \in b.last .. clock
          BY <1>2, <1>3, <3>4, <4>3, <4>5
        <5>2. grants[s] = grants[now]
          BY <1>1, <1>3, <2>11, <5>1 DEF BucketInv, Metered
        <5>3. g = 0
          <6>1. PICK n \in Nat : n = grants[now]
            BY <1>3, <1>4
          <6>2. (n - n) * H = 0
            BY <6>1
          <6> QED
            BY <4>2, <5>2, <6>1, <6>2
        <5>4. 0 <= load2 * H /\ load2 * H \in Nat
          BY <1>3, <2>8
        <5>5. 0 <= (now - s) * r /\ (now - s) * r \in Nat
          <6>1. PICK e \in Nat : e = now - s
            BY <1>3, <3>4, <4>3
          <6>2. e * r \in Nat
            BY <1>2, <6>1
          <6> QED
            BY <6>1, <6>2
        <5>6. PICK u \in Nat, v \in Nat, w \in Nat :
                u = load2 * H /\ v = (now - s) * r /\ w = buffer2 * r
          <6>1. buffer2 * r \in Nat
            BY <1>2, <2>8
          <6> QED
            BY <5>4, <5>5, <6>1, Zenon
        <5>7. 0 <= (u - w) + H + v
          BY <3>2, <5>6
        <5> QED
          BY <3>3, <4>1, <4>2, <5>3, <5>6, <5>7
      <4> QED
        BY <4>4, <4>5
    <3> QED
      BY <3>2, <3>4
  <2> QED
    BY <1>1, <1>2, <1>3, <2>5, <2>8, <2>9, <2>10, <2>11 DEF Updated
<1> QED
  BY <1>5, <1>6

\* A load within the capacity allows what the property does.
LEMMA AllowedBounded ==
    ASSUME NEW b \in Buckets, NEW s \in Nat, NEW t \in Nat, b.last = t, s <= t
    PROVE  /\ Allowed(b, s) \in Int
           /\ Allowed(b, s) <= Cap * Hour + (t - s) * b.rate + Hour
<1>1. PICK load \in Nat, r \in Nat, buffer \in Nat, H \in Nat, C \in Nat :
        /\ load = b.load /\ r = b.rate /\ buffer = b.buffer /\ H = Hour /\ C = Cap
        /\ load <= C
  BY BucketAssumption DEF Buckets
<1>2. load * H <= C * H /\ load * H \in Nat /\ C * H \in Nat
  BY <1>1, Products
<1>3. buffer * r \in Nat /\ (t - s) * r \in Int
  BY <1>1
<1>4. Allowed(b, s) = load * H - buffer * r + H + (t - s) * r
  BY <1>1 DEF Allowed
<1>5. PICK u \in Nat, v \in Nat, w \in Nat, x \in Int :
        u = load * H /\ v = C * H /\ w = buffer * r /\ x = (t - s) * r
  BY <1>2, <1>3, Zenon
<1>6. u - w + H + x <= v + x + H /\ u - w + H + x \in Int
  BY <1>1, <1>2, <1>5
<1> QED
  BY <1>1, <1>4, <1>5, <1>6

\* An update and n tokens granted at once, in ratelim_request, ratelim_request_ext
\* and, for no token, ratelim_full.
LEMMA GrantMetered ==
    ASSUME BucketInv, NEW n \in Nat, bucket.rate > 0 \/ n = 0,
           UpdateBucket(bucket).load + n <= Cap,
           bucket' = [UpdateBucket(bucket) EXCEPT !.load = UpdateBucket(bucket).load + n],
           grants' = [grants EXCEPT ![clock] = grants[clock] + n],
           UNCHANGED clock
    PROVE  BucketInv'
<1>1. PICK b \in Buckets : b = UpdateBucket(bucket) /\ Updated(b)
  BY UpdateFacts DEF Updated
<1>2. PICK H \in Nat \ {0}, M \in Nat, now \in Nat, C \in Nat :
        H = Hour /\ M = MaxTime /\ now = clock /\ C = Cap /\ now \in 0 .. M
  BY BucketAssumption DEF BucketInv, BucketTypes
<1>3. /\ grants \in [0 .. M -> Nat] /\ grants[now] \in Nat
      /\ (bucket.rate = 0 => \A t \in 0 .. M : grants[t] = 0)
      /\ M * bucket.rate < 2^BucketWidth
  BY <1>2 DEF BucketInv, BucketTypes
<1>4. PICK load \in Nat, r \in Nat : load = b.load /\ r = b.rate /\ r = bucket.rate /\ load + n <= C
  BY <1>1, <1>2, BucketAssumption DEF Buckets, Updated
<1>5. PICK c \in Buckets : c = bucket' /\ c = [b EXCEPT !.load = load + n]
  <2>1. load + n \in 0 .. Cap
    BY <1>2, <1>4
  <2>2. bucket' = [b EXCEPT !.load = load + n]
    BY <1>1, <1>4
  <2> QED
    BY <1>1, <2>1, <2>2 DEF Buckets
<1>6. /\ c.load = load + n /\ c.rate = r /\ c.buffer = b.buffer /\ c.last = now
      /\ c.buffer <= now
  BY <1>1, <1>2, <1>4, <1>5 DEF Buckets, Updated
<1>7. /\ grants' \in [0 .. M -> Nat] /\ grants'[now] = grants[now] + n
      /\ \A t \in 0 .. M : t # now => grants'[t] = grants[t]
  BY <1>2, <1>3
<1>8. r = 0 => \A t \in 0 .. M : grants'[t] = 0
  <2> SUFFICES ASSUME r = 0, NEW t \in 0 .. M PROVE grants'[t] = 0
    OBVIOUS
  <2>1. n = 0 /\ grants[t] = 0 /\ grants[now] = 0
    BY <1>2, <1>3, <1>4
  <2> QED
    BY <1>7, <2>1
<1>9. BucketTypes'
  BY <1>2, <1>3, <1>4, <1>5, <1>6, <1>7, <1>8 DEF BucketTypes
<1>10. ASSUME Even' PROVE Metered' /\ WithinRate'
  <2>1. Even
    BY <1>4, <1>5, <1>6, <1>10 DEF Even
  <2>2. /\ b.buffer * b.rate < Hour
        /\ \A s \in 0 .. now : (grants[now] - grants[s]) * Hour <= Allowed(b, s)
    BY <1>1, <1>2, <2>1 DEF Updated
  <2>3. c.buffer * c.rate < Hour
    BY <1>4, <1>6, <2>2
  <2>4. ASSUME NEW s \in 0 .. now PROVE (grants'[now] - grants'[s]) * H <= Allowed(c, s)
    <3>1. PICK buffer \in Nat, g \in Nat, h \in Nat :
            buffer = b.buffer /\ g = grants[now] /\ h = grants[s]
      <4>1. b.buffer \in Nat
        BY <1>1 DEF Buckets
      <4>2. s \in 0 .. M
        BY <1>2, <2>4
      <4> QED
        BY <1>3, <4>1, <4>2
    <3>2. /\ Allowed(b, s) = load * H - buffer * r + H + (now - s) * r
          /\ Allowed(c, s) = (load + n) * H - buffer * r + H + (now - s) * r
      BY <1>1, <1>2, <1>4, <1>6, <3>1 DEF Allowed, Updated
    <3>3. PICK u \in Int, v \in Int, w \in Int, x \in Int :
            u = load * H /\ v = n * H /\ w = buffer * r /\ x = (now - s) * r
      <4>1. load * H \in Int /\ n * H \in Int /\ buffer * r \in Int
        BY <1>2, <1>4, <3>1
      <4>2. (now - s) * r \in Int
        BY <1>2, <1>4, <2>4
      <4> QED
        BY <4>1, <4>2, Zenon
    <3>4. Allowed(b, s) = u - w + H + x /\ Allowed(c, s) = u + v - w + H + x
      <4>1. (load + n) * H = u + v
        BY <1>2, <1>4, <3>3
      <4> QED
        BY <3>2, <3>3, <4>1
    <3>5. PICK p \in Int : p = (g - h) * H /\ p <= u - w + H + x
      <4>1. (g - h) * H \in Int
        BY <1>2, <3>1
      <4>2. (g - h) * H <= u - w + H + x
        BY <1>2, <2>2, <2>4, <3>1, <3>4
      <4> QED
        BY <4>1, <4>2
    <3>6. v >= 0
      BY <1>2, <3>3
    <3>7. CASE s = now
      <4>1. (grants'[now] - grants'[s]) * H = 0
        <5>1. PICK k \in Nat : k = grants'[now]
          BY <1>2, <1>7
        <5>2. (k - k) * H = 0
          BY <1>2, <5>1
        <5> QED
          BY <3>7, <5>1, <5>2
      <4>2. p = 0
        <5>1. g = h
          BY <3>1, <3>7
        <5> QED
          BY <1>2, <3>1, <3>5, <5>1
      <4>3. 0 <= u + v - w + H + x
        BY <1>2, <3>3, <3>5, <3>6, <4>2
      <4> QED
        BY <3>4, <4>1, <4>3
    <3>8. CASE s # now
      <4>1. grants'[now] = g + n /\ grants'[s] = h
        BY <1>2, <1>7, <2>4, <3>1, <3>8
      <4>2. ((g + n) - h) * H = p + v
        <5>1. ((g + n) - h) * H = (g - h) * H + n * H
          BY <1>2, <3>1
        <5> QED
          BY <3>3, <3>5, <5>1
      <4>3. p + v <= u + v - w + H + x
        BY <1>2, <3>3, <3>5
      <4> QED
        BY <3>4, <4>1, <4>2, <4>3
    <3> QED
      BY <3>7, <3>8
  <2>5. \A s \in now .. now : grants'[s] = grants'[now]
    BY <1>2
  <2>6. Metered'
    BY <1>2, <1>5, <1>6, <2>3, <2>4, <2>5 DEF Metered, Allowed
  <2>7. ASSUME NEW s \in 0 .. now, NEW t \in 0 .. now, s < t
        PROVE  (grants'[t] - grants'[s]) * H <= C * H + (t - s) * r + H
    <3>1. s \in Nat /\ t \in Nat /\ s \in 0 .. M /\ t \in 0 .. M /\ s # now
      BY <1>2, <2>7
    <3>2. CASE t = now
      <4>1. Allowed(c, s) <= C * H + (t - s) * r + H /\ Allowed(c, s) \in Int
        <5>1. c.last = t /\ s <= t
          BY <1>6, <2>7, <3>1, <3>2
        <5>2. /\ Allowed(c, s) \in Int
              /\ Allowed(c, s) <= Cap * Hour + (t - s) * c.rate + Hour
          BY <1>5, <3>1, <5>1, AllowedBounded
        <5> QED
          BY <1>2, <1>6, <5>2
      <4>2. PICK p \in Int, q \in Int, x \in Int :
              /\ p = (grants'[t] - grants'[s]) * H /\ q = Allowed(c, s)
              /\ x = C * H + (t - s) * r + H
        <5>1. (grants'[t] - grants'[s]) * H \in Int
          <6>1. grants'[t] \in Nat /\ grants'[s] \in Nat
            BY <1>7, <3>1
          <6> QED
            BY <1>2, <6>1
        <5>2. C * H + (t - s) * r + H \in Int
          BY <1>2, <1>4, <3>1
        <5> QED
          BY <4>1, <5>1, <5>2, Zenon
      <4>3. p <= q /\ q <= x
        BY <2>4, <3>2, <4>1, <4>2
      <4> QED
        BY <4>2, <4>3
    <3>3. CASE t # now
      <4>1. grants'[t] = grants[t] /\ grants'[s] = grants[s]
        BY <1>7, <3>1, <3>3
      <4> QED
        BY <1>2, <1>4, <2>1, <2>7, <4>1 DEF BucketInv, WithinRate
    <3> QED
      BY <3>2, <3>3
  <2>8. WithinRate'
    BY <1>2, <1>5, <1>6, <2>7 DEF WithinRate
  <2> QED
    BY <2>6, <2>8
<1> QED
  BY <1>9, <1>10 DEF BucketInv

LEMMA RequestsMetered ==
    ASSUME BucketInv, Request \/ (\E n \in 1 .. Cap : RequestExt(n)) \/ Full
    PROVE  BucketInv'
<1>1. PICK b \in Buckets : b = UpdateBucket(bucket)
  BY UpdateFacts DEF Updated
<1>2. /\ Cap \in Nat /\ clock \in 0 .. MaxTime /\ grants \in [0 .. MaxTime -> Nat]
      /\ grants[clock] \in Nat
  BY BucketAssumption DEF BucketInv, BucketTypes
<1>3. PICK load \in Nat : load = b.load /\ load <= Cap
  BY <1>1, <1>2 DEF Buckets
<1>4. UNCHANGED clock
  BY DEF Request, RequestExt, Full
<1>5. [b EXCEPT !.load = load + 0] = b
  BY <1>1, <1>3 DEF Buckets
<1>6. [grants EXCEPT ![clock] = grants[clock] + 0] = grants
  BY <1>2
<1>7. CASE bucket' = b /\ grants' = grants
  <2>1. load + 0 <= Cap /\ 0 \in Nat
    BY <1>2, <1>3
  <2>2. bucket' = [b EXCEPT !.load = load + 0] /\ grants' = [grants EXCEPT ![clock] = grants[clock] + 0]
    BY <1>5, <1>6, <1>7
  <2> QED
    BY <1>1, <1>3, <1>4, <2>1, <2>2, GrantMetered
<1>8. ASSUME NEW n \in Nat, load + n <= Cap, bucket.rate > 0,
             bucket' = [b EXCEPT !.load = load + n],
             grants' = [grants EXCEPT ![clock] = grants[clock] + n]
      PROVE  BucketInv'
  BY <1>1, <1>3, <1>4, <1>8, GrantMetered
<1>9. CASE Request
  <2>1. CASE IsFull(b)
    BY <1>1, <1>7, <1>9, <2>1 DEF Request
  <2>2. CASE ~IsFull(b)
    <3>1. /\ bucket.rate > 0 /\ bucket' = [b EXCEPT !.load = load + 1]
          /\ grants' = [grants EXCEPT ![clock] = grants[clock] + 1]
      BY <1>1, <1>2, <1>3, <1>9, <2>2 DEF Request
    <3>2. load + 1 <= Cap /\ 1 \in Nat
      BY <1>2, <1>3, <2>2 DEF IsFull
    <3> QED
      BY <1>8, <3>1, <3>2
  <2> QED
    BY <2>1, <2>2
<1>10. ASSUME NEW n \in 1 .. Cap, RequestExt(n) PROVE BucketInv'
  <2>1. (load + n) % 2^BucketWidth = load + n
    <3>1. PICK W \in Nat : W = 2^BucketWidth /\ 2 * Cap < W
      BY BucketAssumption
    <3>2. PICK x \in 0 .. W - 1 : x = load + n
      BY <1>2, <1>3, <1>10, <3>1
    <3>3. x % W = x
      BY <3>1, <3>2
    <3> QED
      BY <3>1, <3>2, <3>3
  <2>2. CASE ~(load + n <= Cap)
    BY <1>1, <1>3, <1>7, <1>10, <2>1, <2>2 DEF RequestExt
  <2>3. CASE load + n <= Cap
    <3>1. /\ bucket.rate > 0 /\ bucket' = [b EXCEPT !.load = load + n]
          /\ grants' = [grants EXCEPT ![clock] = grants[clock] + n]
      BY <1>1, <1>2, <1>3, <1>10, <2>1, <2>3 DEF RequestExt
    <3>2. n \in Nat
      BY <1>2, <1>10
    <3> QED
      BY <1>8, <2>3, <3>1, <3>2
  <2> QED
    BY <2>2, <2>3
<1>11. CASE Full
  BY <1>1, <1>7, <1>11 DEF Full
<1> QED
  BY <1>9, <1>10, <1>11

LEMMA ClockMetered == ASSUME BucketInv, BucketTick PROVE BucketInv'
<1>1. PICK H \in Nat \ {0}, M \in Nat, now \in Nat, C \in Nat :
        H = Hour /\ M = MaxTime /\ now = clock /\ C = Cap /\ now < M
  BY BucketAssumption DEF BucketInv, BucketTypes, BucketTick
<1>2. /\ clock' = now + 1 /\ UNCHANGED bucket
      /\ grants' = [grants EXCEPT ![now + 1] = grants[now]]
      /\ now \in 0 .. M /\ now + 1 \in 0 .. M
  BY <1>1 DEF BucketTick
<1>3. PICK r \in Nat, last \in Nat : r = bucket.rate /\ last = bucket.last /\ last <= now
  BY <1>1 DEF BucketInv, BucketTypes, Buckets
<1>4. /\ grants \in [0 .. M -> Nat] /\ grants' \in [0 .. M -> Nat]
      /\ grants'[now + 1] = grants[now]
      /\ \A t \in 0 .. now : grants'[t] = grants[t]
  <2>1. grants \in [0 .. M -> Nat] /\ grants[now] \in Nat
    BY <1>1, <1>2 DEF BucketInv, BucketTypes
  <2>2. \A t \in 0 .. now : t \in 0 .. M /\ t # now + 1
    BY <1>1
  <2> QED
    BY <1>2, <2>1, <2>2
<1>5. BucketTypes'
  <2>1. bucket.last <= now + 1
    BY <1>1, <1>3
  <2>2. bucket.rate = 0 => \A t \in 0 .. M : grants'[t] = 0
    BY <1>1, <1>2 DEF BucketInv, BucketTypes
  <2> QED
    BY <1>1, <1>2, <1>4, <2>1, <2>2 DEF BucketInv, BucketTypes
<1>6. ASSUME Even' PROVE Metered' /\ WithinRate'
  <2>1. Metered /\ WithinRate
    BY <1>2, <1>6 DEF Even, BucketInv
  <2>2. ASSUME NEW s \in 0 .. last
        PROVE  (grants'[now + 1] - grants'[s]) * Hour <= Allowed(bucket, s)
    <3>1. s \in 0 .. now
      BY <1>1, <1>3, <2>2
    <3> QED
      BY <1>1, <1>3, <1>4, <2>1, <2>2, <3>1 DEF Metered
  <2>3. ASSUME NEW s \in last .. now + 1 PROVE grants'[s] = grants'[now + 1]
    <3>1. s = now + 1 \/ (s \in last .. now /\ s \in 0 .. now)
      BY <1>1, <1>3, <2>3
    <3> QED
      BY <1>1, <1>3, <1>4, <2>1, <3>1 DEF Metered
  <2>4. Metered'
    BY <1>2, <1>3, <2>1, <2>2, <2>3 DEF Metered, Allowed
  <2>5. ASSUME NEW s \in 0 .. now + 1, NEW t \in 0 .. now + 1, s < t
        PROVE  (grants'[t] - grants'[s]) * H <= C * H + (t - s) * r + H
    <3>1. s \in Nat /\ t \in Nat /\ s \in 0 .. now
      BY <1>1, <2>5
    <3>2. CASE t \in 0 .. now
      BY <1>1, <1>3, <1>4, <2>1, <2>5, <3>1, <3>2 DEF WithinRate
    <3>3. CASE t = now + 1
      <4>1. PICK d \in Nat : d = now - s
        BY <1>1, <3>1
      <4>2. PICK v \in Nat, w \in Nat : v = C * H /\ w = d * r
        <5>1. C * H \in Nat /\ d * r \in Nat
          BY <1>1, <1>3, <4>1
        <5> QED
          BY <5>1, Zenon
      <4>3. (t - s) * r = w + r
        <5>1. t - s = d + 1
          BY <1>1, <3>1, <3>3, <4>1
        <5>2. (d + 1) * r = d * r + r
          BY <1>3, <4>1
        <5> QED
          BY <4>2, <5>1, <5>2
      <4>4. PICK g \in Int : g = (grants[now] - grants[s]) * H
        <5>1. grants[now] \in Nat /\ grants[s] \in Nat
          BY <1>1, <1>2, <1>4, <3>1
        <5> QED
          BY <1>1, <5>1
      <4>5. (grants'[t] - grants'[s]) * H = g
        BY <1>4, <3>1, <3>3, <4>4
      <4>6. g <= v + w + H
        <5>1. CASE s = now
          <6>1. PICK n \in Nat : n = grants[now]
            BY <1>2, <1>4
          <6>2. (n - n) * H = 0
            BY <1>1, <6>1
          <6>3. g = 0
            BY <4>4, <5>1, <6>1, <6>2
          <6> QED
            BY <1>1, <4>2, <6>3
        <5>2. CASE s # now
          <6>1. s < now /\ now \in 0 .. now
            BY <1>1, <3>1, <5>2
          <6> QED
            BY <1>1, <1>3, <2>1, <3>1, <4>1, <4>2, <4>4, <6>1 DEF WithinRate
        <5> QED
          BY <5>1, <5>2
      <4>7. g <= v + (w + r) + H
        BY <1>1, <1>3, <4>2, <4>4, <4>6
      <4> QED
        BY <4>2, <4>3, <4>5, <4>7
    <3> QED
      BY <1>1, <2>5, <3>2, <3>3
  <2>6. WithinRate'
    BY <1>1, <1>2, <1>3, <2>5 DEF WithinRate
  <2> QED
    BY <2>4, <2>6
<1> QED
  BY <1>5, <1>6 DEF BucketInv

\* Nothing has been granted before ratelim_init.
LEMMA StartMetered ==
    ASSUME BucketInv, NEW unit \in Units, NEW n \in Rates, RatelimInit(unit, n)
    PROVE  BucketInv'
<1>1. PICK W \in Nat \ {0}, H \in Nat \ {0}, M \in Nat, now \in Nat, C \in Nat :
        /\ W = 2^BucketWidth /\ H = Hour /\ M = MaxTime /\ now = clock /\ C = Cap
        /\ now \in 0 .. M
  BY BucketAssumption DEF BucketInv, BucketTypes
<1>2. PICK scale \in {Hour, Minute, 1} : PerHour(unit, n) = (n * scale) % W
  <2>1. PerHour(unit, n) =
          (n * (CASE unit = "second" -> Hour [] unit = "minute" -> Minute [] OTHER -> 1)) % W
    BY <1>1 DEF PerHour
  <2>2. CASE unit = "second"
    BY <2>1, <2>2
  <2>3. CASE unit = "minute"
    BY <2>1, <2>3
  <2>4. CASE unit # "second" /\ unit # "minute"
    BY <2>1, <2>4
  <2> QED
    BY <2>2, <2>3, <2>4
<1>3. PICK x \in Nat : x = n * scale /\ M * x < W
  <2>1. n \in Nat /\ scale \in Nat /\ M * (n * scale) < W
    BY <1>1, BucketAssumption
  <2>2. n * scale \in Nat
    BY <2>1
  <2> QED
    BY <2>1, <2>2
<1>4. PICK r \in Nat : r = PerHour(unit, n) /\ M * r < W
  <2>1. x % W \in Nat /\ x % W <= x
    BY <1>1, <1>3
  <2>2. PICK y \in Nat : y = x % W /\ y <= x
    BY <2>1
  <2>3. y * M <= x * M /\ y * M \in Nat
    BY <1>1, <1>3, <2>2, Products
  <2>4. y * M = M * y /\ x * M = M * x
    BY <1>1, <1>3, <2>2
  <2>5. PICK u \in Int, v \in Int : u = M * y /\ v = M * x
    BY <1>1, <1>3, <2>2
  <2>6. u <= v /\ v < W
    BY <1>3, <2>3, <2>4, <2>5
  <2>7. u < W
    BY <1>1, <2>5, <2>6
  <2> QED
    BY <1>2, <1>3, <2>2, <2>5, <2>7
<1>5. PICK b \in Buckets : /\ b = bucket' /\ b.load = 0 /\ b.rate = r /\ b.buffer = 0
                          /\ b.last = now
  <2>1. bucket' = [load |-> 0, rate |-> r, buffer |-> 0, last |-> now]
    BY <1>1, <1>4 DEF RatelimInit
  <2>2. 0 \in 0 .. Cap
    BY <1>1
  <2> QED
    BY <1>1, <1>4, <2>1, <2>2 DEF Buckets
<1>6. /\ UNCHANGED <<clock, grants>> /\ grants \in [0 .. M -> Nat]
      /\ \A t \in 0 .. M : grants[t] = 0
  BY <1>1 DEF RatelimInit, BucketInv, BucketTypes
<1>7. BucketTypes'
  BY <1>1, <1>4, <1>5, <1>6 DEF BucketTypes
<1>8. (0 - 0) * H = 0 /\ 0 * H = 0 /\ 0 * r = 0
  BY <1>1, <1>4
<1>9. ASSUME NEW s \in 0 .. now, NEW t \in 0 .. now, s <= t
      PROVE  /\ (grants[t] - grants[s]) * H = 0
             /\ (t - s) * r \in Nat /\ C * H \in Nat
             /\ 0 <= 0 - 0 + H + (t - s) * r
             /\ 0 <= C * H + (t - s) * r + H
  <2>1. s \in 0 .. M /\ t \in 0 .. M
    BY <1>1, <1>9
  <2>2. (grants[t] - grants[s]) * H = 0
    BY <1>6, <1>8, <2>1
  <2>3. PICK d \in Nat : d = t - s
    BY <1>1, <1>9
  <2>4. d * r \in Nat /\ C * H \in Nat
    BY <1>1, <1>4, <2>3
  <2>5. PICK u \in Nat, v \in Nat : u = d * r /\ v = C * H
    BY <2>4, Zenon
  <2>6. 0 <= 0 - 0 + H + u /\ 0 <= v + u + H
    BY <1>1, <2>5
  <2> QED
    BY <2>2, <2>3, <2>4, <2>5, <2>6
<1>10. Metered'
  <2>1. 0 * r < Hour
    BY <1>1, <1>8
  <2>2. ASSUME NEW s \in 0 .. now PROVE (grants[now] - grants[s]) * Hour <= Allowed(b, s)
    <3>1. s <= now /\ now \in 0 .. now
      BY <1>1, <2>2
    <3>2. Allowed(b, s) = 0 - 0 + H + (now - s) * r
      BY <1>1, <1>5, <1>8 DEF Allowed
    <3> QED
      BY <1>1, <1>9, <3>1, <3>2
  <2>3. ASSUME NEW s \in now .. now PROVE grants[s] = grants[now]
    BY <1>1, <2>3
  <2> QED
    BY <1>1, <1>5, <1>6, <2>1, <2>2, <2>3 DEF Metered, Allowed
<1>11. WithinRate'
  <2>1. ASSUME NEW s \in 0 .. now, NEW t \in 0 .. now, s < t
        PROVE  (grants[t] - grants[s]) * H <= C * H + (t - s) * r + H
    <3>1. s <= t
      BY <1>1, <2>1
    <3> QED
      BY <1>9, <3>1
  <2> QED
    BY <1>1, <1>5, <1>6, <2>1 DEF WithinRate
<1> QED
  BY <1>7, <1>10, <1>11 DEF BucketInv

LEMMA BucketStart == BucketInit => BucketInv
<1> SUFFICES ASSUME BucketInit PROVE BucketInv
  OBVIOUS
<1>1. 0 \in 0 .. Cap /\ 0 \in 0 .. MaxTime /\ MaxTime * 0 < 2^BucketWidth
  <2>1. MaxTime * 0 = 0
    BY BucketAssumption
  <2> QED
    BY <2>1, BucketAssumption
<1>2. BucketTypes
  BY <1>1 DEF BucketInit, BucketTypes, Buckets
<1> QED
  BY <1>2 DEF BucketInit, BucketInv, Even

LEMMA BucketStep == BucketInv /\ [BucketNext]_bucketVars => BucketInv'
<1> SUFFICES ASSUME BucketInv, [BucketNext]_bucketVars PROVE BucketInv'
  OBVIOUS
<1>1. CASE UNCHANGED bucketVars
  BY <1>1 DEF bucketVars, BucketInv, BucketTypes, Even, Metered, Allowed, WithinRate
<1> QED
  BY <1>1, StartMetered, ClockMetered, RequestsMetered DEF BucketNext

\* For any hour, capacity and rates: a bucket grants, in any interval of seconds,
\* no more than its capacity, what its rate lets through in that time and one
\* token, where its rate and the hour divide evenly, however requests of one
\* token, of several and ratelim_full fall between the seconds, and however
\* long it was idle (update_bucket, request_token, ratelim_request_ext).
THEOREM BucketsLimit == BucketSpec => []RateLimited
<1>1. BucketInv => RateLimited
  BY DEF BucketInv, RateLimited, Even
<1> QED
  BY <1>1, BucketStart, BucketStep, PTL DEF BucketSpec
=============================================================================
