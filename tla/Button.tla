------------------------------- MODULE Button -------------------------------
(***************************************************************************)
(* A button of modules/button/src/button.c: a shift register of level      *)
(* samples that debounces both edges, the count of clicks within a window, *)
(* and the repeats of a held button, all timed by a clock that wraps.      *)
(* The buttons of the pool share nothing but the lock of button_new and    *)
(* button_delete, so the pool here has one slot.                           *)
(***************************************************************************)
EXTENDS Integers, Sequences

CONSTANTS
    Params,     \* what callers pass to button_set_param
    Default,    \* get_default_param
    Bits,       \* sizeof(waveform_t) * 8
    ClockMod,   \* 2 ^ 32, the range of the times
    CountMod,   \* 2 ^ 16, the range of clicks and repeats
    Deltas,     \* what callers pass to button_step_delta
    MaxAge      \* where the observed ages stop growing, above every delay

\* struct button_param
Parameters ==
    [period : Nat, debounce : Nat, delay : Nat, rate : Nat, window : Nat, timeout : Nat]

IsParamOk(p) ==
    /\ p.period > 0
    /\ \A t \in {p.debounce, p.delay, p.rate, p.window} : p.timeout >= t
    /\ p.debounce \div p.period < Bits - 2

\* Callers may pass anything; the default parameters are ones that is_param_ok
\* accepts.
ASSUME ButtonAssumption ==
    /\ Bits \in Nat /\ ClockMod \in Nat \ {0} /\ CountMod \in Nat \ {0}
    /\ Deltas \subseteq Nat /\ MaxAge \in Nat
    /\ Params \subseteq Parameters /\ Default \in Parameters /\ IsParamOk(Default)
    /\ \A p \in Params \union {Default} : MaxAge >= p.delay /\ MaxAge >= p.rate

VARIABLES
    allocated, buttonActive, pressed, param,
    wave,           \* data.waveform, the last Bits samples
    timestamp, timePressed, timeReleased, timeRepeat,
    clicks, repeats, state,
    event,          \* what the last call reported to the callback
    edge,           \* the last edge reported (observation)
    age,            \* time since the press or its last repeat (observation)
    repeated,       \* HOLDING was reported since the press (observation)
    fresh           \* param has not changed since the last sample (observation)

times == <<timestamp, timePressed, timeReleased, timeRepeat>>
buttonData == <<pressed, wave, times, clicks, repeats, state>>
seen == <<edge, age, repeated>>
buttonVars == <<allocated, buttonActive, param, buttonData, event, seen, fresh>>

Levels == {0, 1}
Clock == 0 .. (ClockMod - 1)
Since(t, past) == (t - past) % ClockMod
Zeros == [k \in 1 .. Bits |-> 0]
None == "UNKNOWN"

\* Mutant: the periods that fit, not the samples around them.
GetDebounceCountShort(p) == p.debounce \div p.period

GetDebounceCount(p) == p.debounce \div p.period + 1
NewestAre(w, n, level) == \A k \in (Bits - n + 1) .. Bits : w[k] = level

\* is_button_up and is_button_down look at the newest samples only.
IsUp(w) == NewestAre(w, GetDebounceCount(param), 0)
IsDown(w) == NewestAre(w, GetDebounceCount(param), 1)

\* The sample before these may have any level: an old one after a resync.
IsButtonPressed(w) == ~pressed /\ IsDown(w)
IsButtonReleased(w) == pressed /\ IsUp(w)

IsClickWindowClosed(n, released, t) ==
    param.window = 0 \/ n = 0 \/ Since(t, released) >= param.window

Busy == ~IsUp(wave) \/ ~IsClickWindowClosed(clicks, timeReleased, timestamp)

ButtonInit ==
    /\ allocated = FALSE /\ buttonActive = FALSE /\ param = Default
    /\ pressed = FALSE /\ wave = Zeros
    /\ timestamp = 0 /\ timePressed = 0 /\ timeReleased = 0 /\ timeRepeat = 0
    /\ clicks = 0 /\ repeats = 0 /\ state = None /\ event = None
    /\ edge = None /\ age = 0 /\ repeated = FALSE
    /\ fresh = TRUE

\* A cleared slot keeps nothing, so the allocation only marks it and takes the
\* default parameters.
New ==
    /\ ~allocated
    /\ allocated' = TRUE
    /\ param' = Default
    /\ event' = None
    /\ UNCHANGED <<buttonActive, buttonData, seen, fresh>>

Delete ==
    /\ allocated
    /\ allocated' = FALSE /\ buttonActive' = FALSE /\ param' = Default
    /\ pressed' = FALSE /\ wave' = Zeros
    /\ timestamp' = 0 /\ timePressed' = 0 /\ timeReleased' = 0 /\ timeRepeat' = 0
    /\ clicks' = 0 /\ repeats' = 0 /\ state' = None /\ event' = None
    /\ edge' = None /\ age' = 0 /\ repeated' = FALSE
    /\ fresh' = TRUE

\* button_enable and button_disable
SetActive(on) ==
    /\ allocated
    /\ buttonActive' = on
    /\ event' = None
    /\ UNCHANGED <<allocated, param, buttonData, seen, fresh>>

\* A sampling timeout of zero stands for the default one.
SetParam(p) ==
    LET copy == IF p.timeout = 0
                THEN [p EXCEPT !.timeout = Default.timeout] ELSE p
    IN /\ allocated
       /\ IF copy.period > 0 /\ IsParamOk(copy)
          THEN param' = copy /\ fresh' = FALSE
          ELSE UNCHANGED <<param, fresh>>
       /\ event' = None
       /\ UNCHANGED <<allocated, buttonActive, buttonData, seen>>

\* update_state: every pulse shifts in what the level is when it is read.
UpdateState(pulses) ==
    \E levels \in [1 .. pulses -> Levels] :
        wave' = LET w == wave \o levels
                IN SubSeq(w, Len(w) - Bits + 1, Len(w))

\* Mutant: the time of the last repeat survives the next press.
ProcessPressedKeepsRepeat(t) ==
    /\ IsButtonPressed(wave')
    /\ pressed' = TRUE
    /\ timePressed' = t /\ repeats' = 0
    /\ event' = "PRESSED"
    /\ UNCHANGED <<timeReleased, timeRepeat>>

ProcessPressed(t) ==
    /\ IsButtonPressed(wave')
    /\ pressed' = TRUE
    /\ timePressed' = t /\ timeRepeat' = 0 /\ repeats' = 0
    /\ event' = "PRESSED"
    /\ UNCHANGED timeReleased

\* Mutant: the release is reported and not recorded.
ProcessReleasedStays(t) ==
    /\ IsButtonReleased(wave')
    /\ timeReleased' = t
    /\ event' = "RELEASED"
    /\ UNCHANGED <<pressed, timePressed, timeRepeat, repeats>>

ProcessReleased(t) ==
    /\ IsButtonReleased(wave')
    /\ pressed' = FALSE
    /\ timeReleased' = t
    /\ event' = "RELEASED"
    /\ UNCHANGED <<timePressed, timeRepeat, repeats>>

\* The condition under which process_holding reports a repeat: timeRepeat is
\* zero until the first one.
RepeatDue(t) ==
    /\ param.delay # 0
    /\ IF timeRepeat # 0
       THEN param.rate # 0 /\ Since(t, timeRepeat) >= param.rate
       ELSE Since(t, timePressed) >= param.delay

ProcessHolding(t) ==
    /\ pressed /\ IsDown(wave')
    /\ IF RepeatDue(t)
       THEN /\ timeRepeat' = t
            /\ repeats' = (repeats + 1) % CountMod
            /\ event' = "HOLDING"
       ELSE event' = None /\ UNCHANGED <<timeRepeat, repeats>>
    /\ UNCHANGED <<pressed, timePressed, timeReleased>>

\* Neither edge nor held: the level is bouncing, or stays low.
ProcessNothing ==
    /\ ~IsDown(wave') /\ ~IsButtonReleased(wave')
    /\ event' = None
    /\ UNCHANGED <<pressed, timePressed, timeReleased, timeRepeat, repeats>>

\* Mutants: the counter of clicks does not wrap; it is cleared at the release
\* or not at all.
CountClicksUnbounded(t) ==
    LET n == IF event' = "PRESSED" THEN clicks + 1 ELSE clicks
    IN clicks' = IF IsUp(wave') /\ IsClickWindowClosed(n, timeReleased', t)
                 THEN 0 ELSE n

CountClicksAtRelease(t) ==
    LET n == IF event' = "PRESSED" THEN (clicks + 1) % CountMod ELSE clicks
    IN clicks' = IF event' = "RELEASED" /\ IsClickWindowClosed(n, timeReleased', t)
                 THEN 0 ELSE n

CountClicks(t) ==
    LET n == IF event' = "PRESSED" THEN (clicks + 1) % CountMod ELSE clicks
    IN clicks' = IF IsUp(wave') /\ IsClickWindowClosed(n, timeReleased', t)
                 THEN 0 ELSE n

\* What the events amount to, kept for the properties.
Observe(elapsed) ==
    /\ edge' = IF event' \in {"PRESSED", "RELEASED"} THEN event' ELSE edge
    /\ age' = IF event' # None \/ edge # "PRESSED" THEN 0
              ELSE IF age + elapsed > MaxAge THEN MaxAge ELSE age + elapsed
    /\ repeated' = (event' = "HOLDING" \/ (event' = None /\ repeated))
    /\ fresh' = TRUE

\* process_button when at least one sampling period has passed (before that the
\* call changes nothing and the next one sees the time again). After a gap
\* longer than the sampling timeout a single sample is taken.
ProcessButton(t) ==
    LET elapsed == Since(t, timestamp)
        corrected == (t - (elapsed % param.period)) % ClockMod
        pulses == elapsed \div param.period
    IN /\ pulses > 0
       /\ UpdateState(IF elapsed > param.timeout THEN 1 ELSE pulses)
       /\ \/ ProcessPressed(corrected)
          \/ ProcessReleased(corrected)
          \/ ProcessHolding(corrected)
          \/ ProcessNothing
       /\ CountClicks(corrected)
       /\ state' = IF event' = None THEN state ELSE event'
       /\ timestamp' = corrected
       /\ Observe(pulses * param.period)

Step(t) ==
    /\ allocated /\ buttonActive
    /\ ProcessButton(t)
    /\ UNCHANGED <<allocated, buttonActive, param>>

StepDelta(delta) == Step((timestamp + delta) % ClockMod)

ButtonNext ==
    \/ New \/ Delete
    \/ \E on \in BOOLEAN : SetActive(on)
    \/ \E p \in Params : SetParam(p)
    \/ \E t \in Clock : Step(t)
    \/ \E d \in Deltas : StepDelta(d)

ButtonSpec == ButtonInit /\ [][ButtonNext]_buttonVars

-----------------------------------------------------------------------------

\* Every variable has its type, the times and counters within their widths, and
\* the parameters in use are ones that is_param_ok accepts.
ButtonTypeOK ==
    /\ {allocated, buttonActive, pressed, repeated, fresh} \subseteq BOOLEAN
    /\ param \in Parameters /\ IsParamOk(param)
    /\ wave \in [1 .. Bits -> Levels]
    /\ {timestamp, timePressed, timeReleased, timeRepeat} \subseteq Clock
    /\ {clicks, repeats} \subseteq 0 .. (CountMod - 1)
    /\ {state, event} \subseteq {None, "PRESSED", "RELEASED", "HOLDING"}

\* How many of the newest samples agree.
Run(w) == CHOOSE n \in 1 .. Bits :
            /\ NewestAre(w, n, w[Bits])
            /\ n = Bits \/ w[Bits - n] # w[Bits]

(***************************************************************************)
(* button_step reports an edge only when the samples have agreed on the    *)
(* new level for longer than debounce_duration_ms, and once they have, the *)
(* edge has been reported.  Samples, not the level: a late call reads the  *)
(* level at one instant for every sample it missed (update_state), so a    *)
(* bounce that a late call meets can pass for a press.                     *)
(***************************************************************************)
EdgeDebounced ==
    LET Long == Run(wave) * param.period > param.debounce
    IN /\ event = "PRESSED" => Long /\ wave[Bits] = 1
       /\ event = "RELEASED" => Long /\ wave[Bits] = 0
       /\ fresh /\ Long => pressed = (wave[Bits] = 1)

(***************************************************************************)
(* The callback sees presses and releases in turn, and repeats of a held   *)
(* button only between a press and its release, also when the button is    *)
(* disabled in between, its parameters change or the clock wraps.          *)
(***************************************************************************)
EdgesAlternate ==
    [][ /\ event' = "PRESSED" => edge # "PRESSED"
        /\ event' \in {"RELEASED", "HOLDING"} => edge = "PRESSED" ]_buttonVars

(***************************************************************************)
(* A repeat is reported no earlier than repeat_delay_ms after the press,   *)
(* and no earlier than repeat_rate_ms after the repeat before it, never if *)
(* that rate is zero. The repeat that falls on the clock value zero is the *)
(* exception: the code takes zero for "no repeat yet".                     *)
(***************************************************************************)
RepeatPaced ==
    [][ event' = "HOLDING" =>
          LET elapsed == age + Since(timestamp', timestamp)
          IN IF repeated
             THEN timeRepeat = 0 \/ (param.rate # 0 /\ elapsed >= param.rate)
             ELSE param.delay # 0 /\ elapsed >= param.delay ]_buttonVars

(***************************************************************************)
(* A caller may stop calling button_step once button_busy is false: the    *)
(* button is then released, as far as the callback knows too, and no click *)
(* is left to be counted with a later one.                                 *)
(***************************************************************************)
IdleIsQuiet ==
    fresh /\ ~Busy => ~pressed /\ edge # "PRESSED" /\ clicks = 0

(***************************************************************************)
(* What an application relies on button.c for: presses and releases in     *)
(* turn, each after the level was stable for the debounce time, repeats at *)
(* their rate, and nothing while the button rests.                         *)
(***************************************************************************)
ButtonFaithful ==
    [](ButtonTypeOK /\ EdgeDebounced /\ IdleIsQuiet) /\ EdgesAlternate /\ RepeatPaced
=============================================================================
