------------------------------- MODULE Buzzer -------------------------------
(***************************************************************************)
(* modules/buzzer/src/buzzer.c: melodies played with a PWM channel and a   *)
(* one-shot timer.  buzzer_play, buzzer_mute and buzzer_unmute take a      *)
(* semaphore; on_timeout, which moves to the next tone in the context of   *)
(* the timer, takes none, and its accesses interleave with theirs.         *)
(*                                                                         *)
(* A melody is the sequence of its tones, TRUE for a sound and FALSE for a *)
(* rest.  The timer and the PWM channel are external: stopping a timer     *)
(* does not stop a callback that has begun, and a duty set on a stopped    *)
(* channel drives it again.                                                *)
(***************************************************************************)
EXTENDS Integers, Sequences

CONSTANTS
    Melodies,   \* the melodies, nonempty sequences of BOOLEAN
    MaxPlays    \* how many melodies are played

Idle == "idle"

VARIABLES
    melody, index,  \* playing
    enabled,        \* the buzzer is not muted
    driven,         \* the PWM output drives the buzzer with a sound
    armed,          \* the timer runs
    owner,          \* who holds m.lock: "app" or Idle
    app,            \* where the application's call is
    new,            \* the melody its call was given
    cb,             \* where the callback is
    loaded, prev,   \* playing->index as the callback read it to add one, and
                    \* the tone it stands for
    plays           \* melodies played (observation)

buzzerVars == <<melody, index, enabled, driven, armed, owner, app, new, cb, loaded, prev, plays>>

BuzzerInit ==
    /\ melody = <<>> /\ index = 1 /\ enabled = TRUE
    /\ driven = FALSE /\ armed = FALSE
    /\ owner = Idle /\ app = Idle /\ new = <<>>
    /\ cb = Idle /\ loaded = 1 /\ prev = FALSE /\ plays = 0

\* A tone beyond the end of the melody is read from whatever follows it.
Pitches(i) == IF i \in 1 .. Len(melody) THEN {melody[i]} ELSE BOOLEAN

(***************************************************************************)
(* The application                                                         *)
(***************************************************************************)

Call(l) == owner = Idle /\ app = Idle /\ owner' = "app" /\ app' = l
Return == app' = Idle /\ owner' = Idle

\* buzzer_play; a muted buzzer plays nothing.
Play(m) ==
    /\ enabled /\ plays < MaxPlays
    /\ Call("stop_timer") /\ new' = m /\ plays' = plays + 1
    /\ UNCHANGED <<melody, index, enabled, driven, armed, cb, loaded, prev>>

\* play: apptmr_stop
StopTimer ==
    /\ app = "stop_timer" /\ app' = "stop_pwm" /\ armed' = FALSE
    /\ UNCHANGED <<melody, index, enabled, driven, owner, new, cb, loaded, prev, plays>>

\* play: lm_pwm_stop
StopPwm ==
    /\ app = "stop_pwm" /\ app' = "select" /\ driven' = FALSE
    /\ UNCHANGED <<melody, index, enabled, armed, owner, new, cb, loaded, prev, plays>>

\* play: the melody, then its first tone.
Select ==
    /\ app = "select" /\ app' = "rewind" /\ melody' = new
    /\ UNCHANGED <<index, enabled, driven, armed, owner, new, cb, loaded, prev, plays>>

Rewind ==
    /\ app = "rewind" /\ app' = "start_pwm" /\ index' = 1
    /\ UNCHANGED <<melody, enabled, driven, armed, owner, new, cb, loaded, prev, plays>>

\* play: lm_pwm_start with half a duty, and a frequency of 0 for a rest.
StartPwm ==
    /\ app = "start_pwm" /\ app' = "start_timer"
    /\ driven' = melody[1]
    /\ UNCHANGED <<melody, index, enabled, armed, owner, new, cb, loaded, prev, plays>>

\* play: apptmr_start, and buzzer_play returns.
StartTimer ==
    /\ app = "start_timer" /\ Return /\ armed' = TRUE /\ new' = <<>>
    /\ UNCHANGED <<melody, index, enabled, driven, cb, loaded, prev, plays>>

\* buzzer_mute: the channel stops, the timer does not.
Mute ==
    /\ Call("mute") /\ driven' = FALSE
    /\ UNCHANGED <<melody, index, enabled, armed, new, cb, loaded, prev, plays>>

MuteDone ==
    /\ app = "mute" /\ Return /\ enabled' = FALSE
    /\ UNCHANGED <<melody, index, driven, armed, new, cb, loaded, prev, plays>>

\* buzzer_unmute
Unmute ==
    /\ owner = Idle /\ ~enabled /\ enabled' = TRUE
    /\ UNCHANGED <<melody, index, driven, armed, owner, app, new, cb, loaded, prev, plays>>

(***************************************************************************)
(* The callback                                                            *)
(***************************************************************************)

\* The timer expires: on_timeout reads the index it is about to increment, and
\* keeps the tone that ends.
Timeout ==
    /\ armed /\ cb = Idle
    /\ armed' = FALSE /\ cb' = "next" /\ loaded' = index
    /\ prev' \in Pitches(index)
    /\ UNCHANGED <<melody, index, enabled, driven, owner, app, new, plays>>

\* A bug the runs must notice: the last tone keeps sounding.
NextToneNoStop ==
    /\ cb = "next" /\ index' = loaded + 1
    /\ IF index' > Len(melody) THEN cb' = Idle ELSE cb' = "tone"
    /\ UNCHANGED <<melody, enabled, driven, armed, owner, app, new, loaded, prev, plays>>

\* It writes the index back and compares it: past the end it stops the
\* channel, and on_stop is called.
NextTone ==
    /\ cb = "next" /\ index' = loaded + 1
    /\ IF index' > Len(melody) THEN cb' = "stop" ELSE cb' = "tone"
    /\ UNCHANGED <<melody, enabled, driven, armed, owner, app, new, loaded, prev, plays>>

Stop ==
    /\ cb = "stop" /\ cb' = Idle /\ driven' = FALSE
    /\ UNCHANGED <<melody, index, enabled, armed, owner, app, new, loaded, prev, plays>>

\* The tone at the index: no duty for a rest, half a duty after a rest.
SetTone ==
    /\ cb = "tone" /\ cb' = "restart"
    /\ \E pitch \in Pitches(index) :
        driven' = (pitch /\ (~prev \/ driven))
    /\ UNCHANGED <<melody, index, enabled, armed, owner, app, new, loaded, prev, plays>>

\* apptmr_start for this tone, and on_timeout returns.
Restart ==
    /\ cb = "restart" /\ cb' = Idle /\ armed' = TRUE
    /\ UNCHANGED <<melody, index, enabled, driven, owner, app, new, loaded, prev, plays>>

App ==
    \/ \E m \in Melodies : Play(m)
    \/ StopTimer \/ StopPwm \/ Select \/ Rewind \/ StartPwm \/ StartTimer
    \/ Mute \/ MuteDone \/ Unmute

Timer == Timeout \/ NextTone \/ Stop \/ SetTone \/ Restart

BuzzerNext == App \/ Timer

BuzzerSpec == BuzzerInit /\ [][BuzzerNext]_buzzerVars

(***************************************************************************)
(* Properties                                                              *)
(***************************************************************************)

Quiet == app = Idle /\ cb = Idle /\ ~armed

\* When no call and no callback is in progress and the timer does not run, so
\* that nothing would ever turn the sound off, the buzzer makes none: whatever
\* a callback that missed apptmr_stop does to the melody of a later play.
BuzzerQuiet == Quiet => ~driven
=============================================================================
