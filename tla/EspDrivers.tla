----------------------------- MODULE EspDrivers -----------------------------
(***************************************************************************)
(* The drivers of ports/esp-idf that keep records of a peripheral they     *)
(* set up through ESP-IDF (external, each call of which may fail): uart.c, *)
(* i2c.c, spi.c, pwm.c and apptmr.c.  They share nothing: each has its     *)
(* variables, its initial state and its steps, and a step of the whole is  *)
(* a step of one of them.                                                  *)
(***************************************************************************)
EXTENDS Naturals, FiniteSets, FiniteSetsExt, Functions

(***************************************************************************)
(* ports/esp-idf/uart.c: one channel of the static uart array, and the     *)
(* channel's ESP-IDF driver (external), each call of which may fail.       *)
(***************************************************************************)
\* Frames outside KnownFrames are sent as DefaultFrame.
CONSTANTS Bauds, Frames, KnownFrames, DefaultFrame

VARIABLES
    uart,        \* [held, activated, baud, frame]
    uartHw,      \* external: [installed, baud, frame, tx, rx]
    uartOk       \* ghost: the last enable or configure returned 0

uartVars == <<uart, uartHw, uartOk>>

UartBlank == [held |-> FALSE, activated |-> FALSE, baud |-> 0, frame |-> DefaultFrame]

UartInit ==
    /\ uart = UartBlank
    /\ uartHw = [installed |-> FALSE, baud |-> 0, frame |-> DefaultFrame, tx |-> FALSE, rx |-> FALSE]
    /\ uartOk = TRUE

\* The settings uart_param_config gets for a configuration.
UartSetConfig(c) == [baud |-> c.baud, frame |-> IF c.frame \in KnownFrames THEN c.frame ELSE DefaultFrame]

UartSettings == [baud |-> uartHw.baud, frame |-> uartHw.frame]

UartUpdateConfig(c) ==
    \/ /\ uartHw' = [uartHw EXCEPT !.baud = UartSetConfig(c).baud, !.frame = UartSetConfig(c).frame]
       /\ uartOk' = TRUE
    \/ UNCHANGED uartHw /\ uartOk' = FALSE

UartCreate ==
    /\ ~uart.activated
    /\ uart' = [UartBlank EXCEPT !.held = TRUE]
    /\ UNCHANGED <<uartHw, uartOk>>

\* The driver of a channel that is still activated stays installed.
UartDelete ==
    /\ uart.held
    /\ uart' = UartBlank
    /\ UNCHANGED <<uartHw, uartOk>>

UartConfigure(baud, frame) ==
    LET c == [uart EXCEPT !.baud = IF baud = 0 THEN uart.baud ELSE baud, !.frame = frame]
    IN  /\ uart.held
        /\ uart' = c
        /\ IF uart.activated THEN UartUpdateConfig(c) ELSE UNCHANGED <<uartHw, uartOk>>

\* Nothing is undone when the pins or the settings are refused after the install.
UartEnable(baud) ==
    /\ uart.held /\ ~uart.activated
    /\ ~uartHw.installed
    /\ uart' = [uart EXCEPT !.activated = TRUE, !.baud = baud]
    /\ \/ /\ uartHw' = [uartHw EXCEPT !.installed = TRUE, !.baud = UartSetConfig(uart').baud,
                                      !.frame = UartSetConfig(uart').frame]
          /\ uartOk' = TRUE
       \/ uartHw' = [uartHw EXCEPT !.installed = TRUE] /\ uartOk' = FALSE

UartDisable ==
    /\ uart.activated
    /\ uart' = [uart EXCEPT !.activated = FALSE]
    /\ uartHw' = [uartHw EXCEPT !.installed = FALSE, !.tx = FALSE, !.rx = FALSE]
    /\ UNCHANGED uartOk

UartTransfer ==
    /\ uart.activated
    /\ UNCHANGED <<uart, uartOk>>

UartWrite == UartTransfer /\ uartHw' = [uartHw EXCEPT !.tx = TRUE]
UartFlush == UartTransfer /\ uartHw' = [uartHw EXCEPT !.tx = FALSE]
UartRead == UartTransfer /\ uartHw.rx /\ uartHw' = [uartHw EXCEPT !.rx = FALSE]
UartClear == UartTransfer /\ uartHw' = [uartHw EXCEPT !.rx = FALSE]

\* The line: bytes arrive.
UartArrive == uartHw.installed /\ uartHw' = [uartHw EXCEPT !.rx = TRUE] /\ UNCHANGED <<uart, uartOk>>

UartNext ==
    \/ UartCreate \/ UartDelete \/ UartDisable \/ UartWrite \/ UartFlush \/ UartRead \/ UartClear \/ UartArrive
    \/ \E baud \in Bauds : UartEnable(baud)
    \/ \E baud \in Bauds \cup {0}, frame \in Frames : UartConfigure(baud, frame)

\* An activated channel has its driver, and unless the last change was refused
\* the line runs at the rate that was asked for, whatever was configured
\* before, and with the settings last stored.
UartAsConfigured ==
    uart.activated =>
        /\ uartHw.installed
        /\ uartOk => UartSettings = UartSetConfig(uart) /\ uartHw.baud # 0

(***************************************************************************)
(* ports/esp-idf/i2c.c: one bus and its device slots, shared by tasks that *)
(* take the bus mutex around each call.  The ESP-IDF bus (external) may    *)
(* refuse any call.  Nothing ever removes a device: the device api has no  *)
(* delete_device.                                                          *)
(***************************************************************************)
CONSTANTS I2cTasks, I2cMaxDevice, MaxLeaks, Nobody

VARIABLES
    busHw,         \* external: the master bus exists
    attached,      \* external: slots whose handle is a device of the bus
    i2cSlots,      \* slots of bus->devices that are not all zero
    i2cMutex,      \* its owner, Nobody, or "destroyed" (not initialised)
    i2cAt,         \* at[t]: the call t has under way, where it is, and its slot
    i2cLeaked,     \* buffers of write_reg that were not freed
    i2cUnguarded,  \* ghost: a task was in the driver without the mutex
    i2cRaced       \* ghost: two tasks were in the driver at once

i2cVars == <<busHw, attached, i2cSlots, i2cMutex, i2cAt, i2cLeaked, i2cUnguarded, i2cRaced>>
i2cGhosts == <<i2cUnguarded, i2cRaced>>

I2cIdle == [call |-> "none", pc |-> "none", slot |-> 0]

I2cInit ==
    /\ busHw = FALSE /\ attached = {} /\ i2cSlots = {}
    /\ i2cMutex = "destroyed"
    /\ i2cAt = [t \in I2cTasks |-> I2cIdle]
    /\ i2cLeaked = 0 /\ i2cUnguarded = FALSE /\ i2cRaced = FALSE

I2cLive == i2cMutex # "destroyed"

I2cInside(t) == i2cAt[t].pc \in {"in", "found", "deleted"}
I2cSomeInside == \E t \in I2cTasks : I2cInside(t)

I2cGoto(t, pc) == i2cAt' = [i2cAt EXCEPT ![t].pc = pc]
I2cReturn(t) == i2cAt' = [i2cAt EXCEPT ![t] = I2cIdle]

\* A call is made, before enable_i2c and after disable_i2c too.
I2cStart(t, call, slot) ==
    /\ i2cAt[t] = I2cIdle
    /\ i2cAt' = [i2cAt EXCEPT ![t] = [call |-> call, pc |-> "wait", slot |-> slot]]
    /\ UNCHANGED <<busHw, attached, i2cSlots, i2cMutex, i2cLeaked, i2cGhosts>>

\* enable_i2c: the bus, then its mutex, whoever waits for the one before.
I2cNewBus(t) ==
    /\ i2cAt[t].call = "enable" /\ i2cAt[t].pc = "wait"
    /\ \/ ~busHw /\ busHw' = TRUE /\ I2cGoto(t, "made")
       \/ UNCHANGED busHw /\ I2cReturn(t)
    /\ UNCHANGED <<attached, i2cSlots, i2cMutex, i2cLeaked, i2cGhosts>>

I2cMutexInit(t) ==
    /\ i2cAt[t].pc = "made"
    /\ i2cMutex' = Nobody /\ I2cReturn(t)
    /\ i2cUnguarded' = (i2cUnguarded \/ I2cSomeInside)
    /\ UNCHANGED <<busHw, attached, i2cSlots, i2cLeaked, i2cRaced>>

\* pthread_mutex_lock: nobody looks at its result when there is no mutex.
I2cAcquire(t) ==
    /\ i2cAt[t].call # "enable" /\ i2cAt[t].pc = "wait"
    /\ \/ i2cMutex = Nobody /\ i2cMutex' = t /\ UNCHANGED i2cUnguarded
       \/ ~I2cLive /\ UNCHANGED i2cMutex /\ i2cUnguarded' = TRUE
    /\ i2cRaced' = (i2cRaced \/ I2cSomeInside)
    /\ I2cGoto(t, "in")
    /\ UNCHANGED <<busHw, attached, i2cSlots, i2cLeaked>>

I2cUnlock(t) == i2cMutex' = IF i2cMutex = t THEN Nobody ELSE i2cMutex

I2cRelease(t) == I2cUnlock(t) /\ I2cReturn(t) /\ UNCHANGED i2cGhosts

\* read_i2c, write_i2c, read_reg: a transfer, done or refused, and the unlock.
I2cTransfer(t) ==
    /\ i2cAt[t].call = "transfer" /\ i2cAt[t].pc = "in" /\ I2cRelease(t)
    /\ UNCHANGED <<busHw, attached, i2cSlots, i2cLeaked>>

\* write_reg frees its buffer only when the transfer succeeded.
I2cWriteReg(t) ==
    /\ i2cAt[t].call = "write_reg" /\ i2cAt[t].pc = "in" /\ I2cRelease(t)
    /\ i2cLeaked' \in {i2cLeaked, i2cLeaked + 1} /\ i2cLeaked' <= MaxLeaks
    /\ UNCHANGED <<busHw, attached, i2cSlots>>

\* new_device: the first free slot, which it then takes.
I2cNewDevice(t) ==
    /\ i2cAt[t].call = "create_device" /\ i2cAt[t].pc = "in"
    /\ IF i2cSlots = 1..I2cMaxDevice THEN I2cRelease(t)
       ELSE /\ i2cAt' = [i2cAt EXCEPT ![t] = [call |-> "create_device", pc |-> "found",
                                              slot |-> Min((1..I2cMaxDevice) \ i2cSlots)]]
            /\ UNCHANGED <<i2cMutex, i2cGhosts>>
    /\ UNCHANGED <<busHw, attached, i2cSlots, i2cLeaked>>

\* create_device: del_device takes the slot back when the bus refuses.
I2cCreateDevice(t) ==
    /\ i2cAt[t].pc = "found" /\ I2cRelease(t)
    /\ LET dev == i2cAt[t].slot IN
       \/ busHw /\ i2cSlots' = i2cSlots \cup {dev} /\ attached' = attached \cup {dev}
       \/ i2cSlots' = i2cSlots \ {dev} /\ UNCHANGED attached
    /\ UNCHANGED <<busHw, i2cLeaked>>

I2cReset(t) ==
    /\ i2cAt[t].call = "reset" /\ i2cAt[t].pc = "in" /\ I2cRelease(t)
    /\ UNCHANGED <<busHw, attached, i2cSlots, i2cLeaked>>

\* disable_i2c: a bus with devices cannot be deleted, and the mutex is unlocked
\* and destroyed all the same.
I2cDisable(t) ==
    /\ i2cAt[t].call = "disable" /\ i2cAt[t].pc = "in"
    /\ busHw' = (busHw /\ attached # {}) /\ I2cGoto(t, "deleted")
    /\ UNCHANGED <<attached, i2cSlots, i2cMutex, i2cLeaked, i2cGhosts>>

I2cDisableUnlock(t) ==
    /\ i2cAt[t].pc = "deleted"
    /\ I2cUnlock(t) /\ I2cGoto(t, "unlocked")
    /\ UNCHANGED <<busHw, attached, i2cSlots, i2cLeaked, i2cGhosts>>

\* A mutex that a waiter has taken meanwhile is destroyed under it, or stays.
I2cDestroy(t) ==
    /\ i2cAt[t].pc = "unlocked" /\ I2cReturn(t)
    /\ \/ i2cMutex' = "destroyed" /\ i2cUnguarded' = (i2cUnguarded \/ I2cSomeInside)
       \/ i2cMutex # Nobody /\ UNCHANGED <<i2cMutex, i2cUnguarded>>
    /\ UNCHANGED <<busHw, attached, i2cSlots, i2cLeaked, i2cRaced>>

I2cNext ==
    \E t \in I2cTasks :
        \/ \E s \in attached : I2cStart(t, "transfer", s) \/ I2cStart(t, "write_reg", s)
        \/ \E call \in {"enable", "create_device", "reset", "disable"} : I2cStart(t, call, 0)
        \/ I2cNewBus(t) \/ I2cMutexInit(t) \/ I2cAcquire(t) \/ I2cTransfer(t) \/ I2cWriteReg(t)
        \/ I2cNewDevice(t) \/ I2cCreateDevice(t) \/ I2cReset(t)
        \/ I2cDisable(t) \/ I2cDisableUnlock(t) \/ I2cDestroy(t)

\* The slots the tasks can use are exactly the devices of the bus however the
\* calls interleave and fail, and a transfer that is under way has its device,
\* until two tasks are in the driver at once; that takes a call made without a
\* mutex, before enable_i2c has returned or once disable_i2c was called.  The bus
\* of a device is never deleted.
I2cSlotsMatch ==
    /\ attached # {} => busHw
    /\ i2cRaced => i2cUnguarded
    /\ i2cRaced \/
        /\ i2cSlots = attached
        /\ \A t \in I2cTasks : i2cAt[t].call \in {"transfer", "write_reg"} => i2cAt[t].slot \in attached

\* Not so (i2c.c:168, 226-229): calls before enable_i2c or after a disable_i2c, one
\* that failed too, run side by side, and one that waited for the mutex while
\* disable_i2c ran takes it, live, and runs on a bus that is deleted.
I2cAlone == ~i2cRaced
I2cBusStays == \A t \in I2cTasks : I2cInside(t) /\ i2cMutex = t /\ i2cAt[t].pc = "in" => busHw

(***************************************************************************)
(* ports/esp-idf/spi.c: one host and its device slots.  The bus of ESP-IDF *)
(* (external) may refuse to be initialised, to take a device or to let one *)
(* go.  A deleted device's spi pointer is cleared before it is used: the   *)
(* delete that gets that far ends the program.                             *)
(***************************************************************************)
CONSTANTS SpiMaxDevices, SpiMaxAdds

VARIABLES
    spiDev,        \* dev[i] = [spi, handle, enabled]
    spiBus,        \* external: the host is initialised
    spiAdded,      \* external: added[i], the devices of the bus made for slot i
    spiCrashed

spiVars == <<spiDev, spiBus, spiAdded, spiCrashed>>

SpiSlots == 1..SpiMaxDevices

SpiEmpty == [spi |-> FALSE, handle |-> FALSE, enabled |-> FALSE]

SpiInit ==
    /\ spiDev = [i \in SpiSlots |-> SpiEmpty]
    /\ spiBus = FALSE
    /\ spiAdded = [i \in SpiSlots |-> 0]
    /\ spiCrashed = FALSE

IsBusInitialized == \E i \in SpiSlots : spiDev[i].handle

\* A slot is free until it is first enabled: two creates may share it.
SpiAllocDevice ==
    LET free == {i \in SpiSlots : ~spiDev[i].handle} IN IF free = {} THEN 0 ELSE Min(free)

SpiCreateDevice ==
    /\ SpiAllocDevice # 0
    /\ spiDev' = [spiDev EXCEPT ![SpiAllocDevice].spi = TRUE]
    /\ UNCHANGED <<spiBus, spiAdded, spiCrashed>>

\* lm_spi_enable: the bus when no slot has a handle, then the device.
SpiEnable(i) ==
    /\ spiDev[i].spi /\ SumFunction(spiAdded) < SpiMaxAdds
    /\ IF IsBusInitialized THEN spiBus /\ UNCHANGED spiBus ELSE ~spiBus /\ spiBus' = TRUE
    /\ \/ /\ spiDev' = [spiDev EXCEPT ![i].handle = TRUE, ![i].enabled = TRUE]
          /\ spiAdded' = [spiAdded EXCEPT ![i] = @ + 1]
       \/ UNCHANGED <<spiDev, spiAdded>>
    /\ UNCHANGED spiCrashed

\* disable_spi_device without the release: the stale handle keeps its slot.
SpiDisable(i) ==
    /\ spiDev[i].enabled /\ spiDev[i].handle
    /\ spiDev' = [spiDev EXCEPT ![i].enabled = FALSE]
    /\ spiAdded' = [spiAdded EXCEPT ![i] = @ - 1]
    /\ UNCHANGED <<spiBus, spiCrashed>>

\* ... and with it: dev->spi is read after free_device cleared it.
SpiDeleteDevice(i) ==
    /\ spiDev[i].enabled /\ spiDev[i].handle
    /\ spiDev' = [spiDev EXCEPT ![i] = SpiEmpty]
    /\ spiAdded' = [spiAdded EXCEPT ![i] = @ - 1]
    /\ spiCrashed' = TRUE
    /\ UNCHANGED spiBus

\* lm_spi_write and lm_spi_writeread use the handle as it is.
SpiTransfer(i) == spiDev[i].handle /\ UNCHANGED spiVars

\* lm_spi_create clears the slots of the channel, whatever they hold, but not
\* their enabled flags.
SpiCreate ==
    /\ spiDev' = [i \in SpiSlots |-> [spiDev[i] EXCEPT !.spi = FALSE, !.handle = FALSE]]
    /\ UNCHANGED <<spiBus, spiAdded, spiCrashed>>

SpiNext ==
    /\ ~spiCrashed
    /\ \/ SpiCreateDevice \/ SpiCreate
       \/ \E i \in SpiSlots : SpiEnable(i) \/ SpiDisable(i) \/ SpiDeleteDevice(i) \/ SpiTransfer(i)

\* A device that is enabled and has a handle is on the bus, the bus of a device is
\* initialised, and the test the code makes for an initialised bus never says
\* so of one that is not.
SpiBusMatches ==
    /\ \A i \in SpiSlots : spiDev[i].enabled /\ spiDev[i].handle => spiAdded[i] > 0
    /\ \A i \in SpiSlots : spiAdded[i] > 0 => spiBus
    /\ IsBusInitialized => spiBus

(***************************************************************************)
(* ports/esp-idf/pwm.c: timers that share the channels of the LEDC         *)
(* peripheral (external).  lm_pwm_delete_channel reads the timer through   *)
(* the pointer it just cleared; the value is not used and an optimising    *)
(* build drops the read, which is the outcome modelled.                    *)
(***************************************************************************)
CONSTANTS PwmTimers, PwmChannels, PwmPins, PwmDuties, NoTimer, NoPin

VARIABLES
    chan,       \* chan[c] = [pwm, pin, enabled]
    uses,       \* uses[t]: the channels in t's own array
    ledc,       \* external: ledc[c] = [pin, timer, duty]
    inherited   \* ghost: channels created while still marked enabled

pwmVars == <<chan, uses, ledc, inherited>>

PwmInit ==
    /\ chan = [c \in PwmChannels |-> [pwm |-> NoTimer, pin |-> NoPin, enabled |-> FALSE]]
    /\ uses = [t \in PwmTimers |-> {}]
    /\ ledc = [c \in PwmChannels |-> [pin |-> NoPin, timer |-> NoTimer, duty |-> 0]]
    /\ inherited = {}

PwmOwned(c) == chan[c].pwm # NoTimer

\* A bug the runs must notice: a taken channel changes its owner.
PwmAllocChannelTaken(t, c, pin) == chan' = [chan EXCEPT ![c].pwm = t, ![c].pin = pin]

PwmAllocChannel(t, c, pin) ==
    chan' = IF PwmOwned(c) THEN chan ELSE [chan EXCEPT ![c].pwm = t, ![c].pin = pin]

\* The timer's own entry becomes NULL when the channel is taken, even by itself.
PwmCreateChannel(t, c, pin) ==
    /\ PwmAllocChannel(t, c, pin)
    /\ uses' = [uses EXCEPT ![t] = IF PwmOwned(c) THEN @ \ {c} ELSE @ \cup {c}]
    /\ inherited' = IF ~PwmOwned(c) /\ chan[c].enabled THEN inherited \cup {c} ELSE inherited
    /\ UNCHANGED ledc

PwmDeleteChannel(c) ==
    /\ PwmOwned(c)
    /\ chan' = [chan EXCEPT ![c].pwm = NoTimer]
    /\ UNCHANGED <<uses, ledc, inherited>>

InitializeLedc(c) == [pin |-> chan[c].pin, timer |-> chan[c].pwm, duty |-> 0]

PwmEnable(c) ==
    /\ PwmOwned(c) /\ ~chan[c].enabled
    /\ ledc' = [ledc EXCEPT ![c] = InitializeLedc(c)]
    /\ chan' = [chan EXCEPT ![c].enabled = TRUE]
    /\ inherited' = inherited \ {c}
    /\ UNCHANGED uses

\* The output is left as it is.
PwmDisable(c) ==
    /\ chan[c].enabled
    /\ chan' = [chan EXCEPT ![c].enabled = FALSE]
    /\ UNCHANGED <<uses, ledc, inherited>>

\* update_duty, also by lm_pwm_start and, with 0, by ledc_stop; enabled or not.
PwmUpdateDuty(c, duty) ==
    /\ PwmOwned(c)
    /\ ledc' = [ledc EXCEPT ![c].duty = duty]
    /\ UNCHANGED <<chan, uses, inherited>>

\* lm_pwm_create clears the timer's array and not the channels it owns.
PwmCreate(t) ==
    /\ uses' = [uses EXCEPT ![t] = {}]
    /\ UNCHANGED <<chan, ledc, inherited>>

PwmNext ==
    \/ \E t \in PwmTimers : PwmCreate(t)
    \/ \E t \in PwmTimers, c \in PwmChannels, pin \in PwmPins : PwmCreateChannel(t, c, pin)
    \/ \E c \in PwmChannels : PwmDeleteChannel(c) \/ PwmEnable(c) \/ PwmDisable(c)
    \/ \E c \in PwmChannels, duty \in PwmDuties : PwmUpdateDuty(c, duty)

\* Whatever the timers do with each other's channels, a channel that its owner
\* enabled drives the owner's pin from the owner's timer.  (A channel deleted
\* while enabled and then created again cannot be enabled: it is excluded.)
PwmDrivesItsPin ==
    \A c \in PwmChannels : PwmOwned(c) /\ chan[c].enabled /\ c \notin inherited =>
        ledc[c].pin = chan[c].pin /\ ledc[c].timer = chan[c].pwm

(***************************************************************************)
(* ports/esp-idf/apptmr.c: a pool of timers over esp_timer (external).     *)
(* The milliseconds are made microseconds in Width-bit arithmetic.         *)
(***************************************************************************)
CONSTANTS
    AppTmrMax, TmrWidth, TmrThousand,
    TmrTimeouts,         \* what the callers ask for, in milliseconds
    TmrMaxLost           \* bound on the refused esp_timer_create calls

VARIABLES
    tmrPool,             \* pool[i] = [used, handle, periodic]
    tmrCreated,
    tmrRunning,          \* external: running[i], microseconds to go, or 0
    tmrPeriod,           \* external: the period of a periodic one, else 0
    tmrAsked,            \* ghost: microseconds the caller of start meant
    tmrCalled            \* ghost: calls of the callback in the last step

tmrVars == <<tmrPool, tmrCreated, tmrRunning, tmrPeriod, tmrAsked, tmrCalled>>

TmrSlots == 1..AppTmrMax

TmrFree == [used |-> FALSE, handle |-> FALSE, periodic |-> FALSE]

TmrInit ==
    /\ tmrPool = [i \in TmrSlots |-> TmrFree]
    /\ tmrCreated = 0
    /\ tmrRunning = [i \in TmrSlots |-> 0]
    /\ tmrPeriod = tmrRunning /\ tmrAsked = tmrRunning
    /\ tmrCalled = {}

TmrNew == LET free == {i \in TmrSlots : ~tmrPool[i].used} IN IF free = {} THEN 0 ELSE Min(free)

TmrLost == Cardinality({i \in TmrSlots : tmrPool[i].used /\ ~tmrPool[i].handle})

\* A slot whose esp_timer could not be created is not given back.
TmrCreate(periodic, ok) ==
    /\ TmrNew # 0 /\ (~ok => TmrLost < TmrMaxLost)
    /\ tmrPool' = [tmrPool EXCEPT ![TmrNew] = [used |-> TRUE, handle |-> ok, periodic |-> periodic]]
    /\ tmrCreated' = IF ok THEN tmrCreated + 1 ELSE tmrCreated
    /\ tmrCalled' = {}
    /\ UNCHANGED <<tmrRunning, tmrPeriod, tmrAsked>>

\* esp_timer_delete refuses a running timer, which ends the program.
TmrDelete(i) ==
    /\ tmrPool[i].handle /\ tmrRunning[i] = 0
    /\ tmrPool' = [tmrPool EXCEPT ![i] = TmrFree]
    /\ tmrCreated' = tmrCreated - 1
    /\ tmrPeriod' = [tmrPeriod EXCEPT ![i] = 0]
    /\ tmrAsked' = [tmrAsked EXCEPT ![i] = 0]
    /\ tmrCalled' = {}
    /\ UNCHANGED tmrRunning

TmrRange == 2^TmrWidth

TmrUsec(ms) == (ms * TmrThousand) % TmrRange

\* start_apptmr; esp_timer refuses the start of a running timer.
TmrStart(i, ms) ==
    /\ tmrPool[i].handle /\ tmrRunning[i] = 0 /\ TmrUsec(ms) # 0
    /\ tmrRunning' = [tmrRunning EXCEPT ![i] = TmrUsec(ms)]
    /\ tmrPeriod' = [tmrPeriod EXCEPT ![i] = IF tmrPool[i].periodic THEN TmrUsec(ms) ELSE 0]
    /\ tmrAsked' = [tmrAsked EXCEPT ![i] = ms * TmrThousand]
    /\ tmrCalled' = {}
    /\ UNCHANGED <<tmrPool, tmrCreated>>

\* restart_apptmr; esp_timer refuses the restart of a stopped timer.
TmrRestart(i, ms) ==
    /\ tmrPool[i].handle /\ tmrRunning[i] # 0 /\ TmrUsec(ms) # 0
    /\ tmrRunning' = [tmrRunning EXCEPT ![i] = TmrUsec(ms)]
    /\ tmrPeriod' = [tmrPeriod EXCEPT ![i] = IF @ = 0 THEN 0 ELSE TmrUsec(ms)]
    /\ tmrAsked' = [tmrAsked EXCEPT ![i] = ms * TmrThousand]
    /\ tmrCalled' = {}
    /\ UNCHANGED <<tmrPool, tmrCreated>>

TmrStop(i) ==
    /\ tmrPool[i].handle
    /\ tmrRunning' = [tmrRunning EXCEPT ![i] = 0]
    /\ tmrCalled' = {}
    /\ UNCHANGED <<tmrPool, tmrCreated, tmrPeriod, tmrAsked>>

\* trigger: the callback at once, whether the timer runs or not.
TmrTrigger(i) ==
    /\ tmrPool[i].handle
    /\ tmrCalled' = {i}
    /\ UNCHANGED <<tmrPool, tmrCreated, tmrRunning, tmrPeriod, tmrAsked>>

\* esp_timer's task: callback_wrapper for the timers that have run out.
TmrElapse ==
    /\ tmrRunning' = [i \in TmrSlots |-> IF tmrRunning[i] = 1 THEN tmrPeriod[i]
                                   ELSE IF tmrRunning[i] = 0 THEN 0 ELSE tmrRunning[i] - 1]
    /\ tmrCalled' = {i \in TmrSlots : tmrRunning[i] = 1}
    /\ UNCHANGED <<tmrPool, tmrCreated, tmrPeriod, tmrAsked>>

TmrNext ==
    \/ \E periodic, ok \in BOOLEAN : TmrCreate(periodic, ok)
    \/ \E i \in TmrSlots : TmrDelete(i) \/ TmrStop(i) \/ TmrTrigger(i)
    \/ \E i \in TmrSlots, ms \in TmrTimeouts : TmrStart(i, ms) \/ TmrRestart(i, ms)
    \/ TmrElapse

\* apptmr_len is the number of timers the callers hold, and a running timer
\* has at most the time to go that was asked for, its whole period included,
\* as long as that fits the width.
ApptmrExact ==
    /\ tmrCreated = Cardinality({i \in TmrSlots : tmrPool[i].handle})
    /\ \A i \in TmrSlots : tmrRunning[i] # 0 =>
          /\ tmrPool[i].handle
          /\ tmrRunning[i] <= tmrAsked[i]
          /\ tmrAsked[i] < TmrRange => tmrPeriod[i] \in {0, tmrAsked[i]}

-----------------------------------------------------------------------------
ASSUME EspAssumption ==
    /\ 0 \notin Bauds
    /\ I2cMaxDevice \in Nat /\ "destroyed" \notin I2cTasks \cup {Nobody} /\ Nobody \notin I2cTasks
    /\ AppTmrMax \in Nat /\ TmrThousand \in Nat /\ TmrTimeouts \subseteq Nat
    /\ TmrRange \in Nat \ {0}

EspInit == UartInit /\ I2cInit /\ SpiInit /\ PwmInit /\ TmrInit

\* A step of one driver.
EspNext ==
    \/ UartNext /\ UNCHANGED <<i2cVars, spiVars, pwmVars, tmrVars>>
    \/ I2cNext /\ UNCHANGED <<uartVars, spiVars, pwmVars, tmrVars>>
    \/ SpiNext /\ UNCHANGED <<uartVars, i2cVars, pwmVars, tmrVars>>
    \/ PwmNext /\ UNCHANGED <<uartVars, i2cVars, spiVars, tmrVars>>
    \/ TmrNext /\ UNCHANGED <<uartVars, i2cVars, spiVars, pwmVars>>

espVars == <<uartVars, i2cVars, spiVars, pwmVars, tmrVars>>

EspSpec == EspInit /\ [][EspNext]_espVars

\* What each driver has recorded is what its hardware is set to: line rate and
\* format, devices on the I2C and SPI buses, the pin of a PWM channel and the
\* timers in use, whichever of the calls below the driver failed.
DriversMatchHardware ==
    /\ UartAsConfigured /\ I2cSlotsMatch /\ SpiBusMatches
    /\ PwmDrivesItsPin /\ ApptmrExact
=============================================================================
