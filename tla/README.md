# A TLA+ model of libmcu

libmcu is a library of small, mostly independent C components for firmware:
schedulers for actors and jobs, timers, queues, brokers, stores, codecs, and a
layer of drivers under them. This directory models the components that carry
concurrency, timing, persistence or shared memory, checks them with TLC on small
instances, and proves central properties with TLAPS for instances of any size:
of the actor runtime above all, and of the job queue, active objects, stores and
rings, watchdogs and rates, the smaller services and the drivers. `PROJECT.json` maps every definition to the lines it
models and lists components, runs, hazards and theorems.

To check a run: `tlc -config MCTasks.cfg MCTasks`. To check the proofs: `tlapm`
on each of `ActorProofs`, `ActorWakeProofs`, `JobQueueProofs`, `AoProofs`,
`TimerProofs`, `StoreProofs`, `ServiceProofs` and `PortProofs`.

## Inventory

### Components that are modelled

| component | state it keeps | operations | interacts with |
|---|---|---|---|
| actor (`modules/actor/src/actor.c`) | message pool, a mailbox per actor, a run queue, semaphore and dispatcher thread per priority | alloc, free, send, set, unset, init, deinit | the port's `actor_lock`, a mutex per actor; handlers call back into it |
| actor timer (`actor_timer.c`) | pool of timers, armed and free lists | new, delete, start, stop, step | called by the port's timer thread; calls `actor_send` with the lock released |
| jobqueue | job list, semaphore, thread counters and limits | create, set_attr, schedule, deschedule; worker threads | pthreads; job callbacks |
| ao, ao timer | event ring, one task, timer pool | post, post_defer, post_repeat, the `_if_unique` forms, cancel, stop; timer step | two locks of the port, taken in both orders |
| apptimer | wheels of timer lists, counter, active count, alarm | create, start, stop, destroy, schedule | one lock held over callbacks; a hardware alarm |
| watchdogs (`ports/esp-idf/wdt.c`) | a list of watchdogs with periods and times of feeding | new, delete, enable, disable, feed; the thread that looks | a mutex the feeding does not take; callbacks |
| retry, ratelim | back-off and attempts; load of a bucket and carried-over seconds | backoff, reset; request | the caller's random numbers; a clock of whole seconds |
| buzzer | melody and position, enabled | play, mute, unmute; the timer's callback | a one-shot timer and a PWM channel; a semaphore the callback does not take |
| ringbuf, msgq | a byte ring with free-running indices | create, write, cancel, peek, read, consume, resize; push, pop, next_msg_size | an optional caller-provided lock |
| flash_kvstore, NVS stores | two partitions with meta table and data; records in a vendor's store | write, read, erase, reclaim; open, close | flash operations that fail, power that goes away |
| metrics, metricfs | a table in memory that survives a reset; a queue of reports in a store | increase, set extremes, percentage, clear, reset, collect; write, delete, clear | the encoder; a key-value store |
| mcumgr port | the OTA handle; a pool of packet buffers | write image data, pending, confirm, erase; receive, answer, free | the image manager and SMP server of mcumgr; the boot loader |
| logging | tags with levels, a global level, backends | set level, write, read, add and remove backend | a lock, not held when the default backend is chosen |
| pubsub, pubsub_tiny | an array of subscriptions that grows and shrinks; lists of topics and handles | subscribe, unsubscribe, publish, create, destroy | one lock held over callbacks; the allocator |
| button | shift register of samples, times, click and repeat counters, parameters | step, step_delta, set_param, enable, disable, new, delete | a level-reading function and a callback |
| cli | line buffer, history | one received character | a terminal |
| pm, runner | a table of callbacks by priority; the current runner | register, unregister, enter; change, start, run | callbacks of the application, which may call back |
| cobs, base64 | none | encode, decode, decode in place | buffers of the caller |
| xmodem | expected sequence number, packet being read | receive | a sender over an unreliable line |
| BLE and Wi-Fi drivers | what is on air, connections, services; interface state and address | advertise, create services and characteristics; connect, disconnect, scan | the vendor's stack and its events |
| ESP-IDF drivers (uart, i2c, spi, pwm, apptmr) | slots and enabled flags | create, enable, configure, transfer, disable, delete | the vendor's drivers, each call of which may fail |

### What is hard in them

* **Interleaving and atomicity.** `actor_send` pushes and schedules in two
  critical sections while the dispatcher tests for mail without a lock;
  `actor_timer_step` releases the lock in the middle of a list traversal;
  `apptimer_start` decides before it takes the lock; a `msgq` message becomes
  visible in two index updates; a `pubsub_tiny` handle is linked before it is
  filled; the buzzer's timer callback and a watchdog's feeding take no lock.
* **Deadlock and liveness.** `ao` nests two locks in both orders; workers of
  the job queue decide by themselves to leave; a message must not stay in a
  mailbox while every dispatcher sleeps; `adv_start` spins on the host's task;
  a receiver must give up on a dead line.
* **Crashes.** Power may go between any two flash operations of a write or a
  reclaim, between a report and its index, between a set and its commit, in the
  middle of a firmware upload.
* **Unreliable delivery.** XMODEM blocks and acknowledgements are lost or
  corrupted; the events of the radio stacks come after the fact.
* **Partial failure.** `pthread_create` fails after a job was queued; `calloc`
  fails while the subscription array is resized; the event queue is full when
  a timer expires; a vendor call fails in the middle of a driver's; the pool
  has no buffer for the answer.
* **Numeric edges.** Free-running indices and a wrapping clock everywhere: 16
  bits in `ao`, `size_t` in `ringbuf`, 32 bits in `button` and `wdt`, the width
  of `uintptr_t` against that of `int` in `apptimer`; integer divisions in the
  leaky bucket; full groups in COBS.
* **Stale state.** Timers unlinked while their step is suspended; descheduled
  jobs whose wake-up remains; parameters of a button that change under samples
  taken with the old ones; a runner read before a callback that changed it.

What makes each component correct: a message block has exactly one owner and
mailboxes are FIFO; every actor with mail will be scheduled; every armed timer
is delivered once, in time and not early; every queued job runs and the counters
agree with the threads; an unfed watchdog is noticed, a fed one is not reported;
back-offs and rates keep their limits; rings are FIFOs at every fill level and
across every wrap; what a store acknowledged is read back, also after a fault;
counted metrics are reported once; each matching subscriber is called exactly
once and never after it was freed; edges are debounced and alternate; the line
on the terminal is what is executed; decoding inverts encoding; a file
arrives whole and in order; what a driver has recorded is what its hardware does.

## Modules

| module | models | how the state corresponds |
|---|---|---|
| `Actor` | `actor.c` | `free`, `mailbox`, `runq`, `sem` are the lists and the semaphore; `held` is who owns a block; `apc`/`target` are the program counter and argument of each API call, `dpc`/`cur`/`msg` those of each dispatcher; `stage` is the progress of `actor_deinit`. One step per critical section. |
| `MessagePassing` | what the runtime promises | a pool, one FIFO box per actor, the hands of the agents; no scheduler |
| `ActorProofs`, `ActorWakeProofs` | theorems about `Actor` | types, scheduling, ownership and the refinement; wake-ups, over a view of the state as a machine of counters |
| `ActorTimer` | `actor_timer.c`, `list.h`, the clock of the ports' timer threads | the two lists are their `next` pointers, so a wrong `list_del` does what it does in C; `handle` is what the owner did with a timer; the clock has `TicksPerMs` ticks in a millisecond, and what the port's division drops is lost at every turn (`turns` counts them) |
| `JobQueue` | `jobqueue.c` | `list`, `sem`, `active`, `running`, `attr` as in `struct jobqueue`; `wpc` is where each worker is |
| `JobQueueProofs` | theorems about `JobQueue` | |
| `Ao` | `ao.c`, `ao_timer.c`, the locks of the ports | `events`, `index`, `outdex` are the ring, `timers` the pool, `aoOwner`/`timerOwner` the locks; `sent` observes what was accepted |
| `AppTimer` | `apptimer.c` | `place` is the list a timer is on, `goaltime`, `interval`, `active`, `alarm` as in the code; `due` observes the real time left, `aligned` whether the wheels were aligned at insertion |
| `Wdt` | `ports/esp-idf/wdt.c` | `wdt`, `list`, `minPeriod` as in the manager; `task` is the thread with the time it read; `age` observes the time since a feed |
| `Retry`, `Ratelim` | `retry.c`, `ratelim.c` | the fields of the structures, modulo their widths; `tries` and `grants` observe what was handed out |
| `Buzzer` | `buzzer.c` | a melody is a sequence of sounds and rests; `driven` is the PWM output; one step per access of the callback |
| `Msgq` | `msgq.c` on `ringbuf.c` | `qBuf`, `qIndex`, `qOutdex`; a cell is a byte; one step per look at an index, copy and index update; `qSent` observes the messages pushed and where each starts |
| `ByteRing`, `ByteFifo` | `ringbuf.c`, and the queue of bytes it implements | `capacity`, `index`, `outdex`, `buffer`; `out` is what the last call returned |
| `FlashKvstore` | `flash_kvstore.c` | `flash` holds both partitions, slots and data lines; `task` is the operation in progress, one flash call a step; `want` observes the acknowledged values, `misread` a lookup of the reclaim that a failing read misled |
| `Nvs` | the two `nvs_kvstore.c` | the vendor's store (external): values set and committed; records and queued operations, whose value is in the caller's buffer until they run (`FdsBufferReused`) |
| `Metrics`, `MetricFs` | `metrics.c`, `metricfs.c` | the table with its validity; the counters in memory and in the store, one store call a step |
| `OtaImg`, `MgmtPool` | `mcumgr/mgmt_img_esp.c`, `mcumgr/mgmt_esp.c` | partitions of blocks, `handle`, `boot`; buffers in use and the answer being written |
| `Logging` | `logging.c` | `tags`, `global`, `backends`; `picked` is a writer before the lock |
| `PubSub` | `pubsub.c` | the array as a sequence with holes; one step per entry of a publication; filters as sequences of levels, matched as the code does, with their level-by-level meaning as reference |
| `PubSubTiny` | `pubsub_tiny.c` | topics, their lists of handles, and what each handle's memory is; `cut` are the topics whose list has lost its head; `harm` observes accesses to memory that is gone or unset, and a traversal without end |
| `Button` | `button.c` | `wave` is the newest bits of the shift register; all times are modulo `ClockMod`, counters modulo `CountMod`; `age`, `edge`, `repeated`, `fresh` observe |
| `Cli` | `cli.c` | line, history slots and positions; the byte behind a full line is the first slot's; `screen` is what the echoed output leaves on a terminal, `last` and `ran` are what was shown and what was executed |
| `Pm`, `Runner` | `pm.c`, `runner.c` | the table and the slot behind it; a stack of changes in progress |
| `Codecs` | `cobs.c`, `base64.c` | the loops as folds, in the phases encode, send, decode |
| `Xmodem` | `xmodem.c` with a sender and a line | `rx` is the receiver; a packet is one message, good, bad or cut short (`Stump`); `cuts` observes the cut ones whose rest fits the old checksum |
| `BleEsp`, `BleNrf`, `Wifi` | the radio drivers | the driver's globals next to the vendor's state and the events on their way; `wpc` is where `connect_wifi` is, `overtaken` observes an address it did not see, `lapsed` an end of advertising that the driver was told of |
| `EspDrivers` | the ESP-IDF drivers `uart.c`, `i2c.c`, `spi.c`, `pwm.c`, `apptmr.c` | the slots next to what the peripheral is set to; `i2cAt` is where each task is in `i2c.c`, `i2cUnguarded` and `i2cRaced` observe a call without the mutex and two at once |
| `AoProofs` | theorems about `Ao` | |
| `TimerProofs` | theorems about `Buzzer`, `Retry`, `Wdt`, `Ratelim` | |
| `StoreProofs` | theorems about `OtaImg`, `Nvs`, `Logging`, `Metrics`, `MetricFs`, `ByteRing`, `Msgq` | |
| `ServiceProofs` | theorems about `Runner`, `Cli`, `PubSubTiny`, `Button`, `Pm` | |
| `PortProofs` | theorems about `Xmodem`, `MgmtPool`, `BleNrf`, `BleEsp`, `EspDrivers`, `Wifi` | |

`MCActor` gives `Actor` its constants. `MCTasks`, `MCTimers`, `MCStores`,
`MCServices` and `MCPorts` each instantiate several modules that do not interact
and explore them side by side: `sel`, chosen in the initial state, says which of
them runs, so their state spaces add up and do not multiply. Their properties
are those of the modules, conjoined where they state one component's contract.
The modules that theorems are about are extended rather than instantiated, so that
a run checks the very definition a theorem states and TLC evaluates the
assumptions of the proofs: `MCTasks` extends `JobQueue` and `Ao`; `MCTimers` the
modules of `TimerProofs`, `MCStores` those of `StoreProofs`, `MCServices` those of
`ServiceProofs` and `MCPorts` those of `PortProofs`. Where several are extended, their
names carry the component's prefix.

Definitions marked "mutated form" or "Mutant" are plausible bugs: putting one in
the place of the definition after it makes TLC find a property violated, which
shows that the property says something. `PROJECT.json` names one for each
property of the runs; where a property is a conjunction, the others of the
module break its other conjuncts.

Abstractions. Payloads, names and contexts are model values. Null-pointer and
range checks that return before anything changes are steps that change nothing.
Memory is sequentially consistent: the fences of `ringbuf.c` and the locks are
taken to work. Arguments the API documents as the caller's obligation (a handle
that exists, a block that is owned) are kept by the callers of the model. The
vendors' SDKs are external: they are modelled from how the code here uses them,
and may fail wherever the code looks at a result.

## Runs

| run | expects | shows |
|---|---|---|
| `actor_race` | pass | two threads and the handlers send, wake, unset and shut down: no block is lost, shared or duplicated, no actor with mail is forgotten, and the runtime implements `MessagePassing` |
| `actor_alone` | pass | two threads send to an actor alone on its priority, whose handler frees what it gets: the dispatcher never sleeps on its mail, the handler gets a message, every message is taken, `actor_deinit` returns |
| `tasks` | pass | the job queue's counters, wake-ups, limit and progress; the active object's ring, uniqueness, deferred events, and that calls and `ao_stop` return on a port with one nestable lock (FreeRTOS critical sections) |
| `timers` | pass | actor timers in one list each, sent once and in their step when stopped only between steps; wheels with exact counts, nothing early, nothing late if inserted at an aligned time; unfed watchdogs noticed; back-offs and rates within their limits; a silent buzzer at the end |
| `stores` | pass | acknowledged writes read back through reclaims and up to a fault, reports and NVS values through power loss; metrics conserved; uploads that never replace the running image by a broken one; levels as asked; rings and message queues as FIFOs |
| `services` | pass | exact delivery and bookkeeping of both brokers; debouncing and pace of the button; the terminal shows the line; callbacks by priority; only the current runner prepared; both codecs round-trip |
| `ports` | pass | advertising that goes on, requests to their handler, a link state that is known, a file in order, buffers that return, drivers that match their hardware; `adv_start` and `xmodem_receive` return |
| `actor_stranded` | violation | with two actors on one priority, and one thread that sends, a message stays in a mailbox while the dispatcher sleeps |
| `actor_timer_stop` | violation | a timer stopped or deleted during the unlocked send corrupts the armed list |
| `apptimer_late` | violation | a timer started in the middle of an outer wheel's turn is late |
| `wdt_feed` | violation | a watchdog fed while the thread is about to scan is reported although it was fed |
| `kvstore_erase` | violation | a failing erase during a reclaim loses acknowledged values |

### Bounds and why they are enough

* Actors: `actor_race` has two actors, two client threads and a dispatcher with
  two blocks, for a lost or shared block needs two owners. A lost wake-up needs
  two actors on one priority and four blocks: two messages of the one keep events
  coming while a message of the other is between its two critical sections. One
  sending thread is enough; with fewer blocks the case never happens, and only
  the attempt to prove that one sender is safe showed it. So `actor_stranded` has
  one sender and four blocks, and `actor_alone` an actor with a priority of its
  own, two senders and four blocks. `MaxSem` stops new sends while the semaphore
  is that high and hides no interleaving below it. Several priorities share
  nothing but the pool; they are covered by the proofs.
* Job queue: three jobs, one more than the limit, and two workers.
* `ao`: a ring of two slots with indices modulo 4, delays of one and two steps.
* Timers: three actor timers (the cursor, one before and one behind it) by a
  clock of milliseconds, and two by a clock of half milliseconds, so that turns
  are cut to nothing and fractions add up. The
  wheels have two slots each and three levels, with a counter of four bits, so
  that cascading over two levels and the wrap both happen. Two watchdogs with
  periods 2 and 3 on a three-bit clock, a thread up to one tick late. Back-offs
  in six bits with three-bit parameters, so that the doubling meets the maximum
  and the wrap. Buckets of two tokens with an hour of six seconds, at rates that
  divide the hour or that it divides. Two melodies with sounds and rests.
* Flash store: two keys, values of one and two lines, four slots and ten bytes
  of data, so that the second or third write reclaims; one fault at any flash
  operation. Reports: two in the queue, identifiers modulo 9, three faults. FDS:
  two queued operations and three records, so that a key gets a second one.
* Rings: `msgq` four bytes and indices modulo 8 with messages of size 0 to 3, so
  that the ring is empty, exactly full, one short, and wraps inside a size and
  inside the data; `ringbuf` sizes up to 3 (rounded to 2), indices modulo 8,
  every offset and length up to 4.
* Uploads: two images of two blocks, two failing calls, resets anywhere.
* Tables: three tags for two slots; three callbacks' slots and one behind; two
  nested runner changes.
* Brokers: three subscribers on an array that starts at one entry, so it grows
  twice and shrinks twice; filters with `+` and `#` at both ends of topics with
  one to three levels.
* Button: a four-bit register, a clock modulo 5, two sets of accepted
  parameters with different debounce counts and some that are refused, and
  any pattern of levels. Counters wrap at 2, so the wrap happens; only whether
  `clicks` is zero matters to the code.
* Command line: lines of three characters, two history slots. Codecs: every
  frame of zeros and others up to six bytes with groups of two, every text of up
  to four bytes with all bits clear, mixed and set.
* XMODEM: five blocks with sequence numbers modulo 4 and three faults, each of
  which loses, corrupts or cuts a block or loses a reply. Radio
  stacks: two or three events on their way. Drivers: two tasks, two or three
  slots, every call failing or not. The management server: pools of two buffers
  and of one.

Deadlock is not checked except in `apptimer_late`: nobody has to call an API, a
queue may stay empty, a counter reaches its bound, and the specifications may
stop there.

### Fairness

Only what a thread inside the library, or a vendor's task, owes is assumed.
`Actor`: calls in progress continue, dispatchers run, a handler disposes of its
message and returns; all weak. `JobQueue`: workers run and jobs return; weak,
because a semaphore does not promise which waiter it wakes. `Ao`: strong fairness
of the task, the timer thread and a call in progress, since each waits for locks
the others take again and again, and a mutex gives way to each waiter
eventually. `BleEsp`: the host's task, once started, reports that it is ready,
and `adv_start` goes on when it is; weak. `Xmodem`: the receive loop runs and time
passes; weak. No client, sender or peer is ever obliged to do anything.

## Proofs

Each theorem states a property that a run checks, for every value of the
constants that the named assumption of its module allows. Each proof has an
inductive invariant, an `Init` lemma, a step lemma with one case per action, and
a last step that combines them.

**`ActorProofs`**, for any actors, threads, priorities, messages and senders, from
`ActorAssumption`:

* `TypeCorrect`: `Spec => []TypeOK`. `TypeOK` is not inductive: that the target
  of a call is an actor while the call is in progress, and the dispatcher's
  current actor one until it decided whether to queue it again, is added by `Located`
  (`TypeInv` is the conjunction).
* `ActorsNotForgotten`: `Spec => []NoActorForgotten`. The step that could lose an
  actor is the dispatcher's unlocked `has_message` test. The strengthening
  (`AttendInv`) adds `Homed`, that an actor is only ever queued on, or held by, the
  dispatcher of its own priority; without it another dispatcher's pop could be
  the one that removes the last reference.
* `MessagesOwnedOnce`: `Spec => []MessageOwnedOnce`. The strengthening (`OwnInv`) adds
  `Drained`: a mailbox with mail belongs to an actor that is set, or that a call of
  `actor_unset` is still draining. Without it `actor_set`, which initialises the
  mailbox, could drop messages that nobody would own again.
* `RuntimeImplements`: `Spec => ImplementsMessagePassing`, the refinement with the
  free list as pool, the mailboxes as boxes and `held` as hands. `OwnInv` is needed
  here too: a push maps to a delivery only if the message was in no box, and the
  set of the free list loses a block only if the list held it once. All
  scheduling, and shutdown, maps to stuttering.

**`ActorWakeProofs`**, from the same assumption:

* `NoMessageIsLost`: `Spec => []NoMessageLost`, the wake-ups of an actor that is
  alone on its priority. What matters of the whole state to such an actor is a
  machine of a few numbers (`View`): messages, senders between their two critical
  sections, events posted, whether the actor is queued, where its dispatcher is.
  `ClientViews`, `DispatcherViews` and `DeinitViews` show that every action of the
  runtime is one of the machine's steps or none; `EnoughEvents` and
  `NoSpareEvents` are invariants of the machine, and are proved by arithmetic
  alone. The first says that an event is there or coming for every message and
  that none is spent on an empty run queue while there is mail; the second that,
  without NULL sends and drained mailboxes, there is a message for every event but
  the one of `actor_deinit`. `WakeInv` gives the mapping what it needs of the rest:
  an actor is queued once, a core that was stopped stays so, only unsetters drain.

  For actors that share a priority the first invariant fails at `Requeue`, where
  an event posted for one is spent on another's message; `actor_stranded` shows
  what comes of it.

**`JobQueueProofs`**, for any jobs and workers and limits within a `uint8_t`, from
`JobQueueAssumption`:

* `PoolExact`: `Spec => []JobPoolExact`, the counters, the wake-ups and the limit at
  once, since the count that the limit is compared with is that of the counters.
  `HeldWhileRunning` is added: a worker has a job only between its critical
  sections, so a worker that leaves gives none up. The counting rests on the
  library's facts about cardinalities, the list on `AddTailFacts` and
  `RemoveAtFacts`.

**`AoProofs`**, for any callers, events, delays and numbers of timers, from
`AoAssumption`: the length of the ring is a power of two, as `ao.h:20` asks, stated
as what the code needs of it (it divides the range of the indices):

* `RingIsExact`: `AoSpec => []AoQueueExact`. `RingInv` says that the slots from `outdex`
  on are the accepted events in order; `FoundInv` that a thread inside an
  `_if_unique` call holds `ao_lock` and that what it found of queue and timers still
  holds. The arithmetic of wrapping indices is in lemmas of its own.
* `TimedEventsKept`: `AoSpec => TimedEventNotLost`, an action property: a step of the
  timer thread takes a timer away only with its event in the queue.

**`TimerProofs`**:

* `BuzzerFallsQuiet`, for any melodies: the strengthening (`SoundAttended`) says who will
  turn a sound off: the timer, the callback in progress, or `play` in the two of its
  steps where it is about to stop the channel or to start the timer.
* `RetriesBounded`, for integers of any widths and parameters of the types of
  `struct retry_param`, from `RetryAssumption`: the strengthening (`RetryInv`) bounds what
  the next wait is doubled from even before the first wait, and says that attempts
  are counted without a wrap as long as they are limited.
* `WatchdogsNoticed`, for any watchdogs, from `WdtAssumption`: periods and twice the
  thread's delay stay within the range of the clock. The strengthening (`WdtInv`)
  relates each watchdog's age to its `last_feed_ms` modulo that range and says that
  the thread's remaining sleep and delay fit in what is left of its bound.
* `BucketsLimit`, from `BucketAssumption`: no product of a time and a rate wraps while
  the clock runs. (In 32 bits a bucket of one token a second, 3600 an hour, that is
  left alone for more than 13.8 days breaks it.) The strengthening (`Metered`) is an
  account of tokens: whatever was granted since a second `s` is in the load or has
  leaked, and less than a token's worth of time is carried over in `buffer`. Rates
  that do not divide evenly are excluded by the property itself, see
  `LeaksAtFixedRate` below.

**`StoreProofs`**:

* `UploadsAreSafe`, for images of any number of blocks, from `OtaAssumption`: the
  strengthening (`UploadInv`) adds that the handle is never open on the running
  partition, whichever of the two readings of `esp_ota_get_next_update_partition`
  holds, and that an upload that met no trouble has written the client's image, so
  far, on erased flash.
* `WritesAreKept`, for any keys, values and lengths of the queue, from `NvsAssumption`:
  `NvsInv` for the ESP store; `FdsInv` for the nRF store, where a key that was not
  disturbed (no operation failed, overlapped with another or had its buffer used
  again) has at most one operation queued, that operation finds the records as
  they were when it was queued, and a key without one holds what was asked. For
  the others `OwnRecord` is left: an operation works on records of its own key, and
  with the buffers left alone it brings a value that was once asked for.
* `LevelsAreAsAsked`, for any tags and tables of any size, from `LogAssumption`: the table
  is the first tags that were named, in order, and nothing else (`TableMatches`).
* `MetricsAreConserved`, for any counters and samples, from `MetricsAssumption`: the
  table is exact also while the processor is being reset, as long as the magic entry
  says that the memory was kept, and an unset slot holds zero (`MetricsInv`).
* `ReportsStayReadable`, from `FsAssumption`: fewer identifiers are in use, and fall
  behind through failed clears, than there are. The strengthening (`FsInv`) bounds how
  far the stored `outdex` lags behind the one in memory by the faults so far; that the
  bound is needed was found in the attempt to prove it without.
* `RingIsFifo`: `RingSpec => RingImplementsFifo`, the refinement of `ByteFifo`, from
  `RingAssumption`. The abstract queue is the bytes from `outdex` to `index`. `RingInv` says that
  the capacity divides the range of the indices, so that a place in the buffer is
  the same computed from an index before or after it wraps (`WrapMovesNothing`), and
  that the ring is never more than full. The lemmas on spans say what the two
  `memcpy`s of a wrapped read or write do to the queue; then there is one lemma per
  call, which maps it to one step of `ByteFifo` or to none. That sizes round up to powers of
  two that divide the range is part of the assumption, because powers need
  induction; TLC evaluates it for the sizes of the run.
* `MessagesInOrder`: `MsgqSpec => []MsgqExact`, for rings, messages and threads of any
  number and size, from `MsgqAssumption`. What the queue holds is described
  as a chain: each message starts where the one before it ends, counted from
  `outdex`, and no message ends behind the start of a later one (`Chained`), which no
  induction is needed for. Where a message lies is kept as an index, so a pop moves no
  byte of it, and a push writes only into the free part (`WriteKeeps`). `Writing` says what a
  push knows at each step (the room it saw can only have grown, what it copied is
  still at the index), `InRead` what a pop knows: the size it copied is that of the
  oldest message, perhaps one of which only the size is there, and then it saw too
  few bytes to take it. `OneAtATime` is what the lock, or the single producer without
  it, gives.

**`ServiceProofs`**:

* `CurrentRunnerPrepared`, for any runners and any depth of nesting, from
  `RunnerAssumption`: while no change overtook another, and `runner_start` was
  called once, only the innermost frame may
  still have its old runner to terminate, and that is the current one (`RunnerInv`).
* `CommandLineFaithful`, for lines of any length and any number of history slots but
  none, from `CliAssumption`: the newest slot is the last command, cut where the code
  cuts it, unless that command was executed together with its own entry (`CliInv`).
* `PublicationsReachMembers`, for any names and handles, from `TinyAssumption`: a topic's
  list holds each of its members once, and they are the handles that name it, in
  memory that is theirs (`Linked`). The proof goes through double unsubscriptions,
  which disturb only the topic they cut, and through publications that meet a
  handle without its callback; it ends where freed memory was touched.
* `ButtonsAreFaithful`: `ButtonSpec => ButtonFaithful`, for any parameters, registers,
  clocks and deltas that `ButtonAssumption` allows. The strengthening (`ButtonInv`): the
  flag the code keeps is what the callback was told (`ButtonKept`); with the
  parameters of the last sample it follows the register (`FollowsWave`); and the time
  by the wrapping clock since a press or repeat is no more than what really passed
  (`AgeKnown`).
* `CallbacksByPriority`, for tables of any size, from `PmAssumption`: the table has no gap
  and each registered item once, in order (`TableKept`), and under that a shift that
  stops at the first empty slot moves everything behind the place by one
  (`RegisterMoves`, `UnregisterMoves`).

**`PortProofs`**:

* `FileArrivesInOrder`, for files of any length, sequence numbers modulo any number
  above one, any faults, from `XmodemAssumption`: the strengthening (`TransferInv`) adds
  `InStep`: the sender is at the block the receiver expects or, its answer lost, at the
  one before it, and the packet on the line is the sender's, whole, or cut and good
  only if the cut was one that fits. That consecutive numbers differ after the wrap
  (`SeqSuccessor`) makes the expected number identify the block.
* `BuffersReturn`, for any pool, from `MgmtAssumption`: `MgmtHolds` says which buffers the
  server has at each of its steps, so that each error path frees the right ones.
* `RequestsReachHandlers`, for any services and capacities, from `NrfAssumption`: a handle
  in a slot is the attribute of that slot and the other way round, and a service is
  registered once (`NrfInv`).
* `AdvertisingGoesOn`, for any connections and events on their way: the host
  advertises, or the event that tells the driver of its end is queued, or it was
  told and the restart was refused or not tried (`BleInv`).
* `DriversFollowHardware`, for any slots, tasks, devices and timers, from
  `EspAssumption`: one invariant per driver (`UartInv`, `I2cInv`, `SpiInv`, `PwmInv`, `TmrInv`),
  whose conjunction is `EspInv`. For I2C it says that while every call had a mutex the
  one task inside is its owner, at each of the steps in which `disable_i2c` deletes
  the bus, unlocks and destroys the mutex (`I2cOwned`, `I2cOne`), and that, until two are
  inside, the slot a task found is still free (`I2cFound`).
* `LinkIsKnown`, for any number of callbacks and events on their way: what the driver
  will know of the link is read off the last events of the queue (`EndsUp`, `EndsDown`,
  `Quiet`), so the invariant (`WifiInv`) survives a delivery at one end and a new event at
  the other. `KnowsUp` and `KnowsAttempt` say what is known while `connect_wifi` is
  between its test, its write of `CONNECTING` and its attempt.

### Only model-checked

* All liveness properties (`MessagesTakenAndDeinit`, `QueuedJobRuns`, `AoCallsReturn` and
  the others), and what rests on `ENABLED`: out of the prover's reach.
* `BrokerExact` and `CodecsRoundTrip`: what folds and `SelectSeq` over the broker's array, a
  frame or a topic compute for every input would need induction over data.
* `ActorTimersExact` and `AppTimersExact`: lists by their `next` pointers, traversed while
  they change, and timers on wheels by residues of a wrapping counter. Reachability
  along pointers needs induction; the wheels need an invariant over three levels of
  residues.
* `KvstoreDurable`: the layout of two partitions during a reclaim, entry by entry, with
  a fault between any two flash operations. It holds only where values are whole
  lines, see the second group of disagreements.

## Findings

The violation runs are described under `findings` in `PROJECT.json`:
a stranded message (`actor.c:168`), a corrupted timer list
(`actor_timer.c:204`), late timers (`apptimer.c:125`), a false alarm
(`wdt.c:122`), and values lost to a failing erase (`flash_kvstore.c:215`).

### Further disagreements

Met while modelling. The first group is refuted by TLC with the constants given
here, on the property the module defines.

* `Actor`, `UnsetActorNotRun` (any instance with `Unsetters`): `actor_unset`
  leaves the actor in its run queue, so its handler can run once more.
* `ActorTimer`, `NotBeforeDelay`: a timer started between two steps is debited
  the time since the last step and fires up to one scan interval early.
* `ActorTimer`, `NeverOverdue` with `TicksPerMs = 2`: `ports/posix/actor.c:39` divides
  the time of a turn down to milliseconds and line 45 starts the next turn now, so
  a fraction is lost at every turn and timers run late by up to a millisecond a
  turn. `NoneOverdue` allows exactly that.
* `FlashKvstore`, `OnePartitionWhateverRead`: a read that fails in the `find_meta` of
  `flash_kvstore.c:227` is taken for an entry that is not there; the reclaim skips a
  live key and goes on to erase the storage. `OnePartitionComplete` leaves out the
  reclaims this happened in (`misread`).
* `PubSubTiny`, `PublicationsEnd`: `pubsub_unsubscribe` leaves `p->topic` set, so a second
  call for a static handle runs `list_del` (`list.h:65-69`) on a node that is not linked,
  which cuts out the head: every later traversal of that topic spins with the lock
  held. The test of the sibling module does unsubscribe twice
  (`tests/src/pubsub/pubsub_test.cpp:219-223`). And `CallbacksAreSet`: a publication
  between the linking of a handle and the setting of its callback
  (`pubsub_tiny.c:141-150`) calls what the pointer held before.
* `Cli`, `RunsWhatIsShown`: the terminator of a line of `CLI_CMD_MAXLEN` characters is the
  first byte of the first history slot (`cli.c:200`); when the line is stored there
  (lines 113-114) before it is parsed (line 359), the command that runs is the line
  and its copy, and parsing writes terminators into the entry.
* `BleEsp`, `AdvertisesAlways`: `on_gap_event` does not look at what `adv_start` returns
  (`ble.c:177`), whose three vendor calls may be refused (lines 377-383, 409-417), and
  does not start it after a connection that failed: advertising then stays off
  with no event left that would resume it.
* `Wifi`, `StateKnown`: `connect_wifi` tests the state (`wifi.c:262`), blocks in
  `esp_wifi_set_config` (line 280) and writes `CONNECTING` (line 284) while the event task
  runs. When an earlier attempt gets its address in between, `CONNECTED` is written
  over, and the state says `CONNECTING` for as long as the link is up.
* `Xmodem`, `BlocksWhole`: `xmodem_receive` gives `process_packet` also what `read_packet` did
  not finish (`xmodem.c:247-250`, 331); the bytes that came are compared with the
  checksum that is left in the buffer, zero in the beginning (lines 175-197). When
  they fit, the block is acknowledged and handed over with the old contents of the
  buffer behind them.
* `EspDrivers`, `I2cAlone` and `I2cBusStays`: `pthread_mutex_lock` is not looked at, so calls
  before `enable_i2c` and after `disable_i2c`, a failed one too, run side by side; and
  `disable_i2c` deletes the bus, unlocks and only then destroys the mutex
  (`i2c.c:227-229`), so a call that waited takes the live mutex of a deleted bus. What
  such a call does to a deleted bus is the vendor's; the model has it refused.
* `JobQueue`, `QueuedJobRuns` with an attribute whose `min` is 0: with `min_threads` 0 the
  last worker leaves while a job is queued (`jobqueue.c:111` counts itself).
* `Ao`, `CallReturns` with `OneLock = FALSE`: the two mutexes of
  `ports/posix/ao.c` are taken in opposite orders by an `_if_unique` call and by
  the timer thread, and both block for good.
* `Ao`, `RingHoldsSent` with `MaxLen = 3`, where `AoAssumption` is dropped: a length
  that is not a power of two overwrites queued events, where `ao.h:20` speaks of
  wasted space. The proof needs `Mod % MaxLen = 0`.
* `AppTimer`, `AlarmNotLate`: the alarm is set by the granularity of the lowest
  wheel in use and not by the earliest expiration.
* `AppTimer`, `NoDoubleStart` with `StartRunning = TRUE`: a start during the
  timer's own callback links its node twice.
* `AppTimer`, `NeverEarly` with `IntBits < TimeBits`: on a 64-bit host long
  timeouts are taken for expired.
* `Msgq`, `LockReleased`: `msgq_next_msg_size` on an empty queue returns with the
  lock held (`msgq.c:110`).
* `Button`: `button_step_delta` with deltas shorter than the sampling period
  never samples, because the timestamp the next delta is added to does not
  advance; and a repeat that falls on the clock value zero is followed by
  another one too early (the exception in `RepeatPaced`). A step that comes late
  fills in the samples it missed with the level of that one instant
  (`button.c:204-210`), so a level seen once may count as debounced; `EdgeDebounced` is
  about samples and not about time.
* `Ratelim`, `LeaksAtFixedRate` with `Hour = 3600`, `Minute = 60`, `BucketWidth = 28`,
  `Cap = 3`, `Rates = {100}`, `MaxTime = 6`: where `leaked * 3600 / leak_rate` is
  rounded down (`ratelim.c:37`), the rest of the time stays in the buffer and
  leaks again, so the bucket empties faster than the "fixed rate" of
  `modules/ratelim/README.md:14`.
* `MetricFs`, `ReportsReadable` with `IdSpace = 4` and two reports, where
  `FsAssumption` is dropped: identifiers come round again while an old record is
  still in the store. The proof shows what it takes: each clear that fails
  between its deletions and its store of `outdex` lets the stored one fall behind by
  up to `MaxMetrics`, so faults and reports must together stay below the number of
  identifiers (2^16 in the code).

The second group is behaviour the modules show, or that their properties name as
an exception.

* `flash_kvstore`: nothing recovers at start-up what an interrupted reclaim left
  in the scratch partition; an entry's meta data is written before its value; an
  entry that ends unaligned in the last line overlaps the next; `write` answers 0
  where `metricfs.c:175` expects the number of bytes.
* NVS on ESP-IDF: `erase` is not committed, so an erased key may come back.
  NVS on nRF: a second write of a key queued behind the first makes a second
  record of it, because `has_record` looks at the flash; and a record is queued with
  a pointer to the caller's value (`nrf52/nvs_kvstore.c:110`), which the stack reads
  after `write` has returned. `metricfs.c:61-65` passes a variable on its stack, so
  what is stored is whatever is there by then. `FdsSettles` and `FdsNothingInvented` leave
  out the keys written from a buffer that was used again.
* `pubsub_tiny`: unsubscribing after the topic was destroyed, or destroying it under
  a subscription in progress, touches the freed topic.
* `pm`: both shifting loops go one slot too far: filling the last slot clears the
  memory behind the table, and a removal from a full table copies it in as an item.
* `runner`: `runner_change_bypass` still calls both callbacks, where
  `runner.h:98-103` says it does not; a change from inside the pre-change
  callback leaves the outer one to terminate a runner that is no longer current;
  before `runner_start` there is no current runner to ask for its type; a second
  `runner_start` prepares another runner without terminating the first
  (`runner.c:129-140`), which `OnlyCurrentPrepared` leaves out; a prepare that fails counts
  as prepared, since nothing is undone.
* `cli`: with `CLI_CMD_ARGS_MAXLEN` arguments or more `argc` reaches that number, and
  the last `argv` written is one behind the array (`cli.c:290-295`). A buffer
  without history slots, where the line is its own history, is left out by
  `CliAssumption`.
* `ringbuf_resize` of a static ring frees the caller's buffer, where
  `ringbuf.h:233-235` says it fails.
* `cobs`: `cobs_decode` leaves a trailing zero unless the output is sized exactly;
  `cobs_encode` into a buffer that is too small returns one more than its size; a
  frame that ends with a full group is returned without its delimiter counted.
* Buzzer: muting does not stop the timer, and the callback may read a tone beyond
  the end of a melody replaced under it.
* Uploads: one broken off leaves the handle open, so the next image is mixed with
  the first and refused at its end; erasing the slot after a finished upload
  erases the partition that boots next.
* Wi-Fi: `CONNECTING` is set before an attempt that may be refused, after which
  every connect answers that one is in progress; `wifi_delete` under a running
  station leaves events without handlers.
* UART: a failed enable leaves the channel marked activated. I2C: devices have no
  `delete_device` in their table, and `write_reg` leaks its buffer on an error. SPI: deleting a
  device reads the pointer it has just cleared; devices of one slot may be added
  twice. Timers of `apptmr.c`: a refused creation loses its slot, and
  milliseconds times 1000 overflow 32 bits.

## Not modelled

* `fsm`: a loop over the application's transition table; everything it does is in
  the table.
* Checksums, hashes, hexdump, `strext`, `timext`, `bitmap`, `cleanup`, `board`,
  `assert`: no state, or no property short of their own definition.
* `trace`, `dfu` and the hardware interfaces: hooks and function tables without
  behaviour of their own.
* The remaining ports (threads and semaphores over FreeRTOS, keys and
  certificates over mbedTLS and OpenSSL, ADC, GPIO, flash, CPU load, Zephyr,
  ARM start-up, and the C library headers of the FreeRTOS port): translations of
  one vendor's calls to another's names; the behaviour is in the vendors' code.
* Inside modelled components: `jobqueue_destroy`, which frees the pool under its
  workers; the start and stop of the watchdog thread; the PWM frequency; Wi-Fi
  calls from two tasks at once; damage to a full XMODEM packet that its checksum
  misses; a second registration of a service on the nRF52; the bytes of log entries,
  metric encodings, advertising payloads and bus transfers.

## Plan

1. Done: the actor runtime with its abstract specification; timers, job queue,
   active objects, wheel, message queue, brokers, button; stores, metrics,
   logging, codecs, command line, XMODEM, power and runner modules; the drivers
   of the ESP-IDF and nRF52 ports; the theorems listed above, with the refinement
   of `ByteFifo` by `ByteRing` next to that of `MessagePassing` by `Actor`.
2. Theorems left: `KvstoreDurable` of `FlashKvstore`, first for values of whole
   lines; the armed list of `ActorTimer` and the wheels of `AppTimer`.
3. A composition of `Actor` with `ActorTimer` through `actor_send`, and of
   `MetricFs` with `FlashKvstore` once their return values agree.
