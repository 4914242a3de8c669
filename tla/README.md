# HavaKarakolu capsule firmware: verification of its control logic

The firmware runs a capsule that is carried up, released, descends and is found
again: an STM32F4 with FreeRTOS, two inertial/pressure sensors, temperature
sensors, a GPS receiver, an SD card for the flight log, a solenoid lock, a servo
and a buzzer. This directory holds TLA+ models of the parts of `src/App` that
decide something over time, the TLC configurations that check them, and proofs
for TLAPS. `PROJECT.json` maps every definition to the lines it stands for.

## Inventory

| Component | State | Operations | Interacts with |
|---|---|---|---|
| mission (`services/mission`) | state, time of entry, two debounce timers, `degraded` | `hk_mission_step` every 50 ms | reads the shared picture, drives lock, servo, buzzer, pushes EVENT records |
| sensor_manager (`services/sensor_manager`) | filters, one retry time per device | `sample_imu` 100 Hz, `sample_env` 2 Hz | I2C buses, shared picture |
| system_state (`services/system_state`) | the shared picture and the `sensor_ok` flags | get, lock/unlock, set flag | every task, under one mutex |
| health (`services/health`) | accumulated kicks | kick, service, reset reason | all tasks, the IWDG |
| storage (`services/storage`) | byte queue, session files, sync and retry times, counters | push x4, service, close | producers of four tasks, FatFs, the card |
| config (`services/config`, `bsp/nv_flash_stm32.c`) | append-only journal in one flash sector | load, save, INI overlay | flash, boot |
| tasks (`tasks/app.c`) | one loop per task, boot order | six loops and two init functions | everything |
| ringbuf (`common/ringbuf.c`) | head, tail | put/get/write/peek | storage queue, GPS UART |
| uart_dma, gps (`bus/uart_dma.c`, `drivers/gps_ublox`) | circular DMA position, line buffer, fix | receive event (interrupt), poll, feed | ring buffer, shared picture |
| sd_spi (`drivers/sd_spi`) | `ready`, card type | init, read, write, sync | SPI, diskio |
| buses (`bus/`) | lock, pins | transfer, recover | sensors |
| sensor drivers, actuators, bsp | init flags, pin levels | register access, set level | buses, timers |
| FatFs, BMI270 vendor API | third-party | | |

What is hard here: tasks of six priorities share a picture and a queue;
`uint32_t` milliseconds wrap; the mission machine must not get stuck when
sensors die; the watchdog must see a dead task but not the storage task; the
card may fail between any two calls; power may go at any byte of a flash or card
write. `PROJECT.json` lists each hazard at its line.

What makes each component correct:

- mission: debounced sensor transitions, no early and no late timeout, no stuck state;
- health: no reset without a dead task, a reset for every task that stays dead, a warning before it;
- config: a save is all or nothing, and what it reports is what boot loads;
- storage: no old log is harmed, frames whole and in order, drops counted, events synced, recovery after any fault;
- sensors and picture: what the mission machine reads is recent and of one sample;
- ringbuf, uart_dma, gps: a FIFO; a sentence is accepted only as the receiver sent it, and what is published is not stale;
- sd_spi: a block read is the block asked for, a write reported done is on the card, ready only with a card addressed its way, every fault survived;
- buses: what a transfer reports it has done; a slave caught in its byte lets go.

## Modules

| Module | Models | Correspondence |
|---|---|---|
| `Mission` | `mission.c`, the tick of `task_mission` | `hk_mission_t` field by field; one action per case of the switch; `Tick` is one pass of the loop |
| `MissionProofs` | | theorems about `Mission` and `Flight` |
| `Health` | `health.c`, `task_health`, boot order, IWDG | `Kick`, the two critical sections of the service and the refresh between them are separate steps; `Report` is the rest of `task_health` |
| `HealthProofs` | | theorems about `Health` |
| `ConfigStore` | | what a journal promises: a save happens wholly or not at all |
| `ConfigJournal` | `config.c`, `nv_flash_stm32.c` | slots of a sector; a save is `Save`, `EraseDone`, `WriteDone`, `Verify`, each of which power loss can cut |
| `ConfigProofs` | | theorems about `ConfigJournal` |
| `Storage` | `storage.c`, `diskio_sd.c`, `task_storage` | one action per FatFs call and per pop; producers push between any two |
| `StorageProofs` | | theorems about `Storage` |
| `SensorManager` | `sensor_manager.c`, `system_state.c`, `task_imu`, `task_env` | a pass of `task_env` is `EnvSample` (the conversions), `EnvValues` and one `EnvFlag` per device (the critical sections); a pass of `task_imu` is `ImuSkip`, `ImuFails`, or `ImuReads` and `ImuFlag` |
| `SensorProofs` | | theorems about `SensorManager` |
| `Flight` | `task_mission` on that picture | extends `Mission` with `SensorManager` (instance `S`) and a world that moves the capsule and disturbs the sensors |
| `Fifo` | | what a byte queue promises |
| `RingBuf` | `ringbuf.c` | `put` and `get` as the loads and stores they are made of, one step each; `write` and `read` are their loops, in `GpsRx` |
| `GpsRx` | `uart_dma.c`, `nmea.c`, `gps_ublox.c`, `task_gps` | extends `RingBuf`: `SendByte`, `IdleLine`, `LineError` are the wire and the DMA, `RxEvent`, `Ingest`, `NextWrite`, `EndEvent` the interrupt, `Wake`, `Read`, `ReadEnds`, `Feed`, `Publish` the task |
| `GpsProofs` | | theorems about `RingBuf` and `GpsRx` |
| `BlockStore` | | what FatFs takes a disk for |
| `SdCard` | `sd_spi.c`, `diskio_sd.c`, the transfers of `spi_hw.c` | one action per command with its response, per wait and per block; the calls of FatFs start them; the card acts between any two |
| `SdCardProofs` | | theorems about `SdCard` |
| `I2c` | `i2c_sw.c`, `op_recover` of `i2c_hw.c` | an operation is the list of its calls of the primitives, a primitive (`i2c_start`, `i2c_write_byte`, ...) the list of its line changes, waits and samples, one of them the loop over the bits; `call`, `line` and `round` say where the bus task is in them, and a step executes one line |
| `I2cProofs` | | theorems about `I2c` |
| `MCMission`, `MCHealth`, `MCStorage`, `MCSensorManager`, `MCFlight`, `MCGpsRx`, `MCSdCard`, `MCI2c` | | values of the constants |

Abstractions that hold throughout: times are ticks, floats are integers on both
sides of the thresholds, a record is its kind and its number, log text is left
out.

**Mission.** The clock has `ClockMod` values and wraps; `Elapsed` is the
unsigned subtraction of `mission.c`. `since`, `held_a`, `held_b` and `basis` are
history: true durations that no clock arithmetic can disturb, so a property that
relates them to `t_enter_ms` and `cond_*_ms` says that the arithmetic is right.
The sensor picture of a tick is any member of `Inputs`.

`hk_mission_step` ends with level outputs (lock, servo, buzzer) that are
functions of the state it ends in; they are left out.

**SensorManager.** A tick is a period of `task_imu`. A device that is tried
answers or does not; the history `age`, `since_try` and `answered` says how old
the shown value is and when and how the last attempt ended. `task_imu` finishes
within each tick; `task_env`, of lower priority and with delays of its own,
within `EnvJitter` ticks, and anything may happen between its critical
sections. The two humidity sensors behave alike, so one of them stands for both.

**Flight.** The capsule stands on the ground, climbs to `Top`, hangs, falls
when its carrier loses it or the machine lets it go, and lands. The barometer
is right whenever it answers, and the IMU shows 1 g, or 0 in the fall, except
for `MaxSpikes` samples; each device fails to answer `MaxLapses` times, its
silence at boot counted. These are the assumptions
under which the properties are promised; what a noisy barometer or a sinking
carrier does is left to the plan. `clock` is `hk_millis`, `now` what it was when
`task_mission` last ran, `waiting` the ticks for which the machine has owed a
transition, and a late transition is charged to the `lapses` of its sensor. `task_mission` runs once in each tick, before
or after `task_imu` and anywhere within a pass of `task_env`. A flight is
followed until its release is over or it has landed, so that the model
really stops there and the run does not check deadlock.

**Health.** Time moves in units of 200 ms. A thread that is not stalled runs
within `Jitter` of its release, in any order with the others, also in the middle
of `hk_health_service`. A stalled task is a blocked or dead one; a task that
spins above the health task's priority would starve it and the watchdog as well,
which ends in the same reset without the model's help. `Reset` starts over, the
RAM log included, which `hk_log_ram_init` clears at boot.

**ConfigJournal.** A slot is free, torn or holds a record; an erase can leave any
mixture of free and torn slots. `hk_config_save` is part of the module although
no task calls it yet. Parameter errors and read errors of the flash are not
modelled: the first are constant, the second do not occur on memory-mapped flash.

**Storage.** The queue holds bytes, and frames have the sizes of their codec
(`Payload`, `Size`), so two kinds fill it to the last byte and others do not fit.
A scan that an error cuts short may have seen any of the sessions on the card; the
history `misnumbered` holds the sessions to which such a scan gave a number that a
whole one would not have given. `CsvInBin`, `AppendOnly` and the order between
sessions except these and no others: there the code harms a log (see below).
The CSV header row, the torn frame at the end of a file after a power loss and
the codec are not modelled; GPS records behave as IMU records without
decimation. `hk_storage_close` is called by nobody.

**RingBuf, GpsRx.** The compiler is taken to keep the store of a byte before that
of the volatile index that publishes it, which C does not promise for
`rb->buf[head]`, a plain object, but one core and the builds at hand keep. There
is one core: the task makes no step while an interrupt waits or runs; the DMA
does. A byte is its number in the stream, so that loss, repetition and order are
visible, and the XOR checksum is taken to tell every other line from a whole
one. `MaxLate` bounds the latency of the interrupt: it has put its first cell
within a character time (1 ms at 9600 baud) and ends within `MaxLate` more.
Without the half-transfer event (`uart_dma.c:112`) a later one finds cells
overwritten. Under that bound the wrapped branch of `hk_uart_dma_on_rx_event`
is never taken. A sentence is what the code tests of it: its type, what it says of the
fix (yes, no, or an empty field), whether it has a position, and its place in the
stream. `Parse` takes it field by field, as `nmea.c` does: the position if there is
one, the quality if a GGA has one, `valid` by the quality kept or by the word of an
RMC. `fix.position` is the sentence the position is of, `fix.n` stands for the fields
every sentence brings. `op_write`, `op_available` and `hk_gps_send_ubx` have no caller.

**SdCard.** A command and its response are one step. The card, which is external,
ignores what it is sent while it programs, may take any time, may be pulled, put
back or exchanged at any step, and takes CRC for off until CMD59. A wait may run
out whenever the card is slow: the poll counts of `sd_spi.c:31-34` count bytes and
not time. A fault loses a transfer or changes one bit of a response or of a block
read. The OCR has no CRC and is taken to be read right. The SPI bus has this one
user, so its lock never blocks.

**I2c.** Bytes of `Bits` bits; the runs take 3 instead of 8, with an address of 2. The
slave is external, acts on the edges of the lines and sends the byte `reg` over and
over. The mutex of the bus makes operations exclude each other, so one at a time is
modelled; the delays are left out, since only the order of line changes matters to
the slave. A wait for the clock may be given up,
as after the 1000 rounds of `scl_release_wait`; operations that met it return
`HK_OK` with whatever they have, and are marked by status `held`. `op_recover`
does not look at SCL: a stretch is taken to be shorter than its half period of
1 ms. `Reset` lets go of both lines, one just before the other, and leaves the
slave where it was.

## Runs

| Run | Shows | Bounds and why they suffice |
|---|---|---|
| `mission` | timers tell the truth, debouncing, exact dates, no overrun, no early timeout, no state but ATTACHED, ARMED and RECOVERY lasts | clock of 8 values with holds of 2-3 and limits of 3-6: every wait straddles the wrap in some behaviour; inputs lie on both sides of every threshold for each set of live sensors |
| `health` | no reset of a healthy system, no forgotten task, warning before reset, no false warning, reset for a task that stops for good | the firmware's own figures in units of 200 ms (500 ms env task rounded up, 2 s watchdog, 10 passes of 100 ms); three tasks, one of them unmonitored |
| `config` | success means loaded, all or nothing under power loss and flash errors | 3 slots, 5 saves: more than one filling and one erase |
| `storage` | order, CSV within BIN, events durable, drops counted, old logs untouched but by a cut scan | 3 records of three kinds, 1 fault at any call, the scan included, 1 power loss, a card that fills up; a queue that two frames fill |
| `storage_live` | the card comes back, the queue is written and synced, and every record is in the log or counted, but for at most `Unsynced` a fault, those drained between two syncs; one less is violated | 4 records, 2 faults at any call; one frame a drain and a sync every second one, so that a fault meets as many unsynced frames as the bound has |
| `sensors` | flags mean recent values, flags tell the last attempt, backoff kept and ended | env pass every 2 ticks and as long as that, backoff of 4, a clock of 13 values: passes come early and late, and every wait straddles the wrap; any device fails at any time |
| `flight` | arming in time, release in time, no release without a fall | one failed sample of each device and one wild sample anywhere in the flight, a cold start of the barometer instead of its failed sample; a tick is 250 ms, thresholds as in the firmware; the tick more or less on the ground shifts the climb against the passes of `task_env`, which come every second tick, the capsule hangs for longer (18) than the latest arming, and falls for longer (20) than the latest release (19). Of the bounds of `ArmedInTime` and `FallCaught` none is more than three ticks above what is reached, with an outage or without |
| `gps` | bytes arrive once and in order, are lost only to a task that lags by a ring, whole sentences are published, what is published is no older than what was delivered; the ring is a FIFO | three sentences of 2 and 3 bytes, after one that was sent before the DMA was started: a GGA with fix and position, an RMC that takes the fix back, a GGA without a quality that makes it valid again; any of them may be lost or late. A DMA buffer of 2, a ring of 4, chunks of 2 and lines of 3: both buffers wrap, the one twice and the other four times, the ring refuses bytes, a chunk is full and is not, loss leaves fragments |
| `sd` | the driver is a store of blocks through lost and changed bits, slow answers and other cards; it never believes a card ready that it addresses wrongly; it leaves the bus free; it finds the card again | the three kinds of card, four blocks that tell their number, a block size of 2 so that byte and block addresses meet on different blocks; 1 fault, 2 changes of the card |
| `i2c` | what `HK_OK` reported was transferred; `op_recover` frees a slave that was sending; operations free the bus in the end | bytes of 3 bits with every change from bit to bit, writes and reads of 1 and of 2 bytes, alone and joined by a repeated START, 1 reset at any line change, 2 stretches |
| `i2c_recover` | (violated) `op_recover` frees a slave caught in mid-byte, whichever way the byte was going | as `i2c` |
| `flight_cold` | (violated) no release without a fall, with a BMI270 that is silent at boot | no fault at all after that |

## Fairness

`Mission`: `WF(Next)`, because `task_mission` is an endless loop over
`vTaskDelayUntil` and each pass always has a next step. `Health`: strong fairness of
boot, start, kicks, service, time and reset taken together, so that one of them goes on
even when tasks stall and resume over and over; that each task still running kicks in time
is no fairness but the guard of `Tick`. `Storage`: the storage task goes on,
its waits included; `Recovers` speaks of a card that stays in its socket in the end. `GpsRx`: interrupts are served,
`task_gps` is scheduled, and a line that no byte follows on falls idle; nothing
is assumed of the receiver. `SdCard`: the driver's steps and the calls of the
storage task go on, which tries again for ever, and a card ends what it programs;
`ComesBack` speaks of a card that stays in and a line that has become sound.
`I2c`: operations go on, tasks make them again and again, and a slave lets go of
the clock.

## Proofs

| Theorems | Properties | Assumed beyond the constants' own |
|---|---|---|
| `MissionProofs`: `InvHolds`, `TypeHolds`, `TimersHold`, `EnteredHolds`, `DebounceHolds`, `StayBounded`, `NeverEarly` | the safety of `Mission` | `0 \notin Gaps` |
| `MissionProofs`: `ReleaseHolds` | `ReleaseMeansFall` | the IMU answers at boot; `2 * MaxSpikes <= release_hold_ms`; thresholds below 1 g and below 0 m/s |
| `MissionProofs`: `FallHolds` | `FallCaught` | `0 < release_freefall_g` |
| `MissionProofs`: `ArmHolds` | `ArmedInTime` | mode AUTO_ALT, `arm_altitude_m <= Top` |
| `HealthProofs`: `StallHolds` | `StallIsFatal` | none |
| `HealthProofs`: `HealthyHolds`, `WarnedHolds`, `NoFalseAlarmHolds` | `HealthyNeverReset`, `WarnedBeforeReset`, `NoFalseAlarm` | figures of the schedule: `InTime(b, 1)`, `InTime(b, WarnPasses)`, `Patient` |
| `ConfigProofs`: `OkLoads`, `JournalImplements` | `OkIsLoaded`, `ImplementsStore` | none |
| `StorageProofs`: `StoreHolds`, `RowsHaveFrames`, `LogOrdered`, `EventsOnCard`, `NoneForgotten`, `LogAppendOnly` | `CsvInBin`, `Ordered`, `EventsDurable`, `Accounted`, `AppendOnly` | `RoomForNames` |
| `SensorProofs`: `TypeHolds`, `FlagsHold`, `FreshHolds`, `ProbesHold`, `BackoffHolds` | the safety of `SensorManager` | none |
| `GpsProofs`: `CellsHeld`, `RingIsFifo` | `ImplementsFifo` | none |
| `GpsProofs`: `BytesInOrder`, `LossIsLag`, `RingServesGps` | `NoByteAstray`, `LossMeansLag`, `ImplementsFifo` | `Prompt` |
| `GpsProofs`: `FixNotStale` | `NoStaleFix` | `Prompt` |
| `I2cProofs`: `BytesDelivered`, `ReaderFreed`, `Invariance` | `Delivered`, `RecoverFreesReader` | none |
| `SdCardProofs`: `BusHolds` | `BusReleased` | none |
| `SdCardProofs`: `ReadyHolds`, `SdServesFat` | `ReadyMatches`, `ImplementsBlockStore` | `Clear`; for the second also `~MosiNoise` |

Every proof has the same shape: an invariant that is inductive, a lemma per action
that keeps it, and a temporal step by PTL. Where the property is not inductive by
itself, this is what had to be added.

**Mission.** For every configuration, every clock width and every set of inputs.
`Debounced` alone is not inductive: whether the next tick may fire depends on the
timers, so `IInv` adds `TimersTrue` (each timer measures how long its condition
has really held, short by one millisecond if it started at t = 0) and
`EnteredTrue` (`t_enter_ms` dates the state exactly). The argument is that
`Elapsed(Plus(now, dt), u) = Elapsed(now, u) + dt` as long as the sum fits the
clock, and it fits because a hold or limit plus the longest gap does
(`Duration`). The assumption, that no two ticks fall into the same millisecond, is
needed. `sustained()` records a timer started at t = 0 as 1; if
a second tick runs in that same millisecond, which `vTaskDelayUntil` allows
after an overrun, then 0 - 1 wraps and the hold is taken as over. It takes a clock that
has wrapped, after 49.7 days; TLC finds it with `Gaps = {0, 1}`.

**Flight.** For every period, jitter, backoff, hold time and altitude, any number of
outages of both sensors and any time on the ground and aloft. `Base` puts the two
components together: `IInv` of the machine and `TryInv` of the sampling tasks are
kept by each other's steps and by the world's, the clock is at most a tick ahead of the
machine, and a device that does not answer has failed (`lapses`). The lemmas of
`SensorProofs` are used through an instance. On `Base` rest three invariants, one for
each property.
`SpikeInv`: before the fall a wild sample is seen by two runs of `task_mission` at most,
the one before and the one after the next pass of `task_imu`; it counts those still to
come in advance (`ImuLag`, `Yet`), so that `held_a` stays below
two for each sample. `RiseInv`: the altitudes that go into the filter only grow, so the other
condition is never met. Both hypotheses of `ReleaseHolds` about the IMU are tight:
`flight_cold` shows one, and one wild sample against a hold of one tick, or two
against three, releases the capsule (`Flight.cfg` with these figures violates
`ReleaseMeansFall`).
`FallInv` and `ArmInv` bound `waiting` by what has been lost (`FallLoss`, `ArmLoss`)
and by how far the present attempt has come, in the order in which the
condition travels: the sensor is silent and the backoff runs (`since_try`), it is to be sampled
(`EnvLag`), the pass that sampled it is on its way to the flag, the machine counts
(`held_a`). Every step either moves on or is an outage, and then the loss grows by
the whole of the bound. The clock enters only through `TimersTrue` and `TryInv`, so the
wrap is no case of its own.

**Health.** For every set of tasks, periods and jitter. `StallIsFatal`: a kick of
a dead task may be left in `s_kicked` or in the copy the service has taken, so one
refresh may come after its death; `StallInv` says that after that one no kick of it
is left anywhere. The other three bound times, and hold of a firmware whose figures
are right; the figures are named. `KicksWithin(b)`: a running task has kicked
again `b` ticks after a refresh or a boot. `InTime(b, n)`: the watchdog waits longer
than that and `n` rounds of the health task. `Patient`: a task that runs is missed in
fewer passes than a warning takes. The instance of `Health.cfg` meets them with b = 4.
`DueInv(b)` bounds the age of the watchdog by what every task still has until its
next kick, `WarnInv(b)` by the passes still missing to the warning once only
stopped tasks are left, and `AlarmInv` bounds how many passes have counted a task
that runs. A task that is resumed restarts the argument: `Steady` leaves out that spell.

**ConfigJournal.** For every number of slots, every set of configurations and every
bound on seq. `JournalInv` adds to `OkIsLoaded` that the record being written is
numbered after all others, and that its slot reads as that record or as none. For
the refinement, `newest` is a `CHOOSE`; the lemmas say that it exists (a set of
numbers has a least one), that it is the only one, and so that what is loaded changes
with a newer record only.

**Storage.** For every list of records, every size of queue and card and any number
of faults, resets and power losses. Nothing in a step tells that the log so far
is in order, so `StoreInv` says where every record is: `OpenInv`, the file on the
card is a prefix of the open one and equal to it unless it is dirty; `NamesInv`,
the open session is newer than all others; `OrderInv`, queue, record in hand, open
file and older sessions hold numbers in this order; `RowsInv` and `EventsInv`,
what is true of CSV and EVENTs also in the middle of a drain; `GoodInv`, what cannot
happen while card and power are good. Any call may fail, the scan for the newest
session among them: what that can harm is the sessions it numbered wrongly
(`misnumbered`), and that it can harm no other is part of what is proved. One limit of the
code is assumed, and without it the theorems are false (see below): `RoomForNames`,
not all 9999 names are used (`storage.c:320`).

**SensorManager.** For every list of devices, period, jitter and backoff that fit
into half the clock (`SensorAssumption`). In the middle of a pass the flags lag
behind, so `FlagsInv` says which of them are already true and that the locals of the
pass know the truth about the others. `FreshInv` adds why no pass leaves an old value
under its flag: what answered before was tried so lately that it is due, by
the signed difference of `retry_due`, at every pass, and the age under each
flag is bounded by how far the present pass has come. `TryInv` says the same of the
silent ones: `retry_at_ms` lies exactly a backoff after the last attempt, and that
attempt is no older than a backoff, one pass, and how far the present pass is
late (`Lag`). So the signed comparison never meets half the clock, a device is
tried when its backoff is over (`ProbesHold`), and not before (`BackoffHolds`).

**RingBuf.** For every capacity and kind of byte. Each side keeps the cell it has
checked, whatever the other does. A put takes effect when `head` is published, a get
when `tail` is; the cells from `tail` up to `head` are left alone by all other steps.

**GpsRx.** For every stream, wherever it begins and ends, and every size of DMA
buffer, ring and chunk. `DmaInv` says that what the interrupt has yet to put stands
in the cells behind the DMA (`CellsInv`), and that the position it is at, the bytes it
has not looked at and the pending events fit together (`PlaceInv`). `QueueInv` counts
the bytes that wait: two of them are as far apart in the stream as in the queue, so a full
ring means a lag of as many bytes; `PollInv` says which of them a poll that found
less than a chunk can have left. The steps of the ring are those of
`RingBuf` (`RingMoves`), and its proofs are used. For `NoStaleFix`, `LineInv` says that the
parser has in its line all that has come of a sentence of which nothing is lost, and
has accepted those that are complete; `OrderInv`, that it accepts them in the order of
the stream; `Fold`, that the fix is what these sentences make of it, field by field: `fix.quality`
and `fix.valid` go back to one that said so, with no word against it since.
A poll that has ended has fed all that was handed over when it began and was not refused,
so that what was delivered is accepted. `Prompt` is `MaxLate <= 1`: the
interrupt is over one character time, 1 ms at 9600 baud, after its first byte. This
is tight: with `MaxLate = 2` the DMA overtakes it (TLC finds the lost byte), for want of the
half-transfer event.

**SdCard.** For every set of cards, blocks and waits, and any number of faults and
changes of the card. `BusInv` says for each step of the driver whether chip select is
asserted there. `SdInv` says how far `hk_sd_init` has come with the card in the slot
(`InitialInv`: each step has a card in the mode the answers so far told, or one
that has lost its power since), that a card that still has its state is the one that
was initialised (`MatchInv`), and whose block is on its way at which step, which a
card changed in the meantime cannot go on with (`TransferInv`); `WrittenInv` adds that
the card programs what was to be written. In the refinement a read takes effect with
the block that is read, a write when the card ends its programming; a call that is left
while the card programs goes to `loose`. `Clear` is `~MisoNoise \/ MaxFaults <= 1`: the
lines may lose what they carry at any place and any number of times, or one bit of
one answer may change, as run `sd` allows. `WornInv` is for the second case: only a
fault leaves a card programming, so that the one changed bit does not meet such a
card, and an answer misread before (`Worn`) leaves the driver a step early or late with
a card that refuses the next command. Without `Clear` both are false: after a lost write
one changed bit does it, see below. `~MosiNoise` is needed because the card checks no CRC.

**I2c.** For bytes of any length, every address, every content and length of what is
written and read, and any number of resets and stretches. What a step of the master
may do is told by its place in the code; what the property needs is where the slave is then.
`TransferInv` says it for each line of each primitive (`InStart`, `InWrite`, `InRead`,
`InStop`): the bits it has shifted in are the first `round - 1` or `round` of the byte,
depending on whether the clock has risen yet, which a stretch can delay past the
master's own line; what it has heard is what was written before this call (`HeardAt`),
what was read are so many copies of `reg` (`RxAt`). `PlaceInv` ties the lines to the place, so that
no line change but those of `i2c_start` and `i2c_stop` is made with SCL high.
`Delivered` speaks of operations that begin with an idle slave; from any other a
byte may be answered by a slave that counts otherwise, and nothing is promised of it.
`RecoverInv` counts the pulses of `op_recover` against the bits the slave has yet to
send: `FreeAfterLow` and `FreeAfterHigh` say that those still to come are enough, and the
one beyond the bits of a byte is for the acknowledge it then waits for and does not get.

Only model-checked: all liveness (TLAPS has no liveness under fairness and no
`ENABLED`). Every invariant and every action property of the passing runs is a theorem.
What a recursive definition computes for every input is out of reach as well; no
module uses `RECURSIVE`.

## What the violated runs show

- `flight_cold`: scale factors of the BMI270 are set only by a complete
  initialisation, which is tried at boot alone; a BMI270 that wakes up later
  reads 0 g with a valid flag, and the capsule is released in the air.
- `i2c_recover`: a slave that was about to acknowledge a byte written to it takes
  eight of the nine pulses of `op_recover` for another byte and acknowledges
  that with the ninth; SDA is low when the STOP is made, so there is none. It
  concerns a reset of the MCU during a write; a slave that was sending is freed
  (`RecoverFreesReader` of run `i2c`).

## Limits without a run

Each is a line of the code that a property of a passing run would meet with other
constants:

- In AUTO_ALT mode only the barometer leads to ARMED (`mission.c:119`), and rev-2
  has no commands, so the IMU-only mode that `mission.c:12-13` names does not
  release a falling capsule. Reproduce: `Mission.cfg` with `Inputs` the one picture
  of a falling IMU, property `<>(state = "RELEASE")`.
- The card probe in `hk_app_init` (`app.c:88`) runs with the watchdog already
  counting; a card that answers but stays idle makes it last about as long as the
  watchdog waits. Reproduce: `Health.cfg` with `ProbeTicks = {0, 10}` violates
  `HealthyNeverReset`.
- An error during the scan for the newest session (`storage.c:318`) makes the service
  open, and so truncate, an existing one. Reproduce: `Storage.cfg` violates
  `AppendOnly` when `misnumbered` is no longer excepted in it.
- The frame in hand when `f_write` fails is gone and not counted in `dropped`, as are
  those that no sync had reached (`storage.c:463-466`); `Recovers` bounds how many.
- Session numbers end at 9999: once `FL_9999` exists, each mount opens it again and
  truncates it (`storage.c:320`). Reproduce: `Storage.cfg` with
  `OldSessions = {4, 5}` and `MaxSession = 6` violates `AppendOnly`.
- The erase of a full configuration sector is a window without any configuration
  (`config.c:104`), although `config.h:20-22` says the previous one survives power
  loss; `ConfigStore` allows that loss in that window and nowhere else.
- `sd_spi.h:20` says that CRC16 is verified in both directions, but a card checks
  none in SPI mode before CMD59, which is never sent: a bit that changes on MOSI is
  written. Reproduce: `Sd.cfg` with `MosiNoise = TRUE` violates
  `ImplementsBlockStore`.
- A card that is still programming after a lost write holds MISO low, which
  `hk_sd_init` reads as 0x00; one changed bit makes that the 0x01 of an idle card
  (`sd_spi.c:148-150`), and the initialisation goes on with a card that has heard nothing of
  it. Reproduce: `Sd.cfg` with `MaxFaults = 2` violates `ReadyMatches`; with
  `MisoNoise = FALSE` it does not.
- A line error ends GPS reception until the next reset (`uart_dma.c:107`), and a
  receiver that falls silent leaves its last fix valid (`nmea.c:128`, `app.c:221`).
- A GGA whose quality field is empty is valid by the quality of an older GGA
  (`nmea.c:125-128`), although an RMC has made the fix void since. Reproduce: `Gps.cfg` violates
  `NoStaleFix` without its last conjunct's exception.

## Plan

Done: all modules of the table; `Mission`, `Health`, `ConfigJournal`, `RingBuf`,
`SensorManager`, `Flight`, `Storage`, `GpsRx`, `SdCard` and `I2c` with proofs. Next,
in this order:

1. More of `Flight`: a noisy barometer, a carrier that sinks during an outage
   (the speed is taken over 0.5 s however old the last altitude is), a reset in
   flight.
2. `Storage` on `SdCard` instead of the card it assumes.
3. The boot sequence with the INI overlay of the configuration, and
   `task_control`.

Not modelled: unit conversions and register sequences of the sensor drivers,
actuators and `task_control` (levels that are functions of the shared picture), the
BMI270 vendor code, FatFs beyond what storage relies on and what it relies on
itself, log formatting, PWM arithmetic, board set-up, HAL transfers of the I2C
peripheral and the bus scan: data, third-party code or straight-line code without
state over time. The host tools read logs on a PC.
