# Anemoi: specifications of the anemometer's firmware

The repository holds the firmware of an ultrasonic anemometer (ITBA, 2018): an
ESP32 times ultrasonic pulses along two crossed paths, in both directions of
each, computes the wind from the four times of flight and reports it as NMEA
sentences and to a phone over Bluetooth (Blynk). This directory holds TLA+
specifications of it, configurations for TLC and proofs for TLAPS.

There are two firmwares. `src/Anemoi+Blynk/main` is the current one;
`src/Anemoi/main` is the version before Blynk. Their `GpioAnemoi.c`,
`SpiAnemoi.c` and `ClockAnemoi.c` are identical. Everything else under `src/` is
vendored (Arduino core, ESP-IDF headers, Blynk and other libraries) or build
output. The repository has no tests; its documentation is its comments.

## Inventory

Files without a directory are in `src/Anemoi+Blynk/main`.

| Part | State | Operations | What is hard | What makes it correct |
|---|---|---|---|---|
| GPIO driver (`GpioAnemoi.c`) | output pins, enabled interrupts, two queues of cycle stamps | pin setters, `sendTrigger`, two interrupt handlers, `getQueueCycles` | handlers run between any two statements of the task; bounded queues that drop; queues that could not be created | no handler runs while the pins belong to another path |
| Measurement (`TimeMeasurementAnemoi.c` 72-132, 281-323) | the rows of a call, the caller's time | `measureTimeOfFlight`, `calculateTimes` | lost and late edges, stamps left by a failed call, slots skipped on a timeout | a time comes from the call's own edges; one result or one error; the call returns |
| Bucketing (`TimeMeasurementAnemoi.c` 145-267) | 40 buckets | `calculateTimeOfFlight` | all buckets hang on the very first time; empty buckets (0/0); buckets behind the last; the cycle counter wraps | the time found is the one most pulses agree on; another one is refused or off by a known amount |
| Cycle-slip calibration (`TimeMeasurementAnemoi.c` 367-498) | `zeroWindTime`, static | `SoftCalibration` | six loops that overshoot and share times; a learned constant that stays wrong; times that were not measured | it ends, undoes slips, never takes wind for a slip, does not learn from slips |
| Main loop (`main.cpp` 50-233) | four times, four error codes, ring of ten winds | `app_main` | which errors keep which data from being used; old data reported as new | a reported wind is the latest one; an old one is announced |
| Wind (`main.cpp` 236-315) | none | `calculateWind`, `AngleSpeedCorrection` | division by zero, an arc tangent that loses signs, direction 360 or NaN as a table index | indices within the table; a turned wind has a turned direction |
| NMEA (`NmeaAnemoi.c`) | none | `sendNmeaWindData`, checksum, `initNmea` | 30 byte buffer, fields and line ends the comments promise | sentence fits, ends as promised, status tells validity |
| SPI, TDC1000 registers (`SpiAnemoi.c`) | register tables | `initSpi`, `initRegistersTdc1000`, `readRegistersTdc1000` | none: a fixed sequence at start-up | - |
| Clock (`ClockAnemoi.c`) | none | `initClock` | none: one call | - |
| Blynk link (`libraries/Blynk/src`: `BlynkProtocol.h`, `BlynkSimpleEsp32_BLE.h`) | session state, transport state, nesting | `run`, `processInput`, `sendCmd`, `startSession`; `onConnect`, `onDisconnect`, `onWrite` | callbacks in the Bluetooth task, no lock; a send that runs the protocol again | connected only after this session's login; a lost link is noticed; a phone gets through |
| Receive buffer (`utility/BlynkFifo.h`) | ring of bytes, two indices | `put`, `get`, `clear`, `free`, `size` | two tasks, no lock, `clear` from either side | no byte lost, doubled or out of order; no copy out of bounds |
| Older firmware (`src/Anemoi/main`) | 50 rows, their counts | `measureTimeOfFlight`, `calculateTimeOfFlight`, `AnemoiApp` | goes on after a failed batch; unstable sort | failed batches do not count |

How they interact: everything but the handlers and the Bluetooth callbacks runs
in one task. `app_main` calls `measureTimeOfFlight` for X+, Y+, X-, Y-. Each
call sets up pins, triggers twenty pulses, and after each receives from the two
queues what the handlers put there; it makes one time of all of them, writes the
caller's time or returns an error. `app_main` then calls `SoftCalibration` on
the four times, computes the wind, runs Blynk, sends seven values to the phone
and a sentence to the UART.

## Modules

    Anemoi                 vocabulary: paths, codes, pins, wiring
     |- GpioAnemoi         the driver, one operator per function
     |   '- TimeMeasurement         a call, step by step, with its environment
     |       |- MCTimeMeasurement   instances for TLC
     |       '- TimeMeasurementProofs
     |- PathMeasurement    what a call promises: the abstract specification
     |- SoftCalibration    the six loops
     |   |- MCSoftCalibration
     |   '- SoftCalibrationProofs
     '- AnemoiApp          the main loop
         |- MCAnemoiApp
         '- AnemoiAppProofs
    TimeOfFlight           from the stamps of a call to one time
     |- MCTimeOfFlight
     '- TimeOfFlightProofs
    WindReport             from four times to a sentence
     |- MCWindReport
     '- WindReportProofs
    BlynkFifo              the receive buffer, one shared access at a time
     '- BlynkFifoProofs
    ByteStream             what the buffer promises: the abstract specification
    BlynkLink              the session with the phone
     '- BlynkLinkProofs
    OlderMeasurement       a call of the older firmware, a batch at a time
     |- MCOlderMeasurement
     '- OlderMeasurementProofs

**TimeMeasurement** composes the task, the driver and the TDC1000. The task is a
`pc` with one action for each statement between which a handler may run:
`Call`, `EnableVdd`, `EnableTdc1000`, `EnableInterrupt`, then for each pulse
`TriggerOn`, `TriggerOff`, `Wait`, `ReceiveStart`, `ReceiveStop` or
`StopTimeout` (once for each of the `STOP_QUEUE_LENGTH` attempts), `StoreTimes`;
`NoStartReceived` and `NoStopReceived` break the loop;
`CalculateTimeOfFlight` and the three `Disable` actions end the call. The
handlers are `StartEdge` and `StopEdge`. A cycle stamp is abstracted to its age:
`own` (answers the latest trigger), `stale` (an earlier one) or `junk` (never
written); ages are what the properties tell apart. The buckets are abstracted
to their effect on the range check, in range, out of range or not a number,
which passes both comparisons.

The TDC1000 and the air are an environment, modelled from how the code uses
them: a trigger to an enabled chip with a powered transducer makes at most one
start, which may be missing, and any number of stops; with `LateEdges` edges may
arrive after the wait. A disabled chip is in reset.

**PathMeasurement** is the same call seen by `app_main`: which path was asked
for, which one the hardware listens to, how many pulses, which answer, and the
four times. A time is written only by a call that answers success, after N
pulses, with the hardware listening to that path and no other; the hardware is
quiet before the call returns. `KeepsPromise` in TimeMeasurement is the
refinement mapping: `listening` is read off the pins and interrupt lines.

**TimeOfFlight** is what `TimeMeasurement` abstracts: the numbers. `Pulse` makes
a row of elapsed cycles, counting backwards after a wrap as the unsigned
subtraction there does; `GiveUp` and `SetBuckets` are the two outcomes of looking
at the very first time; `Accumulate` puts one time of one row into its bucket,
`Drop` passes over one on a border (both comparisons are strict) or beyond all
buckets; `NextRow`; `Return` finds the first full bucket and makes
the result of the buckets four to six behind it: a fraction, not a number when
one of them is empty (a double's 0/0, which passes the range check), or
"outside" when one of them is beyond the table, where any result is possible.
The environment is echoes: each pulse hears some of them, with one jitter,
from the true time of the first one on, and the very first pulse may find other
stops in front. The unit is 50 ns, twelve cycles: the period, the phase shift and
the range are exact in it.

**SoftCalibration** has one action per turn of a loop (`Approach`, `Balance`),
one for a loop's end (`Done`), and `Learn` for the four ifs. Positive and
negative loops of an axis are one action, since at most one of the two can run.
Times are integers relative to the true time without wind; a reading is the
wind's shift on each axis and a number of slipped periods on each path. Times
that were not measured keep what an earlier call made of them.

**AnemoiApp** is a round of `app_main`: `Measure` once for each path in the
order of the calls, `ShowBlocked` (the phone's widget V7), `Compute` or
`OutOfRange`, `Average` once for each turn of the averaging loop, `Report`,
`Delay`. A measurement is one step with any answer, which is what
PathMeasurement allows; a time is written only on success. Of a time it keeps
whether it was measured in this round, of a wind whether it exceeds `LOW_SPEED` and whether
all its times are of its round. `history`, which the program does not have,
lists the ring's winds from the latest back. The temperature sent is that of the
latest wind: `main.cpp:190` adds `wind[i]`, not `wind[k]`, ten times.

**WindReport** goes from four times to the sentence: `CalculateWind`, `Correct`,
`Send`. Times are whole microseconds of either sign, 0 or NaN, speeds in 0.1 m/s;
infinite speeds and NaN are
values of their own and follow the code through each comparison. A direction is
kept as the multiples of ten degrees below and above it, which is what the
correction table is read at, and the percentage as a weight. The disjuncts of
`Correct` are a table read where it ends, one at a direction that is NaN and one
at 360 degrees; the latter two read whatever lies there. What the rounds before brought
is a choice of `Send`: their mean corrected speed, of any size or NaN, which it
averages with the latest.

**BlynkFifo** is the ring of `BlynkFifo.h` with the writer in the Bluetooth task
and the reader in the main task. A step reads or writes at most one index that
the other side stores: `PutLook` and `GetLook` read it, and `PutFull` or `PutSpace`,
`GetEmpty` or `GetData` decide on what was read, `PutCopy` and `GetCopy`
move bytes, `PutPublish` and `GetPublish` store the own index, and a clear is two
stores on either side (`ReaderClears`, `ReaderCleared`, `WriterClears`,
`WriterCleared`). A byte is its number in the order of acceptance.
**ByteStream** is the promise: a bounded stream in order. It is void from a clear
that overlaps a put or a get on the other side until the next clear that does
not, and the code makes such overlaps possible (`conn.connect()` in `run` after
a phone has already written).

**BlynkLink** is the session on top of it, with `BLYNK_USE_DIRECT_CONNECT`
(`main.cpp:17`). `run`, `processInput` and `sendCmd` call each other, so the main
task is a stack of frames; each step reads or writes one of `state`, `mConn` and
the receive buffer, and the callbacks' stores (`BtClear`, `BtConn`, `BtStart`,
`BtDisconnect`, `BtLost`) come between any two of them. The phone connects,
leaves, falls silent, and sends logins, pings, responses, commands, incomplete
and unknown frames. History says whether the session's login was read.

What the interleavings lead to: `onDisconnect`'s DISCONNECTED may be overwritten
by the answer to a login and is then noticed only in the next `run`; a `tconn`
read before a phone connected makes `conn.connect()` throw away the login it
has already sent, so that the phone must retry; after a heartbeat timeout or a
bad frame the device forgets the session without telling the phone; `mConn` may
become true with no phone.

**OlderMeasurement** is a call of `src/Anemoi/main`: `Batch`, `NoStopReceived` and
`NoStartReceived` once for each of fifty batches, whatever the one before
did, `Count`, `Sort`, `Answer`. `qsort` is not stable: `Sort` takes any
`SIGNAL_WIDTH` fullest buckets. A batch without a start leaves its element of
`timesCount` unwritten, whose value is a choice. Times are in periods.

## Runs

| Run | Question | Distinct states |
|---|---|---|
| `measure_in_time` | edges in by the end of the wait, but maybe missing: what may a row contain, and when? | 226,000 |
| `measure_late` | edges at any time, queues maybe missing: is the promise kept, does every call return? | 1,146,000 |
| `measure_failed_batch` | is the comment on failed batches true? No, see below | - |
| `flight` | pulses hear different echoes, the counter wraps, the very first stop may be no echo: is the agreed time found, and if not, what is? | 1,378,000 |
| `calibrate` | times fresh, from start-up or from earlier rounds: are slips undone and wind left alone, do the loops end, and end well, what is learned? | 285,000 |
| `app_rounds` | rounds that succeed and fail: what is sent, and who learns that it is old? | 143,000 |
| `app_status` | is the comment on the status field true? No, see below | - |
| `report` | any four times, NaN, never measured, near 0 and negative: what do table, direction and sentence make of them? | 174,000 |
| `fifo` | two tasks and their clears: is the ring a stream? | 798,000 |
| `link` | connects and disconnects between any two shared accesses: whose login connects, what is written too early, how deep do calls nest; is a lost or silent phone noticed, does one that stays get through? | 575,000 |
| `older_calls` | failed batches anywhere: what does the answer tell, when is it the signal? | 35,000 |
| `older_failed_batch` | is the older comment on failed batches true? No, see below | - |

Bounds. The measurement runs use two of the four paths (they differ in axis, in
direction and so in every pin) and N of 2 or 3 instead of 20: a property about
rows needs a first, a middle and a last one. The stop queue holds 2 or 3 stamps
instead of 30 and up to one more echo than that is under way, so it overflows.

`flight` has three pulses of which two must agree, and a queue of 11
stops (21 buckets): enough for the ten buckets in front, the bucket itself and
the four to six behind it. Period, shift, limits and counter are exact. Echoes
are complete, miss the first or the first three, are cut off or have a gap; the jitter of a
quarter period puts echoes of different pulses half a period apart, which is a
border between buckets. The counter starts so that it does not wrap, wraps
between the first start and its stops, or amid the stops of the second pulse.
Seventeen prefixes of the first row lie on both sides of every guard: none, one
spurious stop early or late or at some phase of the echo, or stops left by a
failed call 7.5 ms or 20 ms before, one or seven of them.

`calibrate` takes a period of 100 units, a quarter of a microsecond
each: the thresholds (8, 20, 65, 120 units) are exact, and the readings lie on
both sides of each. For most readings all four times are fresh; for a few, any
of the paths may have failed. Slips reach two periods; `zeroWindTime` starts wrong by up
to half a period. Unmeasured times are 0 s, 17.18 periods before the 429.5 us
of 0.146 m at 14 degrees.

`app_rounds` has a ring of 4 and averages 3, so the loop
meets the ring's end at each of its turns, and two paths, of which any may be
the blocked one; `app_status` has all four.

`report` has eleven times: NaN, 0, four around the 425 us of no wind and two farther off that
make equal times, axes, diagonals and all quadrants, and on both sides of 0 and at
3 us from it those that a `zeroWindTime` of 0 leaves. The rounds before had a
moderate wind, the last speed of seven characters, the first of eight, or NaN.
`fifo` has a ring of 4, calls of 1 to 5 bytes and 7 bytes in all: a
wrap of both indices, a call larger than the ring, a full and an empty ring.
`link` has two messages in the buffer, one call of `run` in each wait of `sendCmd`
and logins, commands, incomplete and unknown frames: a ping is answered as a
login in a session is, and a response is only noted. `DepthBounded` and
`EarlyCommandsFew` are tight there: one less is violated. `older_calls` has three
batches (first, middle, last), a queue of 4 and a signal of 3 buckets
instead of 12.

What they show beside the obvious. `StaleWindAnnounced` is as strong as it can be: a wind
computed with an old time is preceded by "BLOCKED PATH!!!" if a path had no
stop, but if a path had no start nothing tells. At start-up with all paths
blocked `zeroWindTime` is learned as 0 from four times of 0 s: `LearnsNearFresh`
says that two fresh times prevent it, `LearnsZeroWind` that still air heals it,
`EndsNearZeroWind` that the times returned are then near 0 too. What this does to the
report is in `SentenceFits`: a time within 3 us of 0, and it alone, makes a speed so
large that sprintf and strcat write past the 30 bytes of `nmeaSentence`, in its own round
or as part of the average; NaN, infinite speeds and times of 3 us or more fit.
`PlacesInTable` says exactly when `AngleSpeedCorrection` reads its table at a
place it does not have: when a time is NaN (an empty bucket, accepted by the range
check), when two of the four are 0, with Y- alone 0 and the wind against X (360 degrees),
and in a complete calm, where 0/0 makes the direction NaN. `AgreedEchoIsFound` and
`WrapIsRefused` ask that the very first time is an echo's and the table reaches the
agreed one from it (`FirstIsEcho`); the others of `flight` say what happens if not.
Nothing asks whether any bucket is full: if none is, the time lies ten periods before the very first
stop (`TenPeriodsEarlyAtMost`), and seven or more stops left by a
failed call 7.5 ms before (a burst in `flight`) are accepted as a time of about
7 ms; up to 10 ms is in range. A single spurious stop counts as one more pulse
hearing what lies in its bucket, and moves all buckets by its phase, which may
split each echo between two: the time is that of the agreed echo, or of an
earlier one that is, with the echo before it, one pulse short of agreed, and off by a period more at most
(`SpuriousStopCountsOnce`). That it costs less than two periods altogether does not follow:
pulses that each miss other echoes may put the almost agreed echo anywhere. A direction on a multiple of ten
degrees counts its table entry twice and so halves the corrected speed
(`CorrectionFollowsTable`). Up to three commands whose check preceded the
session are written before its login (`EarlyCommandsFew`). In the older firmware
the first batch decides: if it failed, the rest is thrown away; if the last one
failed, its error is returned with a time (`AnswerTellsFirstAndLast`).

## Findings

Each of three is a comment that the code does not keep, shown by a run of its own.

`TimeMeasurementAnemoi.c:98` says "if some error ocurres this batch
doesnt count". When the start of a pulse is lost, `calculateTimes` returns
before receiving the stops of that pulse. They stay queued when the call ends
(nothing empties the queue), and are the first stops of the first row of
the next call, usually on another path. `measure_failed_batch` shows the trace;
`StaleOnlyInFirstRow` shows that the damage ends with that row, since a row
receives as many stops as the queue can hold.

`NmeaAnemoi.c:80` says "Status: A= data valid, V=data invalid", but the status
sent is always A (line 131). A round in which all four paths fail sends
the wind of an earlier one, or 0 before any, as valid; `app_status` shows the shortest such round.

`src/Anemoi/main/TimeMeasurementAnemoi.c:96` has the same comment on failed
batches. There the loop goes on, and a batch without a start leaves its
`timesCount` unwritten (lines 339-343, 352), which line 169 reads all the same. If
it holds more than a row, the loop runs into the following rows and counts their
times again. `older_failed_batch` shows a trace.

A fourth needs no run: `NmeaAnemoi.c:56` says that each sentence "ends with
<CR><LF>". What goes to the UART (line 141) ends with the checksum; the end of
line is printed to the console (line 138).

## Fairness

`WF(Task)`: the task is the only one of its priority in the firmware, it blocks
only in `vTaskDelay` and in `xQueueReceive` with a timeout of a tick, so it always goes on.
`WF(Edge)`: an edge under way arrives. `WF(Calibrate)`: a function without waits
goes on. Nothing is assumed about `Call` or `Measure`.

BlynkLink's `FairSpec` has `WF(Main)` and `WF(Bluetooth)`: the main task goes on as
above, and a callback once entered ends, having no waits. Nothing is assumed of
the phone. `LinkComesUp` is conditional instead: if the phone stays, sends logins
again and again, and no more bad or unknown frames from some time on, the link
is connected again and again. The conditions are needed: a login may be
cleared by a `conn.connect()` decided before it came, and a phone that
interleaves bad frames forever can have every login cleared.

`LateEdges = FALSE` is the code's own assumption ("wait for transmission and
reception"): the tick is 1 ms here, sound takes 0.42 ms for 0.146 m and thirty
periods 0.75 ms. The older firmware has a tick of 10 ms, where a delay of 1 or 2 ms
is none, so it is not justified there. The promise to the caller (`KeepsPromise`) and
the return (`EveryCallReturns`) do not rest on it: `measure_late` checks them without.

## Proofs

For every value of the constants within the named assumptions
(`QueueAssumption`, `MeasurementAssumption`, `FlightAssumption`,
`CalibrationAssumption`, `UpdatesAssumption`, `AppAssumption`, `ReportAssumption`,
`FifoAssumption`, `LinkAssumption`, `OlderAssumption`, the `EchoAssumption` of
TimeOfFlight and that of OlderMeasurement, `PrefixAssumption`). The last three are
about the environment:

- TimeOfFlight's echoes come in order, less than a quarter period off and more
  than ten periods after the start (0.146 m are 17 periods or more, and the
  first echo recognised is later), and the counter's 2^32 cycles, 17.9 s, are far beyond any
  limit. Without the ten periods, bucket 0 could lie before 0; without the last, a
  wrapped time could look like an echo.
- What precedes the first row's own stops is one spurious stop before the
  echoes, or leftovers a period or more apart. A failed call ends with a delay
  of 2 ms and the next begins with one of 5 ms, each up to a tick of 1 ms shorter, so
  leftovers, which came 1.5 ms after their start at most, are older than 3 ms; the echoes with
  all buckets around them end after about 2.5 ms. `Quota` is 18, so more than 1.
- In OlderMeasurement pulses are a tick of 10 ms apart, or 400 periods: more than two
  flights with their echoes and a queue take. A queue cannot keep more leftovers
  than its length.

What the theorems say:

- `TimeMeasurementProofs`: `TypeCorrect`, `OnePathAtATime`,
  `QueuesCleanThemselves`, `NoEdgeOfAnotherCall` and the refinement
  `PromiseKept`. None of these invariants is inductive. `PinsFollowTask` says
  what the pins are at each `pc`, and `ListensToOnePath` follows from it.
  `EdgesAreOwn` and `QueuesDrained` say where own and stale stamps can be: in
  time, nothing is under way outside a pulse, and once the first row is stored
  the stop queue is empty at each trigger, because a row makes
  `STOP_QUEUE_LENGTH` attempts and `Len(stopQueue) + k <= STOP_QUEUE_LENGTH`
  while it does. The same count shows that a timeout can only be followed by
  timeouts, so no slot below `arrivedStopPulses` is unwritten.
  `NothingLeftBehind` adds that a call which lost no start leaves the stop queue
  empty, so that the rows of the next, the first included, are its own
  (`startLost` remembers it for one call). The
  refinement adds `LoopEndsFullOrFailed` and goes action by action: each is a
  step of PathMeasurement or a stutter.
- `TimeOfFlightProofs`: `TypesHold`, `MeansHold`, `LateFirstTimesAreRefused`,
  `AgreedEchoesAreFound`, `WrapsAreRefused`, `OutsideOnlyIfEarly`, `SpuriousStopsCountOnce`,
  `TenPeriodsEarly`, all of the safety that `flight` checks. `TypesHold` rests on `Typed`
  and on `NoMoreCounted`: no bucket counts more times than the loops have passed.
  `IInv` bounds counts and
  sums together (each time that counts in a bucket is less than half a period
  from its centre); with it a first time too late puts the result above the
  limit. The others count over all rows and need `SortInv`: `RowsKnown` says what a row can
  be, a prefix and then echoes with one jitter, each timed right or late by a wrap;
  `CountsExact` that a bucket's count is the number of table cells of the loops'
  past that are in it (`CountedIn`); `SumsBounded` that whatever bounds the times of
  these cells bounds their sum. After the loops the argument is one of sets. If
  the first time is an echo's, the cells in a bucket and the rows that heard its echo
  are in bijection (`CountIsHearing`), so the first full bucket is that of the
  agreed echo, and the three means lie within the jitter. If the first time is
  early, all echoes of a row are off their buckets by one of two numbers `d`
  and `d + 1`, or all on borders (`TwoOffsets`, `RowsLand`), since the jitter is below a
  quarter period; cells then map one to one into the rows that hear either of
  two echoes (`CountBelow`), and a bucket that all rows reach is as full as any
  (`FullerBehind`). If it was left over, no bucket holds two (`LeftoverCountsOne`).
- `SoftCalibrationProofs`: `TypeCorrect` (a fresh time is off by whole periods
  only), `LoopsConverge`, `LeavesNothing`, `NearZeroWind`, `Repaired`,
  `ZeroWindLearned`, `ZeroWindKept`. The
  numeric cores are lemmas on integers (`Convergence`, `NeverOpposed`,
  `MovesTheSlipped`, `StopsWhenUndone`, `StrongWindIsLeftAlone`,
  `AgreeingTimes`), from which the thresholds come: for instance two times with
  one-sided slips and wind below half a period are moved only while the moved
  one has slipped. `SlipsUndone` is the invariant of a call: what is left of
  the two slips of an axis stays on one side of zero. `Corrected` carries what
  the earlier loops achieved past the later ones; together they leave each time
  within 1.6 periods of `zeroWindTime`.
- `AnemoiAppProofs`: `TypeCorrect`, `LatestReported` and `StaleAnnounced`, for a ring of any size
  and an average of any length it can hold. `RingIsHistory` says where in the
  ring the wind of j rounds ago is (`Place`), `AverageIsHistory` that the loop's
  `k` is the place of the next wind to add and what it added are the latest
  winds, also later while a round without a wind keeps them; `SentenceIsLatest`
  that the sentence was made from both. `ErrorsAreCurrent` ties each code to
  this round's time, `Shown` the phone's text to the codes.
- `WindReportProofs`: `TypeCorrect`, `PlacesAreInTable`,
  `DirectionTurnsWithTheWind`, `CorrectionsFollowTable`, `SentencesFit`, for all
  integer times, NaN and whatever the rounds before brought; nothing is assumed of a time
  but that it is a whole number of microseconds. `Computed` says what was
  computed from what at each `pc`, `ModerateKept` that without a time near 0 the
  corrected speed has seven characters at most. `SpeedOfKinds` tells which times
  make which kind of speed, `SpeedOfMeasured` bounds a finite one: the difference of two
  times is at most twice their product, and two thirds of it from 3 us on
  (`DifferenceByProduct`). `RootExists` and `HypotenuseTypes` do the same for the
  integer root, `Rescaled` for the correction; the lemmas on `Direction` go by
  axis, quadrant and infinity, and `PlacesOfSpeeds` joins them.
- `BlynkFifoProofs`: `TypesHold`, `CopiesHold`, `RestIsConsecutive`,
  `LooksAreConservative`, `CopiesAreDisjoint`, `ReadsAreInOrder` and the refinement
  `RingIsStream`, for every size of ring and call. `Safe` (types and `Lengths`: a
  copy's length is never more than the look allowed) is inductive with
  overlapping clears included. `Ring` (`NoOverlap`, `Consecutive`,
  `Conservative`) is inductive relative to it: the index that the other side
  moves only ever makes room, so an old look allows too little. The
  refinement maps a publish to Put or Get and a clear to Clear, or to Overlap.
- `BlynkLinkProofs`: `TypeCorrect`, `OwnLogins`, `CommandsFew`, `DepthIsBounded`, for
  every set of messages, size of the buffer and number of waits. A step of the main
  task replaces the top frame, pushes one on it or pops it (`MainStack`), and the
  stack is treated once for each of these. `Linked` says which frames may lie on
  which (between two commands there is a run), `Shallow` how deep each kind lies;
  a run at depth six would be the third, which `nesting` refuses. `LoginsKnown`
  ties a login held in any frame to the session: read in it, or noted when it began.
  `Waiting`, the frames of commands past the look at `state` counted from the bottom,
  has no two neighbours among five places, so three at most; in a session
  without a login no step adds to it and a write takes one away, so that
  `stale + Cardinality(Waiting) <= 3` (`EarlyCounted`).
- `OlderMeasurementProofs`: `TypeCorrect`, `AnswerTells`, `WideEnough`, `SignalsAreFound`. `LastError` says that the error
  is that of the last row, `FirstDecides` that an empty first row leads to 0, which
  the range check refuses. `SignalNotEmpty` counts: if the earliest bucket of
  the signal is empty, so is all outside it. `SignalInv` knows of each row
  which echoes it holds, and that stale stops are too far from the first time
  to share its buckets; the cells of a bucket and the rows that heard its echo
  are in bijection, so the order by counts puts exactly the signal's buckets
  first, however ties are broken.

Proved only, and checked by no run, since other properties rest on them:
`ListensToOnePath`, `BalanceConverges`, `LateFirstTimeRefused`, `MeanNearCentre`, `Consecutive`,
`Conservative` and BlynkFifo's `TypeOK`.

TimeMeasurement's properties of liveness stay with TLC, as do
`CalibrationEnds` (the variant behind it is proved as `LoopsConverge`) and those
of `link`: the provers have no rule for fairness. Every
invariant that a passing run checks is proved too, and every refinement.

## Limits

Doubles are integers: rounding is not modelled. In TimeOfFlight a result is an
exact fraction. A NaN time never reaches
SoftCalibration here, although the range check lets one through (its loops
would end at once, every comparison being false); it is among the times of
WindReport. Names, prints and the two unused functions
`checkMissingStopPulses` and `compareFunction` are left out. An edge on a line
is one interrupt; the GPIO driver's own latency is part of "under way".
`TimeOfFlight`'s "outside", and what OlderMeasurement finds behind the last
row, stand for memory the code reads beyond a table: the first may be any
result, the second is taken to fall into no bucket. In WindReport times are whole
microseconds and speeds rounded, so a direction within rounding of 360 degrees is
one below it, and "within 3 us of 0" is two at most; what is read beyond the
correction table, memory too, is taken to leave an infinite speed infinite or to make it
NaN, and of a NaN direction to make a NaN speed. BlynkLink's buffer holds whole messages; that `onWrite` ignores how
much `put` accepted is its "bad" message.

## Not modelled

Of the 497,000 lines under `src/` all but about 3,000 are third-party code: the
Arduino core and its libraries, headers of the ESP-IDF, and the Blynk library with
drivers for every board. Of the vendored code only what runs against this program's
own task is modelled, the Blynk link and its buffer. The specifications cover
most of the program's own control flow; what is left out of it:

- `SpiAnemoi.c` and the register tables: a fixed sequence of writes; what is
  read back is printed and nothing else.
- `ClockAnemoi.c`: one call of the LEDC peripheral.
- The sound speed and the temperature made of it (`main.cpp` 256-266): arithmetic
  whose result only the temperature widget shows.
- The value of the checksum, which no code here reads, and `initNmea`, one
  configuration of the UART.
- `AnemoiApp.c` of the older firmware: the same gating on error codes as
  `main.cpp`, then `atan(x / y)` and a print.
- Blynk's messages REDIRECT, INTERNAL and DEBUG_PRINT, which a server sends and a
  phone on Bluetooth does not, and the widgets' handlers, of which the program
  defines none.

## Plan

What would add most next:

1. A composition of AnemoiApp with PathMeasurement and SoftCalibration, so that
   which times are old and which were calibrated before is one state.
