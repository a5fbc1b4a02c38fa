# Low Energy BOINC: specifications

TLA+ specifications of the programs in this repository, the TLC configurations
that check them on small instances, and proofs checked by TLAPS.

The repository holds three systems that were built for one purpose, to measure
what volunteer computing costs in energy:

1. **low-energy-boinc** (`src/boincapps/low-energy-boinc`): a BOINC application
   that samples the sensors of a volunteer's machine and sends what they
   measured to the project in trickle messages; and the daemon of the server
   that files the measurements with an OSD ("open sensor data") server.
2. **quicktester** (`src/quicktester`, `src/multiproc`): a test program for a
   bench of machines, which loads their CPUs in a row of states, and a server
   that collects what it reports together with the readings of a power meter.
3. **windowsdriver** (`src/windowsdriver`): a driver that sets the frequency
   state of a CPU while a program keeps asking for it.

Contents: [Inventory](#inventory) | [Modules](#modules) | [Runs](#runs) |
[Where code and documents disagree](#where-code-and-documents-disagree) |
[Fairness](#fairness) | [Proofs](#proofs) |
[Not modelled](#not-modelled) | [Plan](#plan)


## Inventory

Paths without a prefix are under `src/boincapps/low-energy-boinc/src` for the
first system and under `src` for the others.

### The client of low-energy-boinc

**Work unit application** (`client/BoincApp.cpp`). State: the files `in`,
`milestone`, `milestone_tmp` and `out` in the slot directory, which survive the
process; the milestone in progress, the elapsed time and the list of sensor
managers, which do not. A work unit is a row of milestones of `_seconds` each.
A milestone saves its number (write and rename), samples the sensors every
0.5 s until its time is over, and sends one trickle. The BOINC client may stop
the process at any step and start it again later. No write is checked, a
`milestone` that cannot be opened or read is taken for one that says 0, and an
`in` that cannot be opened for one that says 4 milestones of 30 s. *Hard:* a stop
between any two writes; a saved number that is lost; a clock that jumps (suspended
machine); a trickle that cannot be sent after its datapoints were removed from
memory. *Correct if:* no milestone is skipped; one is repeated only after a stop,
and the work goes back only if the saved number was lost; the work is reported
complete only when it is; a work unit that is restarted finitely often ends.

**Sensor pipeline** (`sensors/Sensors.cpp`, `Datapoint.cpp`, `Sensor.cpp`,
`Error.cpp`, and the managers). State: for each manager its sensors and its
error flags; for each sensor the datapoints measured and not yet printed, and
whether its series has begun. `update` measures, `print_datapoints` collects
the sensors, prints those with datapoints and clears what was printed.
The managers differ in three ways: a manager with fixed sensors updates before
or after it looks at its error; the BOINC manager's sensors come and go with
the running results and its error is cleared once reported. *Hard:* what is
lost (stops, failed trickles, results that pause) must be visible to whoever
reads the series: the only sign is the NaN that opens it. *Correct if:* every
series that reaches the server can be read without guessing.

**Loads and frequencies** (`sensors/CpuLoad.cpp`, `BoincCpuLoad.cpp`,
`UsersCpuLoad.cpp`, `PStates.cpp`). State: the counters of the kernel at the last
datapoint, by process for two of the managers, and the time of the last update
and of the last datapoint. Twice a second they are asked to update; each
`m_update_period` seconds of the wall clock they read `/proc` and subtract; the
P-states read `/sys` and walk their list of sensors along with the rows of the
files. *Hard:* processes that end, pids that are used again, users who come and
go, a wall clock that is set, files that change or vanish between two passes.
*Correct if:* a datapoint counts what its own processes, or its own CPU, used
since the datapoint before, and none is missing for longer than the period.

**Watts Up? meter** (`sensors/Wattsup.cpp`). State: the sensor and its port, its
queue of commands, the time of the last command and of the last read, its
buffer. A port is looked for at most every 10 s (Linux) or 60 s (Windows), closed
after 5 s of silence, and the sensor is kept until its datapoints were sent. The
two builds differ in how they identify a meter, in what a failed write or read
does, and in what becomes of half a packet. *Hard:* replies that are late,
measurements that come before the reply, a plug that is pulled at any moment.
*Correct if:* only watts are taken for watts; nothing unsent is lost; a meter
that stays is read again.

**Thermometers** (`sensors/ArduinoTemp.cpp` with the sketch
`src/arduino/ArduinoTemp.ino`, `sensors/TEMPer.cpp`). A question of one character
and an answer of one character or the raw bytes of a float, between double
braces; USB devices at several busses. *Hard:* lost characters, bytes that look
like a brace, a board that restarts as its port is opened, a device of a later
bus that takes the place of the first. *Correct if:* an answer belongs to its
question; a device that stays is found; no reading that is due is missed.

**Other applications** (`client/RaspberryApp.cpp`, `MeasureApp.cpp`,
`application.cpp`) run the pipeline in an endless loop and print every 45 s; the
send is commented out. `application.cpp` chooses one of them at compile time, and
at this commit `main` is that of `RaspberryApp`. **Standalone upload**
(`client/standalone_trickle_up.cpp`) gives sensors the ids of a file that it reads
for each message. It is linked (`Makefile:44`) and called nowhere, as its calls in
`RaspberryApp.cpp:161` and `239` are commented out; `Debug` is true, so that it
writes files and sends nothing.

**JSON library** (`depends/json/json.c`): a parser that is fed one character at a
time, with two stacks, a table for numbers, and reference counts. The trickle
handler and the upload read their files and answers with it. *Hard:* a token ends
another; the two stacks; strings with escapes in a buffer that grows and is used
again. *Correct if:* it accepts the documents of the grammar, gives their value, and
frees what it made.

### The server of low-energy-boinc

**Trickle handler** (`server/trickle_handler.cpp`). State: the BOINC table of
messages; for each host two groups of sensors, kept as JSON in the database
(the host's own sensors and those of its workunits). A call of
`handle_trickle` deletes messages that were handled, finds the host and the
user's account, brings both groups in line with the sensors of the message,
asks the OSD server for ids of the new ones and uploads the datapoints. It
talks to the BOINC database (reads and writes) and to the OSD server (HTTP).
*Hard:* each request may be refused, lost, or have its answer lost; the daemon
may be stopped at any step; the groups keep what an earlier failure left.
*Correct if:* datapoints arrive under an id of their own sensor; a message that
no failure hits is uploaded; nothing is uploaded twice without a stop.

**Validator, assimilator** (`server/validator.cpp`, `assimilator.cpp`):
callbacks without state.

### The quicktester

**Experiment driver** (`multiproc/multiproc/multiproc.cpp`,
`measurements.cpp`, `winsocket.c`). Threads: `main` reads the console, the
experiment thread runs `experiment_iteration` tests in every state (idle, five
CPU usages, a lower frequency), the throttling thread suspends and resumes the
computations within each period, the measurement thread sends a sample every
second. They share plain variables (`experiment_state`, `experiment_continue`,
`throttling_continue`, the table of computations, the socket) without a lock.
*Correct if:* computations of two tests never overlap; `q` stops the experiment
soon; enter skips one test, as the prompt says; the experiment ends.

**Table of computations** (`computation.thread.c`): per CPU a state and a
thread handle; start, wait, terminate, suspend and resume are called by three
threads, and the computation itself writes its end.

**Server** (`quicktester/linux/server/server.c`, `viewer.c`): a table of hosts,
a thread for each; for each host its CPUs, its meter, its experiments and the
one that runs; a list of viewers that get a line per update. Messages start,
stop and rate an experiment, set values and update. *Correct if:* each Joule of
the meter is in at most one account; values go to the experiment they are
about; hosts that leave free what they used.

**Meter** (`quicktester/linux/server/meter.c`): a thread that cuts packets out
of a serial line, takes them apart into their fields and adds up the energy. *Hard:*
reads that end anywhere; characters that were lost. *Correct if:* packets are
delivered whole, once and in order; a field is the text between its own two commas;
the thread can be stopped.

**Viewers** (`quicktester/linux/server/viewer.c`): a table that the thread of
the viewer server fills and clears and every host's thread sends to, without a
lock; the line that is sent is in a buffer that all hosts share. The viewer itself
(`quicktester/linux/viewer`) draws the lines. *Correct if:* a line reaches the
viewers it is meant for, whole, and no viewer is used after it was freed.

**Computation** (`multiproc/multiproc/linpackc.new.c`): LINPACK, with rolled and with
unrolled loops. *Correct if:* it solves the system it makes.

### The frequency driver

`windowsdriver/entry.c`, `Thread.c`, `ACPI.c`. State: a filter device for each
CPU and one control device; the tables of the firmware, fetched as an application
opens the control device first; for each CPU the state that was asked for and a
stay-alive counter. Requests set a state and reset the counter; a thread writes
the states to the CPUs in each cycle and gives a CPU back once nobody has asked
for long enough. *Hard:* requests of several applications and the thread
overlap; a stop or a removal while the thread runs; each allocation and each
question to the firmware may fail; the counter and its limit. *Correct if:*
nothing is used that is not there; a CPU that nobody manages is fast; a state
that was granted is kept as long as promised; CPUs are given back.

### How they interact

    sensors -> managers -> print_datapoints -> BoincApp --trickle--> BOINC tables
                                                                          |
                        OSD server <--HTTP-- trickle_handler <--daemon----+

    multiproc: main / experiment / throttling / measurements
        |  start, kflops, stop (experiment)    set..., update (measurements)
        v                                            v
    server: one thread per host --> experiments <-- energy <-- meter thread
        |                                                        ^
        v                                                   serial line
      viewers


## Modules

| Module | Code | What its variables and actions are |
|---|---|---|
| `Sensors` | the sensor pipeline | `m_sensors`, `m_datapoints`, `m_firstDatapoint`, `m_error`, `m_error_reported` are the members of that name. `UpdateSensors(m)` and `AddSensors(m)` are one manager's virtual functions; `ClearPrinted`, `PrintedSensors` and `PrintedData` are the second half of `print_datapoints`. A measurement is the number it has among those of its sensor, 0 is the NaN: values and times do not matter, their order and completeness do. Operators only. |
| `BoincApp` | `BoincApp::loop` | EXTENDS `Sensors`. One action between two points where a stop makes a difference: `Start` (constructor, with `GetMilestone`: the saved number or, if it cannot be read, 0), `SaveTmp`, `Rename` (`save_milestone`, whose write may fail unnoticed), `LoopTest`, `UpdateManager` (one manager of `update`), `Wait`, `CollectManager`, `PrintAndSend`, `Finalize`, `WriteOut`, `Finish`; `Crash` leaves only the files. What `boinc_finish` ends with an error is `failed`. |
| `WorkUnit` | - | The abstract specification of the work unit: `reported`, the milestones that have had a trickle, which grow in order; `saved`, the number a restart continues from, which may go back but never beyond what was reported; and a state that is open, complete or failed. `Lengths` are the numbers of milestones it may have: that of `in`, or the default. `BoincApp` implements it (`WU == INSTANCE ... WITH`). |
| `TrickleHandler` | `handle_trickle` for one host | The database (`status`, `content`, `stored`), the OSD server (`owner`), the message in work (`cur`, `tr`). `Begin`, `Account`, `ManageSensors(g)` (up to the save of the group), `Request(g)` (answered, refused, answer lost, or lost and read as a success), `Datapoints`, `Return`; `Crash` between any two. |
| `PacketReader` | `meter_packet_read` | `buf`, `buf_pos0`, `buf_pos1` as in `struct _meter_t`; the buffer holds places of the line, not characters, so that what is delivered can be compared with what was sent. `Read(k)` is a whole call in which k characters come in. |
| `PacketFields` | the second half of `meter_packet_read` | `packet` is the text that was cut out, `parsed` what the code makes of it: `Comma1` to `Comma3` the fields before the data, `Field` a turn of the loop. Two digits stand for ten. |
| `Experiment` | experiments of one host | `meter`, `num_experiments`, `experiments`, `cur_experiment`; `Measure` is the meter's thread, `Start`, `Rate`, `Stop`, `Sample` are messages of the client with the handler's whole effect, `Fail` is the experiment thread that gives up. |
| `Computation` | the table of computations | `computations` and the system's `threads`; each operator is one access to the table or one system call. |
| `MultiProc` | the experiment driver | EXTENDS `Computation`. `pc` of the three threads; each action is one access of one thread to a shared variable, `experiment_state++` is a read and a write. |
| `QuickServer` | the server's threads, table of hosts and shutdown | `_hosts`, `_hosts_count`, `_hosts_continue`; `client`, `host` and `meter` for the connections and the two kinds of threads; `pc` is where `main` is, also within the signal handler, which `Signal` enters from anywhere in main's loop. A step ends where another thread can see or do something: `hosts_add` is `CreateHost` (the thread runs) and `StoreHost` (the table), `hosts_remove` deletes and then clears, `hosts_stop` reads the table, then the host, then waits. What messages do to experiments is in `Experiment`. |
| `Viewers` | `viewer.c`, and what hosts' threads do with descriptors | `open` is the system's table of descriptors, which gives out the smallest that is free; `_viewers` and `_viewers_count` the table; `csv_viewer_msg` whose line the buffer holds. `viewers_send` is one step per access to a viewer (`Look`, `Send`, `Delete`, `Forget`); `CloseTwice` is the second close of `hosts_remove`. `fate` is how the server ends: killed by SIGPIPE, or by something undefined. |
| `Wattsup` | the Watts Up? sensor, both builds | `m_wattsup` the sensor with its queue `m_commands`, the age of its command and of its last read, and the line with the meter; one step is one turn of the loops of `update()` (`SendCommand`, `ReplyTimedOut`, `ReadReply`, `ReadData`, `ReadFails`). Packets are whole or cut once. `Plug`, `Unplug` and `Hush` are what happens to a port. |
| `ArduinoTemp` | the manager on Windows, and the sketch | `m` and `machine` are the two parsers, `down` and `up` the line byte by byte; `Ask`, `Found`, `ReadChar`, `NoAnswer` the manager's blocking exchange; `Tick` a loop of the sketch. |
| `TEMPer` | the manager on Unix | A pass is `update_sensors` with the search of the busses, whose transfers succeed or fail. What `m_temper` holds before it is ever written is `Junk` or 0. |
| `LoadSensors` | the three managers of loads | `m_stat`, `m_stat_history`, `m_update_time`, `m_record_time` as in the code; around them a small system: processes that are born, run, exit and hand on their pid, a user who logs in and out, and a wall clock (`offset`) that is set. |
| `PStates` | the P-state manager | `m_sensors`, `build` and `pstate_index` as in the code; `ReadRows` handles one CPU's file, so that files change between two CPUs of a pass. |
| `PerfCtl` | the driver's table, requests and thread | Operators over `pCPUDB`, `thread` and the rest; the thread is a step per access (`ThreadSample` ... `ThreadSet`), a request resets the counter in a step of its own. Counters are modulo `Word`. |
| `LPCFilter` | the driver's devices | EXTENDS `PerfCtl` with adding, opening (one step for each table fetched), closing, stopping and removing devices, which may each fail. |
| `Json` | `json_parser_*` | The parser's two stacks are `parser`, values are in `heap` with their counts. `Feed(c)` is `json_parser_feed_one`. The meaning of a text, to which the result is compared, is that of strict JSON; what the parser takes besides is put in two operators of its own, `WithoutLastCommas` and `WithoutEmptyKeys`. A string or a word is one character. |
| `JsonLexer` | `json_parser_feed_string`, `_unicode`, `_append`, `_feed_true`, `_false`, `_null` | What `Json` takes for one character, byte by byte: `lexer` is the state within a token with the buffer, `meant` the document that was fed. `Feed(spelling)` is a piece of it in one of its spellings. |
| `Linpack` | `matgen`, `dgefa`, `dgesl` and the routines they call | A step is a column. Numbers are integers modulo a prime, in which the operations are exact. |
| `Upload` | `standalone_trickle_up.cpp` | `DatastreamIndexMap`, the config, and what the last message wrote. |

`MCBoincApp` and `MCTrickleHandler` define the functions and sets their
configurations need. The other four put parts that share nothing into one instance,
one of them in each behaviour (`part` says which, and the variables of the others
stand still): `MCDevices` (`Wattsup`, `PacketReader`, `ArduinoTemp`, `TEMPer`),
`MCLoadSensors` (`PStates`, `LoadSensors`, `Upload`), `MCExperiment` (`Experiment`,
`Viewers`, `Linpack`), `MCTexts` (`Json`, `JsonLexer`, `PacketFields`). In every module, an
operator whose comment begins with "Mutant:" is a plausible bug in the definition
that follows it; no definition uses it. `PROJECT.json` names for every property a
mutant that violates it.

Abstractions that matter:

* *Time.* In `BoincApp`, ticks of the loop; one pass may take several. Sensor
  periods are a choice of what a pass measures. In the modules of single sensors
  time is counted: seconds in `Wattsup`, half seconds in `LoadSensors`, loops of
  the sketch in `ArduinoTemp`, update periods in `PStates` and `TEMPer`; limits
  are a few of these. In `PerfCtl` it is the cycles of the thread. `Experiment`,
  `Viewers` and `MultiProc` have no time: sleeps take any time.
* *JSON, XML, HTTP.* A list of sensors is a function from names to
  descriptions and ids. Names are unique within a message: print_datapoints
  lists each sensor once, and managers name theirs differently.
* *Undefined behaviour.* `response_code` (`trickle_handler.cpp:483`) is not
  initialised, so a failed request may read as a success: a choice in
  `Request`. Races of `MultiProc` on word-sized variables are the orders of
  their reads and writes. In `QuickServer` an access to freed memory or outside
  of `_hosts` ends the behaviour and `broken` says what it was: what happens
  after it is not restricted by anything. `Viewers`, `PerfCtl`, `Wattsup`,
  `ArduinoTemp`, `TEMPer` and `PStates` do the same.
* *The system.* `threads` in `Computation`: suspend counts, termination, and
  handles that are reused are modelled from how the code calls Windows.


## Runs

All instances finish; `deleted_messages` and `trickle_handler` take seconds, the
others up to two minutes each.

| Run | Instance | Checks |
|---|---|---|
| `sensor_pipeline` | a manager of each of the three kinds, 2 measurements per sensor, 2 milestones of 1 tick, passes of 1 or 2 ticks, 1 stop | `NoSilentGap`: what the server was given of a sensor opens with a NaN, is in order and marks each hole; `SilentAfterError`: a manager that has reported its error sends nothing more |
| `milestones` | 1 manager, 3 milestones of 2 ticks, or 2 of 1 tick for a process that cannot open `in`, passes of 1 or 3 ticks, 2 stops, a saved number lost twice, fairness | `NothingSkipped`: no milestone before the saved one, or that `out` vouches for, is without its trickle; `RepeatedOnlyByCrash`: the row of trickles does not go on in at most as many places as there were stops, and goes back in at most as many as the saved number was lost; `ImplementsWorkUnit`: refinement, with liveness |
| `trickle_handler` | 2 messages, a host sensor with two descriptions and two workunit sensors, 4 ids, 2 failures, 1 stop; symmetry in messages and ids | `UploadedUnderOwnName`, `NothingLostWithoutFailure`, `UploadedOnce`; `KnownSensorsKept`: an update of a group loses no sensor and no id, unless an empty answer reads as a success |
| `deleted_messages` | the same | `DeletedWasUploaded` (violated, see below) |
| `experiments` | 3 runs on 2 slots, 3 J, 4 samples, capacities 0, 3 and 5; or 2 hosts with an update each and 3 viewers for a table of 2; or LINPACK with the generated matrix up to order 12 and every matrix of order 2, modulo 7 | `EnergyCountedOnce`, `KflopsOfOwnRun`, `BatteryIsDifference`; `SoundUnlessOverlap`: a viewer is used after it was freed, closed by another or given a foreign line only if two threads are where one should be; `Solves`: LINPACK finds the unknowns its matrix was made for, and divides by zero only if the matrix is singular |
| `quick_server` | 3 clients for a table of 2, 2 meters, a signal at any time, fairness | `SoundWhenOrderly`: while every host sits at the index of its slot, no host is used after it was freed or freed twice, but for two windows of the shutdown; `ShutsDown`: once clients have left, a signal ends the server unless a meter misses its stop |
| `multiproc` | 2 CPUs, idle, one throttled state and the lower frequency, 1 test each, 3 threads, 1 line typed | `OneAtATime`: computations neither overlap nor run on freed data unless somebody skips or quits; `QuitSoon`: after q at most the tests of one state are started |
| `multiproc_ends` | 1 CPU, 2 tests in each state, 2 threads, 1 line, fairness | `SkipCostsOneState`: whatever is skipped costs the tests of one state at most; `Ends`: the experiment thread ends, or a computation is suspended for good |
| `frequency_driver` | 2 filter devices, 1 CPU with 2 P-states, 2 applications with 2 requests, an exception, a limit of 2, counters modulo 4, fairness | `NeverBroken`: nothing is used that is not there, unless something happens that the driver does not provide for; `FreeIsFast`; `GrantHolds`: a state is kept as long as promised, unless the thread overtakes the request; `GivenBack`: once applications are silent every CPU is |
| `devices` | a meter's 2 ports, 3 changes of a port, both builds; or an Arduino at one of 2 ports, 1 lost character, 2 pluggings; or 3 USB devices at 2 busses; or every line of 8 characters through a buffer of 5; fairness | `WattsAreWatts`; `Recovers`: a meter that stays is read again and again; `RightAnswer`: an answer belongs to its question; `FoundAgain`; `NoReadingMissed`; `PositionsInBuffer`; `Framed`: packet i is the i-th of the line, whole; `Delivered`: every packet arrives unless the buffer is full without an end |
| `loads` | 2 pids of two users on 1 CPU, a birth beyond the first, 2 logins, the clock set once by 5 half seconds either way, a period of 2 s, and 3.5 s of real time with what the clock was set back on top; or 2 CPUs whose files change twice in 3 periods; or 2 messages of up to 2 sensors to upload, with any edits of a config of up to 2 entries; symmetry in pids | `LoadIsUse`: a datapoint counts what its own processes used since the last one; `GapsBounded`: whatever the clock does; `TimeOfOwnState`: a sensor's value is that of its own CPU and frequency; `OwnId`: an id is one of the sensor's own name |
| `texts` | every JSON text of up to 10 punctuation marks, 6 tokens, or 5 characters of numbers; or up to 5 quotes, words, spaces and characters of 16 kinds in each of their spellings, through a buffer of 2 bytes; or every packet of 5 characters after one of 3 beginnings, of up to 3 fields | `ParsesJson`: the parser takes the documents of JSON, and those with a comma before an end or an empty key, with their value; `ReferencesCounted`; `ReadsTokens`: strings and words are read as they were meant; `OwnFields`: a field of a packet is the text between its own commas, and a packet that lacks more than one field is refused |

Why the bounds are enough:

* `sensor_pipeline`: the pipeline treats sensors alike but for their place in
  the list and their manager's kind; three managers give a first, a middle and
  a last sensor (the last one alone decides whether anything is printed), two
  measurements and two milestones let one be buffered across a trickle, and a
  stop falls into each step. `milestones` leaves the sensors out but for one
  and adds what matters for the files: a first, a middle and a last milestone,
  a jump over more than one, a second stop while the first is recovered, and a
  saved number that is lost again after the work was resumed. The default work is
  shorter than that of `in`, so that a process without `in` may find the saved
  milestone behind its own end. The proofs need none of it.
* `trickle_handler`: each message changes the groups once; the second finds
  them in every state that the first, two failures and a stop can leave.
  A third message would find no other kind of group. Failures, stops and ids
  are the only counters. Four ids are more than the three sensors ever need,
  so that an id whose answer was lost is not the only one left.
* `experiments`: one run more than slots, so that a start is dropped; the proof
  needs no bound. Three viewers for two places, so that one is refused; two
  hosts, as the lack of a lock shows with two. LINPACK: orders up to 12 leave every
  rest of the loops unrolled 4 and 5 times; every matrix of order 2 has every choice
  of a pivot and a zero in either column; the proof needs no bound.
* `quick_server`: two places in the table, so that a host can sit in another
  one's; a third client to be refused by the full table. Every slot has a meter,
  and none any more after the shutdown has deleted them. One signal: main_end
  does nothing when it is called again.
* `multiproc`: two CPUs are needed for two table entries to be in different
  states, 3 threads for a computation that overlaps another. The five throttled
  states of the code differ in numbers only: a throttled one, an unthrottled
  one (the lower frequency) and idle are kept. Counting the lines typed at 1
  keeps the run within minutes: it includes each of enter, q and anything else
  at each moment. A suspend count of 2 is more than one, so that nested
  suspends show.
* `frequency_driver`: two devices, so that the filter that owns the control
  device goes first or last; two applications, so that requests and opens
  overlap. Counters are modulo 4, one more than the limit and its successor
  need, so that they wrap; requests are the only other counter. The proofs need
  none of it.
* `devices`: two ports, so that another device may be at the first; three
  changes are a plug that is pulled, put back at the other port, and a silence.
  The timeouts keep their order (reply = silence < search) in fewer steps. One
  lost character hits each place of an exchange, and the exchange after it is
  the one that must not suffer. Two thermometers at one bus and one at another
  are the least that makes one replace another. 8 characters hold two packets
  with something between them and 5 hold one with something before it, so that
  packets end at, before and beyond the end of the buffer; the proof needs no
  bound.
* `loads`: two pids, so that a pid is reused while another process lives on; the
  clock is set by 5 half seconds, the period is 4. A run is long enough for two
  datapoints after the first and the print that removes them; and it lasts longer by
  what the clock was set back, so that real time goes beyond the bound of
  `GapsBounded` also then. Frequencies: two
  CPUs, so that one's file changes after the other's was read. Uploads: two
  messages, so that the table of the first meets an edited config; two entries are
  two ids of one name, or a bad one after a good one.
* `texts`: the stacks hold 4 levels instead of 256, and texts of 10 marks
  reach beyond them; keys are two, one of them empty. The characters of strings are
  the first and the last of each length in UTF-8, and those with an escape of their
  own; the buffer grows twice in a string, and is used again by the next token.
  Five characters after the beginning of a packet hold three fields and what is
  left when one of their commas was lost.

`CHECK_DEADLOCK FALSE` is set where the program or the bound really stops:
when all messages were handled, all runs made, the threads have ended, a
document was read or a system solved, bounds are used up, or something undefined
was done. `BoincApp` has an explicit `Over` step.


## Where code and documents disagree

* `deleted_messages`: the comment at `trickle_handler.cpp:565` says that
  messages "which were successfully handled" are deleted; a message is also
  marked as handled, and then deleted, when nothing of it was uploaded. The shortest
  run has two messages: for the first, which has a datapoint, the look-up of the host
  fails (`trickle_handler.cpp:584`), `handle_trickle` returns 0 before it has looked
  at the sensors, and the daemon marks the message; the call for the second deletes
  it. A request for ids that fails, or the upload itself, leads to the same.

Other disagreements were met while modelling. They are the plain reading of a few
lines, and no run is spent on them; the modules do what the code does.

* Loads are divided by 100 when they are received (`server.c:557-563`) and once
  more when they are used (`server.c:596-599`), though `server.c:136` keeps them
  in 0 to 1: the parts of the energy add up to a hundredth of it.
* Enter is to "skip test" (`multiproc.cpp:482`); it increments
  `experiment_state` (line 126), and so does the experiment thread at the end of
  the old state (line 355): the tests of a whole state are skipped.
  `SkipCostsOneState` says that it costs no more.
* `dgesl` does not divide by zero if "dgefa has set info .eq. 0"
  (`linpackc_lpc.new.c:474-481`). `dgefa` was translated from columns that count
  from 1 to columns that count from 0, and still sets `info = k` (line 374, and
  `n - 1` for the last one): a zero pivot in the first column leaves `info` at 0, the
  value that means none. The benchmark never reads `info`, and the matrix it
  generates has no such column. `Solves` says what a division by zero does mean.
* The grammar above `json_parser_token` (`json.c:1062-1067`) wants a key and value,
  or a value, after each comma. The parser also takes a comma before an end, as in
  `[1,]` and `{"a":1,}`: `k_object_4` and `k_array_2` go back to a state that takes
  the end. `ParsesJson` compares it with strict JSON after `WithoutLastCommas` has
  removed such commas, and after `WithoutEmptyKeys` has removed the members with an
  empty key, which the parser reads and drops (`json_hashtable_set`). That grammar
  has no empty container and no end of its rest, and is not followed there.
* Without a meter "the program will continue anyway" (`meter.c:592`). It takes
  clients with the slot -1 (`server.c:1222`), and the thread of such a client
  ends with `hosts_remove(-1)` (`server.c:1035-1039`), which writes in front of
  `_hosts`.

`SoundWhenOrderly` has a precondition for the same reason: `hosts_remove` takes
an index and `host_run` gives it the slot (`server.c:972`), while `hosts_add`
enters hosts in the order in which they come. Without the precondition TLC finds
that a host frees the one of another client whose thread still reads from it,
and with it that the two exceptions in the property do happen: `hosts_stop`
reads the thread of a host that has just freed itself, and a signal between
`pthread_create` and the entry in the table leaves a host that nobody waits for,
whose meter is deleted while it runs. `StopMissed` in `ShutsDown` is a meter's
thread that sets `run = 1` after `meters_stop` has set it to 0.

Other things a reader of the code should know:

* `server.c:620` assigns the battery's difference to `delta_energy`, and the
  column of that name holds it.
* `_hosts_count` and `_viewers_count` are never decremented: after as many
  connections as there are places, nobody is served. SIGPIPE is not ignored, and
  lines are sent without flags: a viewer that closes may end the server (`fate =
  "killed"` in `Viewers`).
* `Wattsup`: on Linux whatever opens at the first port is taken for the meter;
  if it is another device it is closed, forgotten and taken again, time after
  time, and a meter at a later port is never found. `Recovers` says so in
  `Available`. On Windows a write that throws clears the queue of commands that
  the loop goes on to use (`broken`).
* `TEMPer`: `m_temper` is not initialised (`TEMPer.cpp:265`); the `break` of the
  search leaves one bus only.
* The signal handlers of `BoincApp`, `RaspberryApp` and `MeasureApp` are installed
  only if `debug` is set in the constructor, before anybody can set it: `signaled`
  stays false. The loops of the latter two never reach `finalize`.
* A work unit whose `milestone` cannot be read starts over, and BOINC is told a
  fraction of 0 again. One whose `in` cannot be opened has 4 milestones of 30 s, and
  is complete after these. `fprintf` of the number and of `out` (`BoincApp.cpp:61`,
  `223`) is not checked: `out` may be empty when the work is reported complete.
* `json.c`: the two halves of a pair (`\ud83d\ude00`) become two characters of three
  bytes, which is not UTF-8; `\u0000` ends the string, as it is a C string; a digit
  that is none counts as 0; a backslash before any other character is dropped.
  `JsonLexer` leaves the first two out of its documents (`LexerAssumption`).
* `meter.c`: a packet that wants one field more than it has gets an empty one
  (`OwnFields`), as the test for a missing end leaves out the last. One that says it
  has more than 18 fields, and has, is written beyond `fields`: the model stops there
  (`beyond`).
* The config's `Key` is read and never used: uploads take the constant `OsdKey`.
* `linpackc_lpc.new.c` shares `lpci` among the threads that keep the frequency
  alive (lines 86 and 131).

`Ends` is stated with its exceptions because the exceptions happen: a
computation is suspended and nobody resumes it when (a) `computation_start`
overwrites the SUSPENDED of the throttling thread (`computation.thread.c:107`),
(b) `computation_clear` of a terminate meant for an earlier test wipes it out,
or (c) the suspend comes after `throttling_stop` has resumed all. The experiment
thread then waits for ever. Without the disjunct `Forgotten`, TLC finds these.


## Fairness

* `BoincApp`: `WF_vars(Step)`. The operating system runs the process, the BOINC
  client starts it again. `Crash` has none, and happens finitely often by its
  bound: if it happened without end, no work unit would ever finish. Neither has the
  loss of the saved number, which would otherwise start the work over without end.
* `PacketReader`: weak fairness of the reader (`ReadPackets` in `MCDevices`).
  The meter's thread and the client's loop call it over and over; what it reads
  is never assumed.
* `MultiProc`: weak fairness of each thread; strong fairness of a computation,
  because it is suspended and resumed time and again and yet a benchmark of
  finite length ends. `Input` has none: nobody needs to type.
* `QuickServer`: weak fairness of main with its handler and of each thread that
  can run without somebody else; clients need not connect, send or leave, a
  meter need not fail, nobody needs to give a signal. That clients leave is a
  premise of `ShutsDown`: the server does not close their connections.
* `Wattsup`: weak fairness of `Work` and `Tick`, strong fairness of
  `PrintDatapoints`: the loop of the application calls `update_sensors` at
  least every few seconds and prints now and then, between two updates. What
  happens to the ports is not assumed; `Recovers` has it as a premise that a
  meter stays.
* `ArduinoTemp`: weak fairness of the manager and of the sketch's loop. `Lose`,
  `Plug` and `Unplug` have none.
* `LPCFilter`: weak fairness of the driver's thread, of the wait for its end in a
  stop or removal (`EndOfDevice`), and of a request that has begun
  (`FinishRequest`). Applications need not ask, and devices need not come.
* `TrickleHandler`, `Experiment`, `Viewers`, `TEMPer`, `LoadSensors`, `PStates`,
  `Json`, `JsonLexer`, `PacketFields`, `Linpack`, `Upload`: none; only safety is stated. The OSD server
  may be out of reach for ever, and a client may stop sending.


## Proofs

A proof module EXTENDS the module it is about, or the one that puts several
parts into an instance. Each invariant is proved from an inductive one, which TLC
checked first as an invariant of an instance, but for that of LINPACK, which
quantifies over the histories of a matrix. The only assumptions are those
named in the modules (`ManagerAssumption`, `WorkAssumption`, `HandlerAssumption`,
`ExperimentAssumption`, `PerfCtlAssumption`,
`FilterAssumption`, `WattsupAssumption`, `ComputationAssumption`,
`MultiProcAssumption`, `ServerAssumption`; of `ArduinoTemp`, `TEMPer`, `PacketReader`, `Viewers`, `LoadSensors`,
`PStates`, `Upload` and `Linpack` as part of `DevicesAssumption`, `HostsAssumption` and
`TablesAssumption`, which TLC evaluates): finite lists where the code has lists,
positive counts, limits below the width of the counter, a counter of `/proc` that
does not come round in one period, prints of the thermometers that are no rarer
than their readings, a read of the Arduino that lasts two loops of its sketch at
least (it lasts 20), room for a character in its packets (256), two managers that share no sensor, and that only workunit
sensors carry the description "workunit"; ids are natural numbers. The numbers of
LINPACK are a field: all but 0 have an inverse, and 16384, by which matgen
divides, is not 0.

Where a proof needs induction over a number or a finite set, it takes the least
counterexample instead (`Least`, from `WFMin` and the well-foundedness of <):
descriptors, elements kept of a list, sums over processes, entries of a config,
the stages and sums of LINPACK.

* **`BoincAppProofs`**. `Inv` is the type invariant with `ProgressInv`, which
  says that at each point of the program what is before the milestone in progress,
  before the saved one, and before what `out` vouches for is closed, and that the
  closed milestones are the first so many: since the saved number may be lost, no
  more relates the milestone in progress to the saved one. It gives
  `NothingIsSkipped`, `CompleteIsDone` and `Implementation` (each step is a step of
  `WorkUnit` or a stutter). `NoGapIsSilent` needs more than what was delivered:
  `SeriesInv` says that delivered and buffered points *together* are a readable
  series that ends with the last measurement made, or that the next one will
  open with a NaN. The lemmas on `Readable` say what a measurement appends and
  what a loss may cut off; `SeriesStep` covers all ways of measuring. `SentInOrder`
  (`RepeatedOnlyByCrash`) rests on `SendInv`: the places where the row of trickles
  does not go on, with the one that the next trickle would make (`Due`), are paid for
  by stops, and those where it goes back by numbers that were lost; a number that was
  lost on its way to the file is paid for before it is read. `ErrorSilences` (`SilentAfterError`, an action property) rests on
  `SilentInv`: while the managers are asked one after the other, the sensors of
  one that reported its error, or has not been asked, are not in the list that is
  to be printed. `TypeCorrect` is all of `TypeOK`, the lists of sensors included.
* **`TrickleHandlerProofs`**. `OwnInv`: each id in a group or in the message
  belongs to the sensor it is kept for. `PassInv`: how far a message that no
  failure has hit has got its ids at each step; that is why `ManageSensors`
  must ask also for sensors an earlier failure left in the group.
  `CountInv`: uploads so far against stops. They give `UploadsAreOwn`,
  `NoLossWithoutFailure` and `NoRepeatWithoutCrash`. `GroupsKeepSensors` (an
  action property) rests on `ReconciledKeeps`: what the message says of a group
  is merged into it, never put in its place.
* **`DevicesProofs`**, about the four parts of `MCDevices`. Watts Up?:
  `LineInv` says what the meter's line may hold: `SetUp`
  (once the reply to the first command is there, the meter at the port is set
  to watts, unless it was pulled out, and nothing can be plugged in its place
  before the port is closed) and `EarlyOnly` (other measurements stand only
  before that reply, while it is waited for). `WattsOnly` follows as data are
  used only when all commands are done with. `PointsKept`, which no run checks, needs `PointsInv`,
  that datapoints are those of a sensor that is there.
  The packet reader: `PacketInv` relates the buffer to the line: it holds the
  consecutive places that end with the last one received; what lies between the
  last packet and the buffer holds no '#'; before `buf_pos1` no ';' was missed.
  It gives `BufferIsSafe` and `PacketsAreFramed`, for any buffer and any line.
  USB thermometers: `ReadingInv`, that a sensor that holds a reading back has
  been read since the last print, gives `NoneMissed` (`NoReadingMissed`), for any
  number of busses and devices.
  The Arduino: `AnswersRight` (`RightAnswer`), for any number of ports and any
  pluggings, if one character at most is lost (`MaxLost <= 1`). It needs to know what an
  exchange may leave behind. `OpensFirst`: of what waits for the client, only the
  first two characters can be a '{'. `ExchangeInv`: between exchanges nothing waits
  at the board, its parser is as new, and what is left for the client opens no
  packet; in one, the board has the question, perhaps short of a character, or has
  parsed this question or nothing. `CleanInv` follows an exchange in which nothing
  was lost, the answer (`OnItsWay`) character by character; a float with a '}' in it
  ends early, as data that are no number. The bound on `MaxLost` is needed: when
  both '}' of a question are lost, the sketch takes those of the next one for its
  end. The sketch parses with a fold of the community modules; `FedExists` and
  `FedEach` show that over six characters it is six steps of the parser.
* **`ExperimentProofs`**. `AllSound` (what one account holds), `Ordered` (an
  account is closed before the next is opened) and `Current` (which one is
  open). They give `NothingCountedTwice`, `NoForeignKflops`, `BatteryAccount`,
  `CollectsForLastRun` and `StoppedStays`. The viewers (`V`): `Connections` (a
  connection has at most one descriptor) holds always; `Calm`, which holds until
  threads overlap, says whose each thing is: a host's socket is the host's own,
  each place of the table a viewer's that can be sent to, or that of the one thread
  that is deleting it, and the shared buffer the sender's. There are more
  descriptors than connections (`SomeFree`), so that accept always finds one; the
  smallest free one is what makes a double close dangerous. It gives
  `ViewersSoundAlone` (`SoundUnlessOverlap`), for any number of hosts and viewers.
  LINPACK (`L`): first what the routines on vectors do. Their unrolled loops visit
  the indices of the rolled ones, each once (`UnrolledIsRolled`), and the folds they
  are written with are shown to be what one writes on paper (`AxpyIs`, `ScalIs`).
  Then `Elimination`: every column went through stages, an exchange of two elements
  and a subtraction each, and what `dgefa` leaves of it is its last. A stage of a
  sum of columns is the sum of their stages (`StageOfTotal`); the right hand side is
  the sum of all columns at the start, so it is at every stage (`GoesForward`), and
  going backward it is the sum of the columns whose unknown is still to be found
  (`GoesBackward`, `Substituted`): each of the unknowns is 1. A zero pivot means that
  a combination of columns is zero at that stage, so at each one before (`ZeroBefore`),
  that is, of the matrix itself. They give `LinpackSolves` (`Solves`) and
  `OnlySingularMatrices`, for any order, with both kinds of loops.
* **`QuickServerProofs`**. `HandlerInv`: where the loops of the signal handler
  are in the tables, and that no meter is freed before the hosts have been waited
  for. `PlaceInv`: no two hosts have one place, and each but the one that main is
  about to enter was entered at its place. `UseInv`, which needs that
  `hosts_remove` meets the host it is meant for (`Orderly`): a freed host is used
  by nobody and in no entry that the handler has yet to visit. They give
  `Soundness` (`SoundWhenOrderly`), with the two windows of the shutdown that it
  names, for any table and number of clients.
* **`LoadSensorsProofs`**. The loads: `TimesInv` relates the wall clock to real
  time since the last datapoint (`Silent`, `Recorded`); `LoadTimes` (`TimesIncrease`, which no run checks) and `LoadGaps`
  follow, for any period and any setting of the clock. `UseInv` is about what is
  counted: processes are told from each other by when they were born (`Borns`),
  the growth of all that live on is at most the time that passed (`Grown`), the
  manager's counters are those of its last datapoint (`Kept`), and its seconds
  those of the clock unless that was set (`NoJump`). So no counter has come round,
  the subtraction is that of the processes themselves, and `LoadCounts`
  (`LoadIsUse`) holds, for any set of pids. The lemmas on `SumFunction` (its type,
  `SumLess`, `SumUp`, `SumOver`, `SumZero`) come first: the library has none.
  The frequencies (`PS`): `SpentInTime` bounds what a CPU spent by the time that
  passed, and `CountsOwn` says that a sensor's steps and value are those of its own
  CPU and frequency. `ValueOfOwnState` holds for every number of CPUs and whatever
  the files hold. The upload (`U`): the fold that reads the config is shown to
  leave, for each name, its last entry (`After`: it solves the recursion, and
  `LoadIterIs`: nothing else does). With `TableInv`, that the table knows the names
  given and each under an id given to it, it gives `EachItsOwn` (`OwnId`).
* **`LPCFilterProofs`**. `SafeInv` relates where each device and application is
  to what is allocated (`OpenInv`: nothing is fetched before the control device
  is there, tables are freed only after the thread has gone; `ThreadInv`: the
  thread runs only with its tables). With it `NothingFreedIsUsed`. `FastInv`: a
  CPU that is nobody's was made fast, at each point of the thread's cycle;
  `FreedCPUsAreFast`. `GrantInv` and `LimitInv`: the stay-alive counter is at
  most one ahead of the cycles that began since the grant, unless the thread and
  a request overtake each other; `GrantsHold`, an action property.
* **`MultiProcProofs`**. `RaceInv` follows the two halves of the two
  `experiment_state++`: once the state has reached `EXP_END` while main still
  reads the console, the experiment thread is past its own ++ (`Past`), so that
  they cannot both count from there; without it the state has no bound
  (`TypeCorrect`). `QuitInv` counts the tests since q by the test the thread is
  at (`StopsSoon`). `TableInv`, which holds until a computation is terminated,
  relates each living thread to its entry of the table, and the entries without
  a thread to where the experiment thread is in its loops; the throttling thread
  changes no handle, and lets no entry look free (`TableFrame`). It gives `Alone`
  (`OneAtATime`). `SkipInv` counts states instead of tests: of those before the
  state in force, no more are missing than lines were typed, also between the read
  and the write of either ++ (`MissingInv`); it gives `SkipCosts`
  (`SkipCostsOneState`).

Theorems also say that the variables keep their types (`TypeCorrect`) in these
modules but for `LoadSensors`, `Viewers`, `Linpack`, `ArduinoTemp`, `TEMPer` and `Upload`, whose invariants
include what is needed of it; no run repeats them. A few facts no run states:
`CompleteIsDone`, `CollectsForLastRun`, `StoppedStays`, `Implementation`,
`OnlySingularMatrices`.

Only model-checked:

* Liveness, and with it the fairness part of `ImplementsWorkUnit`: `Delivered`,
  `Ends`, `ShutsDown`, `GivenBack`, `Recovers`, `FoundAgain`. TLAPS does not
  prove it (`ENABLED`).
* `ParsesJson`, `ReferencesCounted`, `ReadsTokens`, `OwnFields`: they say what
  recursive operators or folds over a whole text compute.

The type invariants of `LoadSensors`, `Json` and `Upload` were checked by TLC while these modules were written.


## Not modelled

* What WMI, ACPI and lm-sensors answer, the search of `/sys` for a battery, and
  the conversions of what they say: no state of interest. `Wmi.cpp`, `MsAcpi.cpp`,
  `cpu_info.cpp` and `battery_info.c` are queries of Windows.
* A result of the project itself: `BoincSensors.cpp:281` deletes its sensor and
  line 293 uses it; what follows freed memory is not restricted to states the
  program has.
* Several hosts in the trickle handler: nothing is shared between hosts but the
  user's account, which is looked up or created and not changed otherwise.
* Times and text of the messages of the quicktester, the summary a host leaves
  (`host_print_summary`), and the csv files.
* `Json`: the writer and the accessors. `Upload`: the handling of groups, a copy of
  the trickle handler's that nobody calls.
* Requests of the driver that only read, the forwarding of requests to the lower
  driver, and the dumps of ACPI tables.
* A reset of the Arduino when its port is opened, and a wall clock that is set back
  while a meter's energy is added up (`meter.c:497`): `Measure` only adds.
* What the properties except by a premise, and what the code then does, is said at
  each hazard of `PROJECT.json` as a note: the excepted outcomes do happen in the code.
* Rounding in LINPACK, its timing and report. Vendored libraries (serial, the
  headers of BOINC and Windows), the viewer's chart, web pages.
* Versions of files that no project file builds (`computation.process.c`,
  `computation.c`), and `LibSensors.cpp`, which no application registers.


## Plan

Done, in this order because the first system is the reason for the repository
and its pipeline the way every measurement takes: `Sensors`, `BoincApp` with
`WorkUnit`, `TrickleHandler`; then `PacketReader`, `Experiment`, `Computation`
and `MultiProc`, `QuickServer`; then the sensors one by one (`Wattsup`,
`ArduinoTemp`, `TEMPer`, `LoadSensors`, `PStates`), the driver (`PerfCtl`,
`LPCFilter`), `Viewers`, and the sequential parts (`Json`, `JsonLexer`, `PacketFields`, `Linpack`, `Upload`).

What would come next:

1. Pipeline composed: `BoincApp` with `TrickleHandler` over the BOINC tables,
   for what reaches the OSD server of a series; and `MultiProc` with
   `Experiment` over the connection, for what is lost when enter ends the main
   loop in one of the last states.
