# PHANTOM monitoring client: TLA+ specifications

The PHANTOM monitoring client consists of a *monitoring agent*, a daemon that
samples plug-ins and sends what they report to a server, and of a *client
library* that an application links to monitor itself. This directory holds TLA+
models of both, TLC configurations that check them on small instances, and
proofs for TLAPS. Paths below are relative to the repository's root.

## The system

| Part | Source | State it keeps | Operations | Hard because |
|---|---|---|---|---|
| agent process | `src/agent/main.c`, `thread_handler.c` | `running`, `sleep_tims[]`, `threads[]`, the pid file, the log | `main()`, `startThreads()`, `gatherMetric()`, `checkConf()`, `init_timings()`, `catcher()` | one thread per plug-in and one that reloads, a signal at any point, shutdown order |
| plug-in registry | `plugin_discover.c`, `plugin_manager.c` | `plugins_name[]`, `pluginCount`, the hook queue, the handle list, `hooks[]` | `discover_plugins()`, `load_plugin()`, `PluginManager_register_hook()`, `PluginManager_get_hook()`, `cleanup_plugins()` | two arrays that must agree although loads fail in between |
| queue adapter | `ext/queue/` | an external C++ queue | enqueue, try-dequeue | - |
| configuration store | `src/parser/src/mf_parser.c` | `ht_config`, `mp`, `ht_initialized` | `mfp_parse()`, `mfp_get_value()`, `mfp_set_value()`, `mfp_get_data_filtered_by_value()`, `mfp_parse_clean()` | replaced while it is in use, the file changes, pools |
| ini reader | `src/parser/libs/ini/` (third party) | none | `ini_parse()` | malformed lines |
| publisher | `src/publisher/src/publisher.c` | `headers`, libcurl handles | `publish_json()`, `query_json()`, `create_new_experiment()`, `publish_file()` | called by all threads, failing requests, answers in chunks, batches |
| client library | `src/api/src/` | `running`, `keep_local_data_flag`, `DataPath`, `logFile`, `threads[]` | `mf_start()`, `mf_end()`, `mf_send()`, `mf_user_metric()`, three monitors | buffered files, a last sample after the stop flag, failing sends that remove data, starts that fail half-way |
| plug-in wrappers | `src/plugins/*/src/mf_plugin_*.c` | `is_initialized`, the sample record | `init_<name>()`, `<name>_hook()` | - |
| connectors | `src/plugins/*/src/mf_*_connector.c` | counters before and after | init, sample, to_json, shutdown | stale values, resets, several of a kind failing in part |
| stand-alone clients, tests, demo, scripts | `src/plugins/*/src/utils`, `src/api/test`, `src/api/app_alexy`, `scripts` | - | - | - |

How they interact: `main()` parses the configuration, registers an experiment
through the publisher and calls `startThreads()`. This loads the plug-ins, each
of which reads its own section of the configuration and registers a hook, and
creates the threads. A sampling thread calls its hook, sleeps for
`sleep_tims[t]`, and publishes every `bulk_size` samples. The reloading thread
parses the file again, sleeps, and writes `sleep_tims[]`. A signal clears
`running`; every thread finds out when it next looks. The client library shares
the publisher's code with the agent and nothing else.

What makes each part correct:

* registry: thread `t` samples the plug-in whose interval it uses; libraries
  are mapped while their hooks may run and closed afterwards; no array is
  overrun;
* agent: the samples of a bulk reach the server together, in order, at most
  once; nothing taken is left when the agent ends; it does end; intervals come
  from the file;
* store: look-ups show the file that was read, nothing older and nothing else;
* publisher: libcurl is set up once, handles are released, answers reach the
  caller, no line of a file is lost or repeated at a batch boundary;
* library: `mf_end()` returns with all data on disk, also after a start that
  failed half-way; only a request that fails or is refused can lose any; what can
  make it crash is known (`CrashHasCause`);
* connectors and monitors: a figure stands under its own name, and the figures
  of successive samples, without those printed a second time, add up to what the
  counters counted, whatever reads failed in between.

`PROJECT.json` lists the parts of the code with what is modelled of each, the
hazards line by line, and the lines every definition stands for.

## The modules

| Module | Models |
|---|---|
| `PluginRegistry` | discovery, loading, hook queue, release |
| `ConfigStore` | the table and its pools as operators and actions over shared variables, used by the next two |
| `ConfigSession` | `ConfigStore` with one client on one thread |
| `AgentThreads` | the agent's process: `ConfigStore` with the main thread and the reloading thread as its clients, the sampling threads, signals, edits of the file |
| `SampleDelivery` | what the agent promises about samples, with no threads in it; `AgentThreads` refines it |
| `Publisher` | the requests, handles, headers and the receive callback |
| `PublishFile` | `publish_file()`: lines, batches, message buffer |
| `PublisherHalves` | the last two side by side: `Init` chooses the half that is looked at |
| `MonitoringApi` | the client library: application thread, monitors, files, directory |
| `ProcFs` | what the kernel counts in `/proc` and `/sys` (external), used by the next three |
| `LinuxResources` | the connector Linux_resources |
| `LinuxSysPower` | the connector Linux_sys_power |
| `ProcessMonitors` | the readings and differences of the client library's three monitors |
| `RaplPower` | the connector RAPL_power, with PAPI as external counters |
| `CpuPerf` | the connector CPU_perf, likewise |
| `BoardPower` | the connector Board_power: averages over the readings of a buffer, partial refills (libiio is external) |
| `CpuTemperature` | the connector CPU_temperature: chips, names and failing sensors (libsensors is external) |
| `Nvml` | the connector NVML: six queries, seven figures per GPU (NVIDIA's library is external) |
| `Connectors` | the seven connectors and the monitors side by side: `Init` chooses the one that runs |
| `MC...` | instances for TLC |
| `..._proofs` | the inductive invariant, lemmas and theorems of the module in the name; `ConfigStore_proofs` has lemmas only |

A definition whose name ends in `_<Something>` and whose comment begins with
"Fault:" is a plausible defect of the definition it precedes. It takes no part
in any specification; substituted for its neighbour it must make the run find
the property violated that `PROJECT.json` names next to it, which shows that
the property depends on the code.

### Correspondence to the code

*Registry.* `phase` is the position in `startThreads()`. Each directory entry
is one step; the order in which `readdir()` returns entries is free. A load has
four outcomes: success, failure, a library without an init function, which
stays mapped, and `exit()` in the init function, which the connector Board_power
calls for a board it does not know (`LoadExits`). A hook is named after its
plug-in. All seven wrappers register their hook exactly when they return 1.

*Store.* A line of the file is a section, an assignment or unusable. An
assignment belongs to the section line read last. A section line without its "]"
is one of the unusable lines: it is reported and leaves the section before it in
force, so what follows it goes there (`SectionLine`, `Assignment`, `Malformed`).
`ParseBegin`, a `ParseLine` for each line, and `ParseDone` are separate steps so that other
threads see the table empty, half-filled and complete. Numbers are values: the
code reads the digits in front of a unit with `strtol()` or `atoi()`. The ini
reader is third-party code and is modelled by what its caller sees.
`mfp_set_value()` is public but only called by the parser's handler.

*Agent.* `main`, `gather[t]` and `reload` are program counters whose labels are
the points between which something another thread does can matter. The file of
the configuration, `file`, may be edited or removed at any time. `nanosleep()`
reads `tv_sec` and `tv_nsec` in two steps (`ReadTvSec`, `ReadTvNsec`), and
`init_timings()` writes them in two (`SetTvSec`, `SetTvNsec`). A signal is
caught on any thread: one that sleeps has its sleep cut short (`SignalGather`,
`SignalReload`), any other only sees `running` change. Before `sigaction()` a
signal kills the process. Samples of a thread are numbered; `buf` is
`json_array`, `stored` what the server has. A request that is reported to have
failed may have been received. After `mfp_parse_clean()` the reloading thread
may still use the pool: it carries on with what is left there or crashes
(`ReloadCrashes`). In the parser, in look-ups and in `init_timings()`
(`UsesStore`) it may also write to the log that `main()` has closed, and crash
then; so may the signal handler (`SignalCrashes`), which stays installed. The name
of the file is freed before that: what the thread opens from then on may be
anything, or nothing (`ConfFiles`).
`PluginExits` is the registry's `LoadExits` as the rest of the agent sees it. The hook of an initialised plug-in never returns NULL.
`SecondNs` stands for the `10e8` of the code, which is 10^9.

*Publisher.* One request per caller at a time. The answer arrives in chunks,
each handled by `get_stream_data()`, which makes the block exactly as long as the
chunk: `room` shrinks with it and the next chunk may have to make it grow again.
`Freed` is what a caller's pointer shows after `realloc()` moved the block, which
it may do only when the block grows or was stale already. The order of `main()`,
whose first request comes before there are other threads, is the guard of `Call`;
like `prepare()`, it goes by the first character of the buffer and not by what the
request returned (`Prepared`). `curl_easy_init()` may return NULL (`InitFails`). Empty URLs and messages are rejected at once and are never
passed by the callers; they are left out.

*publish_file().* A line is its number and length. `used` counts the characters
of the message, separators included. `sent` are the lines given to libcurl and
`stored` how many of them the server keeps. libcurl does not take an HTTP error
status for a failure unless it is told to, which the code does not do: a message
the server refuses counts as sent, and `publish_file()` goes on (`Perform`,
`SendFull`). A failing request may have been received.
Lines are at most 318 characters long, so that `fgets()` returns one whole line
per call; the library's own files have such lines.

*Library.* The application calls from one thread in the documented order start,
end, send; user metrics come at any time, and the sequence may be repeated. A
line that a monitor writes goes to the buffer of its `FILE` and from there to
disk when stdio decides so or the file is closed. `exit()` in a monitor ends
the application. `Lost(f)` are the lines neither buffered, on disk nor on the
server. What the lines hold is module `ProcessMonitors`.

`mf_start()` may return NULL before any thread exists (`ConfigFails`) or after
some do (`CreateFails`). Like the README's example, the application need not look
at the result and may go on to `mf_end()`. `asked` is what `num_threads` then
counts and `missing` what in `threads[]` is not a thread to join: never created,
or joined before. To join one of these is undefined, so the call returns
(`EndReturns`) or crashes (`EndCrashes`). The threads that were created come
first in the array, so they are waited for in both cases. `api_prepare()` may end
the application (`PrepareExits`) or fail to open its log, which is then NULL;
`mf_send()` closes it all the same, and crashes. A closed log is a `FILE` that is
gone; to write to it or close it again returns or crashes (`SendRefused`,
`SendCrashes`). The callers of `query_json()` and `create_new_experiment()` give
blocks of 256 and 64 bytes for the answer; `moved` says that a longer one has made
`get_stream_data()` move the block, so that the caller reads freed memory
(`ConfigCrashes`, `SendRefused`, `SendCrashes`). `refused` and `resent` are not in
the code; they record what the application has done, for `CrashHasCause`. `failed`
covers requests that fail and requests the server answers with an error status.

*Connectors with counters, and monitors.* All of them subtract the counters of two
readings.
What can go wrong is which readings are subtracted and under which name the
result is put, so a figure here is the amount that goes into it and where it is
from; the factors and the division by the interval are left out. `before_time`
is moved on by every sample that ends regularly. Subtraction is that of
unsigned numbers (`Minus`), except for energy, which the code keeps in a float.
A counter that adds up several, as `net` and `io` do, is one number: the code
subtracts and stores the parts in pairs. `counted` and `reported` are not in the
code; they add up the figures, and `repeated` those among them that were printed
before. Files that cannot be opened leave what was read before, which is
what the code's readers do, with these exceptions: `sys_IO_stat_read()` adds up
the processes whose files it can open, `CPU_energy_read()` returns 0, and the
monitors other than the disk's end the application.

* `LinuxResources`: a figure stays as it is when its counters have not
  increased, and their previous values stay with it. `to_json()` prints such a
  figure again. So a byte may be reported late, and the figure it is in several
  times over; `TrafficCountedOnce` says that, without these repetitions
  (`repeated`), the reports add up to the counter. A process that ends takes its
  bytes out of the sum; the difference wraps around, and the property counts modulo
  the word. `UsageRate` is 0 when the file of the memory figures cannot be opened.
* `LinuxSysPower`: `Computed` goes through the statements of a sample, in each of
  the code's two branches: a part of the power is computed from the previous values
  as they are at that point (`Compute`), and a previous value is moved on
  (`MoveOn`). That the disk's part moves the traffic on which the memory's also
  needs is why the order matters. `Filled` is the order in which figures are
  stored, `Events` the order in which they were named, two lists the code keeps
  apart. `leaked` counts the files that `CPU_energy_read()` opens at line 528 and
  never closes. Once the process has none left, energy reads as 0, one figure is
  negative and left out of the report (`Json`; of the total the sum is tested),
  later ones are 0. `Garbage` is what the accumulator in `memory_counter_read()`
  holds before anything is added to it.
* `ProcessMonitors`: one reading has two steps, the process's files and the
  system's, because both counters go on in between. The system's running time is
  the sum of user and system ticks, as in the code: ticks at a raised nice value,
  of interrupts and of other machines (`RunOther`) are in the interval only. A
  monitored process may have niced ticks in its own time, so its time may exceed
  the system's by these. `CpuFreqStat` leaks in the same way as its copy above.
* `RaplPower`: PAPI returns the values of the events that could be added, in
  that order. `machine` is whether memory energy is offered and whether
  `PAPI_reset()` sets these counters to 0. `FiguresInTheirSlots` holds only
  where memory energy is offered: without it, `rapl_stat_read()` takes the second
  package for the first memory. `EnergyCountedOnce` holds only where
  `PAPI_reset()` has no effect on RAPL counters: where it has, a figure is the
  difference of two intervals. When the total power is asked for last, the element
  of `data->events` behind the last name is read (line 98), which nothing has
  written; the process may crash (`SampleCrashes`).
* `CpuPerf`: `available` is the processor: its cores, the events that PAPI knows
  (`offered`) and those that could be added to a core's set (`added`). Names are
  made for the first, values come from the second, three per core, and the result
  of `PAPI_add_event()` is not looked at. `CountersUnderTheirNames` therefore is
  about processors on which all three are offered and added, and about the first
  core of those where what is offered is also added there; on others, values do
  stand under other names. The hook does not look at the result of a sample that
  ends at a core it cannot read, and prints the old figures of that core and the
  later ones again (`repeated`). It asks for as many cores as are configured,
  though initialisation lowered the number to the processor's for itself only, so
  on a smaller machine every sample ends that way.

*Connectors without counters.* The three others report what a library shows at
the time of the sample. In `Connectors` they share some variables with those
above to keep the states small; `WITH` says which.

* `BoardPower`: `PrintSample` is the callback, `ForeachSample` and
  `ForeachChannel` the order in which libiio calls it: row by row, channel by
  channel, the first channel moving the count. Averages are in units of
  1/`Parts`, of which there are enough for every average to be exact
  (`BoardAssumption`); the code's are of type `double`. A refill that fails leaves the
  devices before it with readings that the next sample counts as well. The hook
  does not look at the result, so it publishes the figures of the last good
  sample under a new time. `since` and `reported` keep the readings themselves.
* `CpuTemperature`: a temperature is the sensor it is from and the sample it was
  taken in. All readings go through one local variable (`Value`), so a failing
  sensor is reported with the temperature of the sensor before it, or with what
  the stack held. `TemperaturesAreOwn` says that the others are not affected.
  A chip whose driver labels it "Package id" has no number; two of these give
  their cores the same names, which the machines of the instance do not have.
* `Nvml`: `Slot` and `events` are the two orders in which figures are stored and
  named, `ToJson` the third loop, over what the configuration asks for. A query
  that fails stores -1, which the report leaves out. `Gpus` is at most 4, for the
  arrays hold 32 names.

## Checks

All runs set `CHECK_DEADLOCK FALSE`: processes end, and bounds stop the others.

| Run | Module / cfg | Shows |
|---|---|---|
| `plugin_registry` | `MCPluginRegistry` | `HookMatchesName`, `HooksStayMapped`, `HooksAreReleased`, `IndicesInBounds`: three plug-ins and another entry, 4 array elements, every order, switch and outcome; plug-ins are symmetric |
| `agent_sampling` | `MCAgent` / `MCAgentSampling.cfg` | `NoHookAfterUnload`, `StopIsPrompt` and the refinement `DeliversSamples`: two sampling threads, bulks of two, two bulks each, two signals |
| `agent_reload` | `MCAgent` / `MCAgentReload.cfg` | `IntervalsAreConfigured`, and with fairness `SignalStopsAgent` and `StableFileApplies`: two contents and none, two edits, one signal |
| `config_session` | `MCConfigSession` | `LookupsShowFile`: contents with repeated keys, unusable lines, nothing |
| `publisher` | `MCPublisher` | requests: `CurlInitialisedOnce`, `HandlesAreAccountedFor`, `LastChunkIsReadBack`, the main thread and two others, answers of 0, 1 and 2 chunks of three lengths; files: `LinesAreSentOnce`, `NothingSkipped`, `RecordsFit`, messages of three lines, up to seven lines |
| `monitoring_api` | `MCMonitoringApi` | `EndLeavesDataOnDisk`, `LossNeedsFailedRequest`, `CrashHasCause`, and with fairness `EndTerminates`: one monitor that gives up alone, one that exits and skips, two starts, which may be refused, two sends, two lines a monitor's file and one user metric |
| `connectors` | `MCConnectors` | names: `FiguresUnderTheirNames` (of Linux_resources, RAPL_power and CPU_perf), `ReportsWhatWasAsked`, `ReportsWhatSucceeded`, `TemperaturesAreOwn`; averages: `AveragesSinceReport`; sums: `TrafficCountedOnce`, `FiguresAddUp`, `EnergyCountedOnce`, `InstructionsCountedOnce`, `LinesAddUp`; `CpuRateIsPercentage`, `ProcessTimeWithinSystem`: three changes of the counters, three samples, four descriptors, two processes (symmetric), two sockets, four processors of one or two cores, two devices with two channels, two machines of two or three chips, two GPUs with up to two failing queries |

Each module's `TypeOK` is checked with it (`HalvesTypeOK` for the two halves of the
publisher).

Why the bounds are enough. A second signal can only interrupt a second sleep,
and two bulks per thread contain a complete bulk followed by an interrupted one
in either order. Three plug-ins have a failing load between two good ones. Two
edits take the file from one content to another, or away and back. Messages of
three lines and files of up to seven have a first, a middle and a last record,
two full messages and every remainder. Two requests per thread overlap with the
first and with each other. A buffer of 6 with chunks of 3, 5 and 6 has one that fits
the first time and not after a shorter one, and one that never fits. Two lines per file let the first be on disk while
the second is in the buffer, and let a failed send deliver a part. The second
send closes the log file again. Three samples are a first figure, one that may
stay old, and one after it; three changes of the counters put one before, between
and after them. Four descriptors are used up by the second or third sample. A
word of 16 values is more than the counters reach, so that only a true decrease
wraps. Three samples of the board have two rows of readings at most each, so up to
six are averaged, for which 1/60 is small enough; they contain a failed sample between two
good ones and two failed ones in a row. Two failing queries are two of one GPU, or
one of each. A name the library has no monitor for ends its thread at once; it is
in the instance of `monitoring_api_loss` only.

Bounds are constants whose comment says so: `MaxSamples`, `MaxEdits`,
`MaxSignals`, `MaxParses`, `MaxCalls`, `MaxLines`, `MaxStarts`, `MaxSends`,
`MaxMoves` stop
the action that would exceed them, `MaxFailing` limits the queries of one sample
that fail, `MaxRows` the rows of a buffer, and `PoolCap` saturates two counters.

### Fairness

`AgentThreads!Fairness` is weak fairness of the main thread, of the reloading
thread and of each sampling thread: the operating system schedules every
thread, sleeps end, and hooks return. It also says that HTTP requests end. The
code sets no time limit for libcurl, so that is the network's promise and not
the program's: with a server that accepts connections and never answers,
`SignalStopsAgent` does not hold. No fairness is assumed of signals and edits.
`MonitoringApi!Fairness` is weak fairness of the monitors' threads and of the
join in `mf_end()`.

### Findings

Five runs check what a comment or document says of the program and find it
violated.

* `agent_shutdown`: under "monitoring ends" (`src/agent/main.c:138`) `main()` frees
  what the agent used, but the reloading thread was never joined. The trace ends
  with the pool destroyed and that thread inside `mfp_parse()`; the state inside
  `init_timings()` is reached as well. The parser's header warns of
  "inconsistencies while accessing the data in a concurrent setting"
  (`src/parser/src/mf_parser.h:41`), which does not cover a table that is gone.
* `agent_default`: the key `default` of `[timings]` (`README.md:98`) is read and
  has no effect; a plug-in without a line of its own is sampled without any
  pause.
* `publisher_answer`: `query_json()` is to "read back the response string"
  (`src/publisher/src/publisher.c:44`); an answer in several chunks leaves only
  the last, and a long one may leave the caller with a freed block.
* `monitoring_api_loss`: `mf_send()` "sends locally-stored predefined metrics
  [...] execution ID will be returned on success" (`src/api/README.md:22`);
  after a failed request it removes the file and returns the ID.
* `process_exit`: `cpu_freq_stat()` opens a file to "check if system support cpu
  freq counting" (`src/api/src/power_monitor.c:251`) and never closes it. When
  one descriptor is left, the directory cannot be opened and `power_monitor()`
  calls `exit(0)`: the monitored application ends although nothing it reads is
  missing. With the usual 1024 descriptors and one sample a second that is after
  about a quarter of an hour.

Other behaviour met on the way, which the models contain:

* a reload that cannot open the file empties the table, so the pause before the
  next one is 0 and the thread spins until the file is back
  (`thread_handler.c:147-150`);
* a sampling thread may sleep for the seconds of one configuration and the
  nanoseconds of another (`thread_handler.c:184` and `228`);
* every reload leaves a memory pool behind (`mf_parser.c:48`), every failed
  request a libcurl handle (`publisher.c:93`), every failing exit the pid file
  (`main.c:85`);
* a second `mf_send()` closes the log file a second time, and the first one closes
  NULL when `api_prepare()` could not open it (`mf_api.c:202` and `241`);
* an answer longer than the caller's block, 256 or 64 bytes, can leave the library
  with a freed one (`publisher.c:286`);
* a request the server answers with an error status counts as successful, and the
  lines of the message are gone (`publisher.c:144`);
* an interval without traffic prints the figure of an earlier one again
  (`mf_Linux_resources_connector.c:181` and `228`), and so does a sample of
  CPU_perf that could not read a core (`mf_plugin_CPU_perf.c:88`);
* an event that PAPI knows but could not add to a core's set shifts the values
  under the names (`mf_CPU_perf_connector.c:110`);
* the client library leaves nice, interrupt and stolen ticks out of the system's
  running time (`power_monitor.c:228`), so a niced process can have used more than
  the whole system;
* a section line without "]" puts the lines after it into the section before
  (`ini.c:123`);
* an `mf_start()` that fails half-way leaves its threads running and counts
  others that do not exist, which `mf_end()` then joins (`mf_api.c:121` and
  `140`);
* `mf_user_metric()` "sends user-defined metrics [...] to the PHANTOM MF server"
  (`src/api/README.md:24`); it appends to a local file, which `mf_send()` sends,
  and returns 0 when an earlier `mf_send()` has removed the directory;
* an unknown board or one with too many channels makes the plug-in Board_power end
  the whole agent, with the pid file left behind
  (`mf_Board_power_connector.c:238` and `246`);
* a refill that fails (`mf_Board_power_connector.c:93`) makes the agent publish
  the previous averages again under the new time;
* a temperature sensor that fails is reported with its neighbour's temperature
  (`mf_CPU_temperature_connector.c:159`);
* a signal after the log is closed makes `catcher()` write to it
  (`thread_handler.c:127`).

## Proofs

Every invariant that a passing run checks is also a theorem, for every value of
the constants that the named assumptions allow, and so is the refinement of
`SampleDelivery`. Each follows the same argument: an inductive invariant, one
lemma that `Init` establishes it, lemmas that the actions preserve it, and the
theorems from it. TLC checked each of these invariants on the instance of its run
before it was proved.

The provers cannot do induction over data: the induction theorems of the library
take an operator as a parameter. Where an argument needs it, it is by the least
number: `WFMin` gives the least element at which a claim fails, and the one
before it leads to a contradiction (`LeastNatural`, `UpFromZero`). In this way
`Connectors_proofs` shows that functions defined step by step exist and are
unique (`StepsExist`, `StepsUnique`), and what sums and folds over sequences of
any length give. The models have no RECURSIVE operators for that reason.

### Assumptions

`EntryAssumption`, `SlotAssumption`, `ConfigAssumption`, `SessionAssumption`,
`AgentAssumption`, `ApiAssumption`, `PublisherAssumption`, `FileAssumption` and
those that `ConnectorAssumption` puts together say of which kind the constants
are. TLC evaluates all of them on the instances. Those that say more:

* `SlotAssumption`: fewer plug-ins than array elements. The repository has seven,
  the arrays 256 elements;
* `AgentAssumption`: `BulkSize` is not 0 (see "Not modelled");
* `ResourcesAssumption`, `MonitorAssumption`: `MaxMoves + 2 < Modulus`, so no
  counter of the kernel goes around. They have 64 bits. `ProcFs` adds that none of
  them decreases, I/O wait included, which the kernel does not promise of that one;
  `CpuRateIsPercentage` rests on it. The lemmas about the
  other connectors do not need it;
* `BoardAssumption`: every average that can occur is a multiple of 1/`Parts`.
  What the rounding of `double` adds is left out;
* `TemperatureAssumption`: none on names: `TemperaturesAreOwn` goes by the place in
  the list and holds when two sensors have the same name, too;
* `NvmlAssumption`: at most four GPUs, for the arrays have 32 elements.

### PluginRegistry_proofs

`TypeCorrect`, `HooksMatchNames`, `IndicesStayInBounds`, `HooksAreMapped`,
`LibrariesAreReleased`. `HookMatchesName` is not inductive: it speaks of
the hooks already fetched, and says nothing of those still in the queue. The
invariant `IInv` adds what ties the structures together:

* `QueueMatchesNames`: the queue holds the names of slots `fetched` to
  `count - 1`, in order. This is why a pop gives the right hook;
* `HandlesMatchNames`: the handle list holds the names of slots
  `Len(handles) - 1` down to 0, and exactly these slots' libraries are mapped
  (of those that were loaded);
* `NamesAreDistinct`: different slots name different plug-ins, all of them
  already read. Closing one library therefore unmaps no other slot's;
* `EntriesSuffice`: `count` and the unread plug-ins together never exceed the
  plug-ins there are. This bounds every index;
* `PhaseInv`: what is complete in which phase.

`SkipEntry` covers all steps that read an entry and complete no slot,
`LoadSucceedsInv`, `FetchHookInv` and `CloseHandleInv` the three that move data,
`PhaseStep` those that only move on; `NextInv` puts them together.

### ConfigStore_proofs, ConfigSession_proofs

`SessionInvariant`, `SessionTypeCorrect`, `LookupsCorrect`. `StoreInv` is the
store's own part, which the agent's proof uses as well: the table is that of
the lines read so far of the content opened last, hence of all of it when the
parse is done. A look-up between two parses is then right because no key of an
earlier file can have survived the new table.

### AgentThreads_proofs

`AgentInvariant`, `AgentTypeCorrect`, `UnloadIsSafe` (`NoHookAfterUnload`),
`StopPrompt` (`StopIsPrompt`), `IntervalsConfigured`
(`IntervalsAreConfigured`), `AgentDelivers` (`DeliversSamples`). A thread's
position says nothing by itself about what the others do, so the invariant
consists of what each one relies on:

* `MainInv`, `ThreadsInv`: where `main()` is decides which threads exist and which
  are joined; one that is joined has ended. `UnloadIsSafe` is the case in which
  all of them are;
* `RoundInv`, `BufferInv`: what is in `json_array` are the last samples taken, in
  order, and nothing between two bulks. This is the step from the threads to
  `SampleDelivery`: `Publish` moves a whole run of samples, every other step
  adds one sample or none;
* `StopInv`: after the signal a thread takes at most what is left of its bulk;
* `ParsedInv`, `SlotInv`, `IntervalInv`: `init_timings()` reads a table that shows a
  whole file, and each half of an interval is one of some file's. That the two
  halves may be of different files is why `IntervalsAreConfigured` speaks of
  them apart.

The lemmas whose names end in `Frame` say which actions may change a group of
variables at all; every other lemma looks at these actions only.

### MonitoringApi_proofs

`ApiInvariant`, `ApiTypeCorrect`, `EndFlushes` (`EndLeavesDataOnDisk`),
`NothingLost` (`LossNeedsFailedRequest`), `CrashesExplained` (`CrashHasCause`).
`ActiveInv`: a monitor that runs is one that `mf_end()` joins; with `BufferInv`,
that only a running monitor has lines in a buffer, the data are on disk when it
returns. `MissingInv` and `LogInv` trace what is missing in `threads[]` and a
closed log to a refused start and a send; a log that was never opened and a block
that has moved are causes of their own.

### Publisher_proofs, PublishFile_proofs

`PublisherInvariant`, `PublisherTypeCorrect`, `CurlOnce`
(`CurlInitialisedOnce`), `HandlesCorrect` (`HandlesAreAccountedFor`),
`LastChunkCorrect` (`LastChunkIsReadBack`). The initialisation takes no
lock. It is safe because of `OrderInv`: the other threads exist only after the
main thread's first request has left something in its buffer, and `LibraryInv` says
that the headers are complete by then.

`FileInvariant`, `FileTypeCorrect`, `SentCorrect` (`LinesAreSentOnce`),
`FileIsCutWithoutGaps` (`NothingSkipped`), `MessageFits` (`RecordsFit`).
`SentInv`: what has been sent, followed by the message, is the file up to the
line read last. `SpaceInv` gives each of `Batch` records an equal share of the
buffer, without which a bound on the whole message is not inductive. In
`Publisher_proofs`, `AnswerInv` follows the block from chunk to chunk: as long as
none makes it grow, it shows the chunk received last and is as long as that.

`HalvesImplement`: the two halves side by side, which is what the run checks, do what
each module says; so does `HalvesTypeCorrect` follow from the two type theorems.

### Connectors_proofs

One section for each connector and for the monitors, with an invariant, and a
last one in which `ConnectorsInv` puts them together; from
`ConnectorsInvariant` follow `ConnectorsTypeCorrect`, `FiguresNamed`,
`TemperaturesCorrect`, `AveragesCorrect`, `TrafficCounted`, `CpuRate`,
`PowerReports`, `NvmlReports`, `PowerFiguresAddUp`,
`EnergyCounted`, `InstructionsCounted`, `OwnTimeWithinSystem` and
`MonitorLinesAddUp`.

* `RaplInv`, `PerfInv`: an event's figures telescope, and each value is of the event
  whose place it is read from. For RAPL this needs the arithmetic of places
  (two domains per package), for CPU_perf that of cores and events;
* `MonitorInv`: the process's time, but for its niced ticks, is part of the
  system's, and was read before it (`MonitorOrder`). The remainder of an increase leads from one reading to
  the next because no counter goes around;
* `PowerInv`: what a sample computes is found statement by statement, in both
  branches, before it is added up; a part uses the previous values that no earlier
  part has moved on. `PowerInv`, `ResourcesInv`: names and figures are listed by two pieces of code.
  In both, a name's slot is the number of metrics switched on up to it
  (`PowerEvents`, `NextSlot`, `SlotIsNamed`). `TicksInOrder` bounds the
  processor's ticks, from which the rate is at most 100;
* `BoardInv`: an average times its count is the sum of the readings since the last
  report, channel by channel, and the count is their number (`BoardAverages`).
  `AverageMoves` is one reading, `RowMoves` a row, `BufferAverages` a buffer of any
  length. It is inductive because a failing refill leaves average, count and
  readings of each device together;
* `TemperatureInv`: the lists of sensors and names are parallel and hold what is
  switched on, whatever chips there are (`TemperatureListed`, over flattened
  sequences);
* `NvmlInv`: element `i` belongs to GPU `(i - 1) \div 7 + 1` in all three loops.

### Only model-checked

* The liveness properties `SignalStopsAgent`, `StableFileApplies` and
  `EndTerminates`: they rest on fairness and so on `ENABLED`, which TLAPS does not
  handle here.
* The runs that expect a violation: they show behaviours, of which TLC prints one.

## Not modelled

* The stand-alone clients: each is the loop of `gatherMetric()` around one
  connector, printing to a file, without threads, reload or server. Their
  connectors are modelled.
* Tests, demo application and scripts: they keep no state of the running system.
  The order in which tests and demo call the library is the one modelled.
* The text-level syntax of ini files and JSON, conversion factors, and the
  durations by which figures are divided.
* Calls of the library from several threads, which no document, test or example
  makes.
* `bulk_size` 0, lines longer than 318 characters, more GPUs or sensors than the
  arrays of 32 hold, labels longer than their buffers: what the code then does is
  to write outside an object, of which the models have no account.
* Memory that grows for as long as the agent runs (a pool for each reload); the
  pools are counted up to `PoolCap`.

## Plan

1. *Core* (done): `PluginRegistry`, `ConfigStore`, `ConfigSession`,
   `AgentThreads` with `SampleDelivery`, `Publisher`, `PublishFile`,
   `MonitoringApi`; proofs for the registry.
2. *Connectors* (done): all seven and the monitors, parts of `Connectors`.
3. *Library* (done): starts that fail before or between their threads, crashes.
4. *Invariants* (done): proofs of every invariant that a run checks, and of the
   refinement of `SampleDelivery`.
5. *More proofs*: properties that the invariants give and no run states yet, such
   as that a joined thread takes no further step, and further promises of the
   components as specifications of their own: the publisher as a queue of
   requests, the registry as a map from plug-ins to hooks.
