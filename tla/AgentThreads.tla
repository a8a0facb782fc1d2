---------------------------- MODULE AgentThreads ----------------------------
(***************************************************************************)
(* The monitoring agent as a process: main() of main.c, startThreads(),    *)
(* one gatherMetric() thread per plug-in, the checkConf() thread that      *)
(* reloads mf_config.ini, and the signal that stops them                   *)
(* (thread_handler.c).  The configuration is module ConfigStore; that      *)
(* thread t has the hook and the name of one plug-in is PluginRegistry.    *)
(***************************************************************************)
EXTENDS ConfigStore

CONSTANTS
    PluginCount,    \* plug-ins loaded
    PluginName,     \* plugins_name[]: the name of the plug-in of each thread
    BulkSize,       \* bulk_size, read once when the threads start
    SecondNs,       \* nanoseconds per second: 10e8 in the code
    MaxSamples,     \* bound: no thread starts a bulk that would exceed it
    MaxEdits,       \* bound: changes of mf_config.ini
    MaxSignals      \* bound: signals the agent catches

Thread == 0 .. PluginCount - 1
DefaultKey == <<"timings", "default">>
UpdateKey == <<"timings", "update_configuration">>
TimingKey(t) == <<"timings", PluginName[t]>>

ASSUME AgentAssumption ==
    /\ PluginCount \in Nat
    /\ BulkSize \in Nat \ {0}
    /\ SecondNs \in Nat \ {0}
    /\ MaxSamples \in Nat /\ MaxEdits \in Nat /\ MaxSignals \in Nat
    /\ {DefaultKey, UpdateKey} \subseteq Key
    /\ \A t \in Thread : TimingKey(t) \in Key
    /\ Value \subseteq Nat

VARIABLES
    proc,       \* the process: "running", "exited" or "killed"
    main,       \* where main() and startThreads() are
    running,    \* the global flag of thread_handler.c
    catching,   \* SIGTERM and SIGINT run catcher()
    created,    \* threads created so far
    joined,     \* threads joined so far
    gather,     \* where each gatherMetric() thread is
    round,      \* its loop variable i
    nap,        \* the interval nanosleep() has read
    taken,      \* samples taken: calls of the hook
    buf,        \* json_array: the samples of the current bulk
    stored,     \* the samples the server has received
    reload,     \* where the checkConf() thread is
    wait,       \* the seconds it sleeps
    slot,       \* the loop variable i of init_timings()
    tvSec,      \* sleep_tims[].tv_sec
    tvNsec,     \* sleep_tims[].tv_nsec
    mapped,     \* the plug-in libraries are mapped
    logOpen,    \* logFile is open
    pidFile,    \* the file tmp_pid exists
    atStop,     \* samples taken when running was cleared
    edits,      \* changes of the file so far
    signals     \* signals caught so far

config == <<file, store, parser>>
samples == <<taken, buf, stored>>
gatherers == <<gather, round, nap, samples>>
reloader == <<reload, wait, slot>>
timings == <<tvSec, tvNsec>>
threads == <<gatherers, reloader, timings>>
files == <<mapped, logOpen, pidFile>>
flags == <<running, catching, atStop>>
environment == <<edits, signals>>
progress == <<proc, main, created, joined>>
vars == <<config, progress, flags, threads, files, environment>>

MainAt == {"pid", "parse", "parsing", "prepare", "start", "create", "install",
           "wait", "join", "unload", "log", "free", "clean", "exit"}
GatherAt == {"unborn", "check", "sample", "nap", "nap2", "asleep", "send", "done"}
ReloadAt == {"unborn", "check", "parse", "parsing", "asleep", "sec", "nsec", "done"}
Interval == [sec : Nat, nsec : Nat]

TypeOK ==
    /\ StoreTypeOK
    /\ proc \in {"running", "exited", "killed"}
    /\ main \in MainAt
    /\ running \in BOOLEAN
    /\ catching \in BOOLEAN
    /\ created \in 0 .. PluginCount + 1
    /\ joined \in 0 .. PluginCount
    /\ gather \in [Thread -> GatherAt]
    /\ round \in [Thread -> 0 .. BulkSize]
    /\ nap \in [Thread -> Interval]
    /\ taken \in [Thread -> Nat]
    /\ buf \in [Thread -> Seq(Nat)]
    /\ stored \in [Thread -> Seq(Nat)]
    /\ reload \in ReloadAt
    /\ wait \in Nat
    /\ slot \in 0 .. PluginCount
    /\ tvSec \in [Thread -> Nat]
    /\ tvNsec \in [Thread -> Nat]
    /\ mapped \in BOOLEAN
    /\ logOpen \in BOOLEAN
    /\ pidFile \in BOOLEAN
    /\ atStop \in [Thread -> Nat]
    /\ edits \in Nat
    /\ signals \in Nat

\* main() has opened the log file; globals are zero.
Init ==
    /\ StoreInit
    /\ proc = "running"
    /\ main = "pid"
    /\ running = FALSE
    /\ catching = FALSE
    /\ created = 0
    /\ joined = 0
    /\ gather = [t \in Thread |-> "unborn"]
    /\ round = [t \in Thread |-> 0]
    /\ nap = [t \in Thread |-> [sec |-> 0, nsec |-> 0]]
    /\ taken = [t \in Thread |-> 0]
    /\ buf = [t \in Thread |-> << >>]
    /\ stored = [t \in Thread |-> << >>]
    /\ reload = "unborn"
    /\ wait = 0
    /\ slot = 0
    /\ tvSec = [t \in Thread |-> 0]
    /\ tvNsec = [t \in Thread |-> 0]
    /\ mapped = FALSE
    /\ logOpen = TRUE
    /\ pidFile = FALSE
    /\ atStop = [t \in Thread |-> 0]
    /\ edits = 0
    /\ signals = 0

-----------------------------------------------------------------------------
(* main() *)

MainStep(from, to) ==
    /\ proc = "running"
    /\ main = from
    /\ main' = to
    /\ UNCHANGED <<proc, environment>>

\* exit(): the process ends, whatever its threads are doing.
ExitFrom(from) ==
    /\ proc = "running"
    /\ main = from
    /\ proc' = "exited"
    /\ UNCHANGED <<main, created, joined, config, flags, threads, files, environment>>

\* writeTmpPID(); createLogFile() has run before.
WriteTmpPID ==
    /\ MainStep("pid", "parse")
    /\ pidFile' = TRUE
    /\ UNCHANGED <<created, joined, config, flags, threads, mapped, logOpen>>

WriteTmpPIDFails == ExitFrom("pid")

\* A command line with -h or an unknown option: the usage is printed.
UsageExit == ExitFrom("parse")

MainParse ==
    /\ MainStep("parse", "parsing")
    /\ ParseBegin(file)
    /\ UNCHANGED <<created, joined, flags, threads, files>>

MainParseLine ==
    /\ MainStep("parsing", "parsing")
    /\ ParseLine
    /\ UNCHANGED <<created, joined, flags, threads, files>>

MainParsed ==
    /\ MainStep("parsing", "prepare")
    /\ ParseDone
    /\ ParseResult = 1
    /\ UNCHANGED <<created, joined, config, flags, threads, files>>

MainParseFails == ParseDone /\ ParseResult = 0 /\ ExitFrom("parsing")

\* prepare(): an experiment is registered; the log file is closed and reopened.
Prepare ==
    /\ MainStep("prepare", "start")
    /\ UNCHANGED <<created, joined, config, flags, threads, files>>

PrepareFails == ExitFrom("prepare")

-----------------------------------------------------------------------------
(* startThreads() *)

\* The interval init_timings() takes from the table; a plug-in without a line
\* of its own keeps the sleep_tims[] it had.
NewInterval(t) ==
    LET v == table[TimingKey(t)]
    IN IF v = NoValue THEN [sec |-> tvSec[t], nsec |-> tvNsec[t]]
       ELSE [sec |-> v \div SecondNs, nsec |-> v % SecondNs]

\* The plug-ins are loaded and init_timings() runs before any thread exists.
StartAgent ==
    /\ MainStep("start", "create")
    /\ running' = TRUE
    /\ mapped' = TRUE
    /\ tvSec' = [t \in Thread |-> NewInterval(t).sec]
    /\ tvNsec' = [t \in Thread |-> NewInterval(t).nsec]
    /\ UNCHANGED <<created, joined, config, catching, atStop, gatherers, reloader,
                   logOpen, pidFile>>

\* A plug-in calls exit() while it is loaded (Board_power).
PluginExits == ExitFrom("start")

CreateThread ==
    /\ MainStep("create", "create")
    /\ created <= PluginCount
    /\ created' = created + 1
    /\ IF created < PluginCount
          THEN gather' = [gather EXCEPT ![created] = "check"] /\ UNCHANGED reload
          ELSE reload' = "check" /\ UNCHANGED gather
    /\ UNCHANGED <<joined, config, flags, round, nap, samples, wait, slot, timings, files>>

CreateThreadFails == created <= PluginCount /\ ExitFrom("create")

ThreadsCreated ==
    /\ MainStep("create", "install")
    /\ created = PluginCount + 1
    /\ UNCHANGED <<created, joined, config, flags, threads, files>>

InstallCatcher ==
    /\ MainStep("install", "wait")
    /\ catching' = TRUE
    /\ UNCHANGED <<created, joined, config, running, atStop, threads, files>>

SeesStop ==
    /\ MainStep("wait", "join")
    /\ ~running
    /\ UNCHANGED <<created, joined, config, flags, threads, files>>

\* Only the plug-in threads are joined, in the order of their numbers.
JoinThread ==
    /\ MainStep("join", "join")
    /\ joined < PluginCount
    /\ gather[joined] = "done"
    /\ joined' = joined + 1
    /\ UNCHANGED <<created, config, flags, threads, files>>

\* Fault: "t < pluginCount - 1".
AllJoined_OffByOne ==
    /\ MainStep("join", "unload")
    /\ joined + 1 >= PluginCount
    /\ UNCHANGED <<created, joined, config, flags, threads, files>>

AllJoined ==
    /\ MainStep("join", "unload")
    /\ joined = PluginCount
    /\ UNCHANGED <<created, joined, config, flags, threads, files>>

\* cleanup_plugins(), PluginManager_free()
UnloadPlugins ==
    /\ MainStep("unload", "log")
    /\ mapped' = FALSE
    /\ UNCHANGED <<created, joined, config, flags, threads, logOpen, pidFile>>

\* main() again: "monitoring ends"
CloseLog ==
    /\ MainStep("log", "free")
    /\ logOpen' = FALSE
    /\ UNCHANGED <<created, joined, config, flags, threads, mapped, pidFile>>

RemovePidFile ==
    /\ MainStep("free", "clean")
    /\ pidFile' = FALSE
    /\ UNCHANGED <<created, joined, config, flags, threads, mapped, logOpen>>

CleanConfig ==
    /\ MainStep("clean", "exit")
    /\ ParseClean
    /\ UNCHANGED <<created, joined, flags, threads, files>>

ExitSuccess == ExitFrom("exit")

Main ==
    \/ WriteTmpPID \/ WriteTmpPIDFails \/ UsageExit
    \/ MainParse \/ MainParseLine \/ MainParsed \/ MainParseFails
    \/ Prepare \/ PrepareFails
    \/ StartAgent \/ PluginExits \/ CreateThread \/ CreateThreadFails \/ ThreadsCreated
    \/ InstallCatcher \/ SeesStop \/ JoinThread \/ AllJoined
    \/ UnloadPlugins \/ CloseLog \/ RemovePidFile \/ CleanConfig \/ ExitSuccess

-----------------------------------------------------------------------------
(* gatherMetric(): the thread of plug-in t *)

GatherStep(t, from, to) ==
    /\ proc = "running"
    /\ gather[t] = from
    /\ gather' = [gather EXCEPT ![t] = to]
    /\ UNCHANGED <<progress, config, flags, reloader, timings, files, environment>>

\* Fault: "while (1)" for "while (running)".
BeginBulk_Unconditional(t) ==
    /\ GatherStep(t, "check", "sample")
    /\ taken[t] + BulkSize <= MaxSamples
    /\ round' = [round EXCEPT ![t] = 0]
    /\ UNCHANGED <<nap, samples>>

BeginBulk(t) ==
    /\ GatherStep(t, "check", "sample")
    /\ running
    /\ taken[t] + BulkSize <= MaxSamples
    /\ round' = [round EXCEPT ![t] = 0]
    /\ UNCHANGED <<nap, samples>>

\* Fault: running, which is not volatile, is read before the first bulk only.
LeaveLoop_Hoisted(t) ==
    /\ GatherStep(t, "check", "done")
    /\ ~running
    /\ taken[t] = 0
    /\ UNCHANGED <<round, nap, samples>>

LeaveLoop(t) ==
    /\ GatherStep(t, "check", "done")
    /\ ~running
    /\ UNCHANGED <<round, nap, samples>>

\* The hook of an initialised plug-in always returns a JSON text.
Sample(t) ==
    /\ GatherStep(t, "sample", "nap")
    /\ taken' = [taken EXCEPT ![t] = @ + 1]
    /\ buf' = [buf EXCEPT ![t] = Append(@, taken[t] + 1)]
    /\ UNCHANGED <<round, nap, stored>>

\* nanosleep() copies the two words of sleep_tims[t] while the reloading
\* thread may write them.
ReadTvSec(t) ==
    /\ GatherStep(t, "nap", "nap2")
    /\ nap' = [nap EXCEPT ![t].sec = tvSec[t]]
    /\ UNCHANGED <<round, samples>>

ReadTvNsec(t) ==
    /\ GatherStep(t, "nap2", "asleep")
    /\ nap' = [nap EXCEPT ![t].nsec = tvNsec[t]]
    /\ UNCHANGED <<round, samples>>

\* Fault: "i <= bulk_size".
Wake_OffByOne(t) ==
    /\ GatherStep(t, "asleep", IF round[t] < BulkSize THEN "sample" ELSE "send")
    /\ round' = [round EXCEPT ![t] = @ + 1]
    /\ UNCHANGED <<nap, samples>>

Wake(t) ==
    /\ GatherStep(t, "asleep", IF round[t] + 1 < BulkSize THEN "sample" ELSE "send")
    /\ round' = [round EXCEPT ![t] = @ + 1]
    /\ UNCHANGED <<nap, samples>>

\* Fault: json_array is not cleared after a request.
Publish_KeepsBuffer(t) ==
    /\ GatherStep(t, "send", "check")
    /\ \/ stored' = [stored EXCEPT ![t] = @ \o buf[t]]
       \/ UNCHANGED stored
    /\ UNCHANGED <<round, nap, taken, buf>>

\* publish_json(): its result is ignored and json_array is cleared.  A request
\* that fails may still have reached the server (a lost answer).
Publish(t) ==
    /\ GatherStep(t, "send", "check")
    /\ \/ stored' = [stored EXCEPT ![t] = @ \o buf[t]]
       \/ UNCHANGED stored
    /\ buf' = [buf EXCEPT ![t] = << >>]
    /\ UNCHANGED <<round, nap, taken>>

Gather(t) ==
    \/ BeginBulk(t) \/ LeaveLoop(t) \/ Sample(t) \/ ReadTvSec(t) \/ ReadTvNsec(t)
    \/ Wake(t) \/ Publish(t)

-----------------------------------------------------------------------------
(* checkConf(): the thread that reloads the configuration *)

ReloadStep(from, to) ==
    /\ proc = "running"
    /\ reload = from
    /\ reload' = to
    /\ UNCHANGED <<progress, flags, gatherers, files, environment>>

ReloadContinues ==
    /\ ReloadStep("check", "parse")
    /\ running
    /\ UNCHANGED <<config, wait, slot, timings>>

ReloadEnds ==
    /\ ReloadStep("check", "done")
    /\ ~running
    /\ UNCHANGED <<config, wait, slot, timings>>

\* Once main() has freed confFile, fopen() is given whatever is there.
ConfFiles == IF main \in {"clean", "exit"} THEN {file, Missing} ELSE {file}

ReloadParse ==
    /\ ReloadStep("parse", "parsing")
    /\ \E f \in ConfFiles : ParseBegin(f)
    /\ UNCHANGED <<wait, slot, timings>>

ReloadParseLine ==
    /\ ReloadStep("parsing", "parsing")
    /\ ParseLine
    /\ UNCHANGED <<wait, slot, timings>>

\* The result of mfp_parse() is ignored; atoi("") is 0.
ReloadSleeps ==
    /\ ReloadStep("parsing", "asleep")
    /\ ParseDone
    /\ wait' = GetValue(UpdateKey, 0)
    /\ UNCHANGED <<config, slot, timings>>

ReloadWakes ==
    /\ ReloadStep("asleep", "sec")
    /\ slot' = 0
    /\ UNCHANGED <<config, wait, timings>>

\* init_timings() for plug-in slot: two assignments, or none.
SetTvSec ==
    /\ ReloadStep("sec", "nsec")
    /\ slot < PluginCount
    /\ table[TimingKey(slot)] # NoValue
    /\ tvSec' = [tvSec EXCEPT ![slot] = NewInterval(slot).sec]
    /\ UNCHANGED <<config, wait, slot, tvNsec>>

SetTvNsec ==
    /\ ReloadStep("nsec", "sec")
    /\ tvNsec' = [tvNsec EXCEPT ![slot] = NewInterval(slot).nsec]
    /\ slot' = slot + 1
    /\ UNCHANGED <<config, wait, tvSec>>

\* Fault: the empty value is converted, and assigned, too.
KeepTiming_Resets ==
    /\ ReloadStep("sec", "sec")
    /\ slot < PluginCount
    /\ table[TimingKey(slot)] = NoValue
    /\ slot' = slot + 1
    /\ tvSec' = [tvSec EXCEPT ![slot] = 0]
    /\ UNCHANGED <<config, wait, tvNsec>>

KeepTiming ==
    /\ ReloadStep("sec", "sec")
    /\ slot < PluginCount
    /\ table[TimingKey(slot)] = NoValue
    /\ slot' = slot + 1
    /\ UNCHANGED <<config, wait, timings>>

\* Fault: mfp_parse() before the loop instead of in it.
TimingsDone_NoParse ==
    /\ ReloadStep("sec", "asleep")
    /\ slot = PluginCount
    /\ UNCHANGED <<config, wait, slot, timings>>

TimingsDone ==
    /\ ReloadStep("sec", "check")
    /\ slot = PluginCount
    /\ UNCHANGED <<config, wait, slot, timings>>

\* In mfp_parse(), mfp_get_value() and init_timings() the thread uses the table,
\* and writes missing keys, a missing file and new intervals to the log.
UsesStore == reload \in {"parsing", "sec", "nsec"}

\* main() has destroyed the pool under the thread, or closed the log: it may go
\* on (the actions above) or crash.
ReloadCrashes ==
    /\ proc = "running"
    /\ UsesStore
    /\ pool = "destroyed" \/ ~logOpen
    /\ proc' = "killed"
    /\ UNCHANGED <<main, created, joined, config, flags, threads, files, environment>>

Reload ==
    \/ ReloadContinues \/ ReloadEnds \/ ReloadParse \/ ReloadParseLine \/ ReloadSleeps
    \/ ReloadWakes \/ SetTvSec \/ SetTvNsec \/ KeepTiming \/ TimingsDone \/ ReloadCrashes

-----------------------------------------------------------------------------
(* The environment: SIGTERM or SIGINT, and edits of mf_config.ini *)

\* catcher(), which runs on any one of the process's threads.
Catch ==
    /\ proc = "running"
    /\ catching
    /\ signals < MaxSignals
    /\ signals' = signals + 1
    /\ running' = FALSE
    /\ atStop' = IF running THEN taken ELSE atStop
    /\ UNCHANGED <<config, progress, catching, files, edits, timings, round, nap, samples,
                   wait>>

\* On a thread that does not sleep, or on the main thread.
SignalElsewhere == Catch /\ UNCHANGED <<gather, reload, slot>>

\* nanosleep() fails with EINTR; the thread publishes the bulk as it is.
SignalGather(t) ==
    /\ Catch
    /\ gather[t] = "asleep"
    /\ gather' = [gather EXCEPT ![t] = "send"]
    /\ UNCHANGED <<reload, slot>>

\* sleep() returns early.
SignalReload ==
    /\ Catch
    /\ reload = "asleep"
    /\ reload' = "sec"
    /\ slot' = 0
    /\ UNCHANGED gather

\* catcher() writes to the log, which main() may have closed.
SignalCrashes ==
    /\ proc = "running"
    /\ catching /\ ~logOpen
    /\ signals < MaxSignals
    /\ proc' = "killed"
    /\ UNCHANGED <<main, created, joined, config, flags, threads, files, environment>>

\* Before the handler is installed the default action ends the process.
SignalKills ==
    /\ proc = "running"
    /\ ~catching
    /\ proc' = "killed"
    /\ UNCHANGED <<main, created, joined, config, flags, threads, files, environment>>

EditFile ==
    /\ proc = "running"
    /\ edits < MaxEdits
    /\ edits' = edits + 1
    /\ file' \in (Files \cup {Missing}) \ {file}
    /\ UNCHANGED <<store, parser, progress, flags, threads, files, signals>>

Environment ==
    \/ SignalElsewhere \/ SignalReload \/ SignalKills \/ SignalCrashes \/ EditFile
    \/ \E t \in Thread : SignalGather(t)

Next == Main \/ Reload \/ Environment \/ \E t \in Thread : Gather(t)

Spec == Init /\ [][Next]_vars

\* Every thread is scheduled, sleeps end, hooks return and HTTP requests end
\* (libcurl is given no time limit: the last is the network's promise).
Fairness ==
    /\ WF_vars(Main)
    /\ WF_vars(Reload)
    /\ \A t \in Thread : WF_vars(Gather(t))

FairSpec == Spec /\ Fairness

-----------------------------------------------------------------------------
(* Properties *)

\* What the agent promises about samples, whatever signals, reloads, failed
\* requests and lost answers do: module SampleDelivery.  "closed" is the
\* point where all plug-in threads are joined, so a stop by signal first
\* publishes every sample taken; settled samples are those not in json_array.
Settled == [t \in Thread |-> taken[t] - Len(buf[t])]
SamplingOver == main \in {"unload", "log", "free", "clean", "exit"}

Delivery == INSTANCE SampleDelivery WITH
    Source <- Thread, settled <- Settled, closed <- SamplingOver

DeliversSamples == Delivery!Spec

\* startThreads() unmaps the plug-in libraries only when no thread can be in,
\* or go back to, a hook: every thread that was created has left its loop.
NoHookAfterUnload ==
    SamplingOver => \A t \in Thread : gather[t] = "done"

\* catcher() stops the agent at the next test of running: a thread finishes
\* the bulk it is in, and takes at most bulk_size samples more.
StopIsPrompt ==
    catching /\ ~running => \A t \in Thread : taken[t] <= atStop[t] + BulkSize

\* A reload gives a plug-in only seconds and nanoseconds that some content of
\* the file names for it: a file that is missing, cannot be opened or is only
\* partly usable leaves the interval alone (gatherMetric() would sample without
\* a pause at 0).
NamedIn(f, t) == f # Missing /\ Content(f)[TimingKey(t)] # NoValue
Named(t) == {Content(f)[TimingKey(t)] : f \in {g \in Files : NamedIn(g, t)}}
IntervalsAreConfigured ==
    created > 0 =>
        \A t \in Thread : (\A f \in Files : NamedIn(f, t)) =>
            /\ tvSec[t] \in {v \div SecondNs : v \in Named(t)}
            /\ tvNsec[t] \in {v % SecondNs : v \in Named(t)}

\* startThreads() and catcher(): once a signal is caught the process ends.
SignalStopsAgent == (catching /\ ~running) ~> (proc # "running")

\* checkConf(): a content that mf_config.ini keeps ends up in the intervals of
\* the plug-ins it names, for as long as the agent runs.
FileApplies(f) ==
    \A t \in Thread : NamedIn(f, t) =>
        LET v == Content(f)[TimingKey(t)]
        IN tvSec[t] = v \div SecondNs /\ tvNsec[t] = v % SecondNs
StableFileApplies ==
    \A f \in Files :
        <>[](file = f /\ proc = "running" /\ running) => <>[]FileApplies(f)

\* Said of the program, and not what the code does (README, "Findings"):

\* main.c:138, "monitoring ends", before main() takes the agent down: no thread
\* is then at work in the store whose memory pool mfp_parse_clean() destroys.
\* (mf_parser.h:41 warns concurrent readers of "inconsistencies", no more.)
PoolOutlivesReload == pool = "destroyed" /\ proc = "running" => ~UsesStore

\* README.md:98, the key "default" of [timings]: a plug-in that the file does
\* not name is sampled at the default interval.
DefaultIntervalApplies ==
    main = "wait" /\ edits = 0 =>
        \A t \in Thread :
            LET v == GetValue(TimingKey(t), GetValue(DefaultKey, 0))
            IN tvSec[t] = v \div SecondNs /\ tvNsec[t] = v % SecondNs
=============================================================================
