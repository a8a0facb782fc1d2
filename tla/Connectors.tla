----------------------------- MODULE Connectors -----------------------------
(***************************************************************************)
(* The seven connectors and the monitors of the client library, side by    *)
(* side.  They share nothing, each being a library (or a thread) with      *)
(* variables of its own: Init chooses the one that runs, and the variables *)
(* are its.  Those that only a later part has stand in for the variables   *)
(* of an earlier one (WITH).                                               *)
(***************************************************************************)
EXTENDS ProcFs

CONSTANTS
    MaxSamples, MaxFiles, Unset, Garbage,
    ResourcesAsked, PowerAsked,                     \* Linux_resources, Linux_sys_power
    Sockets, Requests, Cores, Processors,           \* RAPL_power, CPU_perf
    Devices, Channels, BoardWanted, Buffers, MaxRows, Parts,    \* Board_power
    Chips, TemperatureWanted,                       \* CPU_temperature
    Gpus, NvmlWanted, MaxFailing                    \* NVML

VARIABLES
    part,       \* the connector that runs
    up, flag, events, values, before, after, counted, samples,
    seen, fine, leaked, machine, base, available, monitor, at, first, line, broken

LR == INSTANCE LinuxResources
    WITH Asked <- ResourcesAsked, reported <- counted, repeated <- seen
LS == INSTANCE LinuxSysPower WITH Asked <- PowerAsked
RP == INSTANCE RaplPower
CF == INSTANCE CpuPerf
    WITH Machines <- Processors, reported <- counted, repeated <- seen
PM == INSTANCE ProcessMonitors
BP == INSTANCE BoardPower
    WITH Wanted <- BoardWanted,
         mean <- before, nb_samples <- after, since <- counted, reported <- seen
CT == INSTANCE CpuTemperature
    WITH Machines <- Chips, Wanted <- TemperatureWanted, features <- at, failing <- fine
NV == INSTANCE Nvml
    WITH Wanted <- NvmlWanted, report <- line, failing <- fine

\* What the parts need to know of the constants.
ASSUME ConnectorAssumption ==
    /\ LR!ResourcesAssumption /\ LS!SysPowerAssumption
    /\ RP!RaplAssumption /\ CF!CpuPerfAssumption /\ PM!MonitorAssumption
    /\ BP!BoardAssumption /\ CT!TemperatureAssumption /\ NV!NvmlAssumption

\* The variables that only some of the parts have.
lrVars == <<seen, fine>>
rpVars == <<machine, base>>
pmVars == <<monitor, at, first, line, broken>>
lsVars == <<up, flag, events, values>>
allVars == <<part, proc, moves, up, flag, events, values, before, after, counted, samples,
             seen, fine, leaked, machine, base, available, monitor, at, first, line, broken>>

Unused == "unused"

InitLR ==
    /\ part = "Linux_resources" /\ LR!Init
    /\ leaked = 0 /\ machine = Unused /\ base = Unused /\ available = Unused
    /\ monitor = Unused /\ at = Unused /\ first = Unused /\ line = Unused /\ broken = Unused

InitLS ==
    /\ part = "Linux_sys_power" /\ LS!Init
    /\ seen = Unused /\ fine = Unused /\ machine = Unused /\ base = Unused
    /\ available = Unused
    /\ monitor = Unused /\ at = Unused /\ first = Unused /\ line = Unused /\ broken = Unused

InitRP ==
    /\ part = "RAPL_power" /\ RP!Init
    /\ flag = Unused /\ seen = Unused /\ leaked = 0 /\ available = Unused
    /\ monitor = Unused /\ at = Unused /\ first = Unused /\ line = Unused /\ broken = Unused

InitCF ==
    /\ part = "CPU_perf" /\ CF!Init
    /\ flag = Unused /\ before = Unused /\ after = Unused
    /\ fine = Unused /\ leaked = 0 /\ machine = Unused
    /\ monitor = Unused /\ at = Unused /\ first = Unused /\ line = Unused /\ broken = Unused

InitPM ==
    /\ part = "monitors" /\ PM!Init
    /\ up = Unused /\ flag = Unused /\ events = Unused /\ values = Unused
    /\ seen = Unused /\ fine = Unused /\ machine = Unused /\ base = Unused
    /\ available = Unused

\* The counters of the machine, which the last three connectors do not read.
NoCounters == proc = Unused /\ moves = 0 /\ leaked = 0 /\ base = Unused

InitBP ==
    /\ part = "Board_power" /\ BP!Init
    /\ NoCounters
    /\ flag = Unused /\ machine = Unused /\ available = Unused
    /\ monitor = Unused /\ at = Unused /\ first = Unused /\ line = Unused /\ broken = Unused

InitCT ==
    /\ part = "CPU_temperature" /\ CT!Init
    /\ NoCounters
    /\ flag = Unused /\ before = Unused /\ after = Unused /\ counted = Unused /\ seen = Unused
    /\ available = Unused
    /\ monitor = Unused /\ first = Unused /\ line = Unused /\ broken = Unused

InitNV ==
    /\ part = "NVML" /\ NV!Init
    /\ NoCounters
    /\ before = Unused /\ after = Unused /\ counted = Unused /\ seen = Unused
    /\ machine = Unused /\ available = Unused
    /\ monitor = Unused /\ at = Unused /\ first = Unused /\ broken = Unused

Init == InitLR \/ InitLS \/ InitRP \/ InitCF \/ InitPM \/ InitBP \/ InitCT \/ InitNV

StepLR ==
    /\ part = "Linux_resources" /\ LR!Next
    /\ UNCHANGED <<part, leaked, rpVars, available, pmVars>>

StepLS ==
    /\ part = "Linux_sys_power" /\ LS!Next
    /\ UNCHANGED <<part, lrVars, rpVars, available, pmVars>>

StepRP ==
    /\ part = "RAPL_power" /\ RP!Next
    /\ UNCHANGED <<part, flag, seen, leaked, available, pmVars>>

StepCF ==
    /\ part = "CPU_perf" /\ CF!Next
    /\ UNCHANGED <<part, flag, before, after, fine, leaked, machine, pmVars>>

StepPM ==
    /\ part = "monitors" /\ PM!Next
    /\ UNCHANGED <<part, lsVars, lrVars, rpVars, available>>

counterVars == <<proc, moves, leaked, base>>

StepBP ==
    /\ part = "Board_power" /\ BP!Next
    /\ UNCHANGED <<part, counterVars, flag, machine, available, pmVars>>

StepCT ==
    /\ part = "CPU_temperature" /\ CT!Next
    /\ UNCHANGED <<part, counterVars, flag, before, after, counted, seen, available,
                   monitor, first, line, broken>>

StepNV ==
    /\ part = "NVML" /\ NV!Next
    /\ UNCHANGED <<part, counterVars, before, after, counted, seen, machine, available,
                   monitor, at, first, broken>>

Next == StepLR \/ StepLS \/ StepRP \/ StepCF \/ StepPM \/ StepBP \/ StepCT \/ StepNV

Spec == Init /\ [][Next]_allVars

-----------------------------------------------------------------------------
(* The properties of the parts, under names of their own. *)

\* The variables of the connector that runs have their types.
TypeOK ==
    /\ part = "Linux_resources" => LR!TypeOK
    /\ part = "Linux_sys_power" => LS!TypeOK
    /\ part = "RAPL_power" => RP!TypeOK
    /\ part = "CPU_perf" => CF!TypeOK
    /\ part = "monitors" => PM!TypeOK
    /\ part = "Board_power" => BP!TypeOK
    /\ part = "CPU_temperature" => CT!TypeOK
    /\ part = "NVML" => NV!TypeOK

\* Figures stand under their own names: those of the metrics (Linux_resources);
\* of the packages and memories, where memory energy is offered (RAPL_power); of
\* the cores and events, where the machine offers the three events and PAPI takes
\* each of them on every core, and on the first core where it takes all that are
\* offered (CPU_perf).
FiguresUnderTheirNames ==
    /\ part = "Linux_resources" => LR!FiguresInTheirSlots
    /\ part = "RAPL_power" => RP!FiguresInTheirSlots
    /\ part = "CPU_perf" => CF!CountersUnderTheirNames

\* CPU_temperature: a sensor that can be read has its own name and figure.
TemperaturesAreOwn == part = "CPU_temperature" => CT!TemperaturesAreOwn

\* Linux_resources: every byte is in exactly one throughput figure, those that are
\* printed again in later intervals left out.
TrafficCountedOnce == part = "Linux_resources" => LR!TrafficCountedOnce

\* Linux_resources: CPU_usage_rate is between 0 and 100.
CpuRateIsPercentage == part = "Linux_resources" => LR!CpuRateIsPercentage

\* Linux_sys_power: the report holds what is switched on, under its own names.
ReportsWhatWasAsked == part = "Linux_sys_power" => LS!ReportsWhatWasAsked

\* NVML: the report holds what is switched on and could be queried, under its
\* own names.
ReportsWhatSucceeded == part = "NVML" => NV!ReportsWhatSucceeded

\* Board_power: a figure is the average of all readings since the last report.
AveragesSinceReport == part = "Board_power" => BP!AveragesSinceReport

\* Linux_sys_power: the amounts of every part add up to the last reading.
FiguresAddUp == part = "Linux_sys_power" => LS!FiguresAddUp

\* RAPL_power: the figures add up to the energy used.
EnergyCountedOnce == part = "RAPL_power" => RP!EnergyCountedOnce

\* CPU_perf: every instruction is in exactly one report, those that are printed
\* again when PAPI_read() has failed left out.
InstructionsCountedOnce == part = "CPU_perf" => CF!InstructionsCountedOnce

\* Monitors: a process has never used more time, its niced ticks left out, than the
\* system in user and system mode.
ProcessTimeWithinSystem == part = "monitors" => PM!ProcessTimeWithinSystem

\* Monitors: the lines written add up to the last reading.
LinesAddUp == part = "monitors" => PM!LinesAddUp

\* Monitors, and not what the code does: exit() only when something is broken.
ExitsOnlyIfBroken == part = "monitors" => PM!ExitsOnlyIfBroken
=============================================================================
