-------------------------- MODULE ProcessMonitors --------------------------
(***************************************************************************)
(* What the three monitors of the client library compute: power_monitor(), *)
(* resources_monitor() and disk_monitor().  Their threads, files and the   *)
(* flag that stops them are module MonitoringApi; here is one monitor, its *)
(* counters and the lines it writes.  The process's files are read before  *)
(* the system's, and both go on counting in between.                       *)
(***************************************************************************)
EXTENDS ProcFs

CONSTANTS
    MaxSamples, \* bound: samples taken
    MaxFiles    \* descriptors the application may have open besides the monitor's own

\* No counter of 64 bits goes around while the machine is up.
MonitorAssumption ==
    /\ MaxFiles \in Nat /\ MaxSamples \in Nat
    /\ MaxMoves + 2 < Modulus

VARIABLES
    monitor,    \* "power", "resources" or "disk"
    at,         \* "own" or "system": what is read next; "exited": exit(0) was called
    first,      \* the reading before the loop is not complete yet
    before,
    after,      \* the reading that is being made, or the last one
    line,       \* the increases the last line was computed from
    counted,    \* history: the first reading and what lines have added to it
    leaked,     \* descriptors cpu_freq_stat() has left open
    broken,     \* history: a file or the perf counter really could not be read
    samples

vars == <<procVars, monitor, at, first, before, after, line, counted, leaked, broken, samples>>

\* sys_itv (all ticks), sys_runtime (cpu_user and cpu_sys), pid_runtime, the
\* process's bytes, sys_cpu_energy and pid_l2_cache_misses.
Counter == {"itv", "runtime", "pid", "bytes", "energy", "misses"}
Stats == [Counter -> Int]
Zero == [c \in Counter |-> 0]

Shows(c) ==
    CASE c = "itv"     -> proc.busy + proc.other + proc.idle
      [] c = "runtime" -> proc.busy
      [] c = "pid"     -> proc.run
      [] c = "bytes"   -> proc.bytes
      [] c = "energy"  -> proc.energy
      [] c = "misses"  -> proc.misses

TypeOK ==
    /\ ProcType
    /\ monitor \in {"power", "resources", "disk"}
    /\ at \in {"own", "system", "exited"}
    /\ first \in BOOLEAN /\ broken \in BOOLEAN
    /\ before \in Stats /\ after \in Stats /\ line \in Stats /\ counted \in Stats
    /\ leaked \in 0 .. MaxFiles
    /\ samples \in 0 .. MaxSamples

Init ==
    /\ ProcInit
    /\ monitor \in {"power", "resources", "disk"}
    /\ at = "own"
    /\ first = TRUE
    /\ before = Zero /\ after = Zero /\ line = Zero /\ counted = Zero
    /\ leaked = 0
    /\ broken = FALSE
    /\ samples = 0

\* What is read at each of the two stages of a reading.
\* Fault: the system's files first.
ReadAt_SystemFirst(stage) ==
    CASE monitor = "disk"                               -> {"bytes"}
      [] monitor = "power" /\ stage = "own"             -> {"itv", "runtime", "energy", "misses"}
      [] monitor = "power" /\ stage = "system"          -> {"pid", "bytes"}
      [] monitor = "resources" /\ stage = "own"         -> {"runtime"}
      [] monitor = "resources" /\ stage = "system"      -> {"pid"}

ReadAt(stage) ==
    CASE monitor = "disk"                               -> {"bytes"}
      [] monitor = "power" /\ stage = "own"             -> {"pid", "bytes"}
      [] monitor = "power" /\ stage = "system"          -> {"itv", "runtime", "energy", "misses"}
      [] monitor = "resources" /\ stage = "own"         -> {"pid"}
      [] monitor = "resources" /\ stage = "system"      -> {"runtime"}

Reading(stage) == [c \in Counter |-> IF c \in ReadAt(stage) THEN Shows(c) ELSE after[c]]

\* cpu_freq_stat() keeps the file it opens first, then opens the directory and
\* the processors' files one by one; without descriptors for those it finds no
\* energy at all.
CpuFreqStat ==
    /\ MaxFiles - leaked >= 2
    /\ leaked' = leaked + 1
    /\ after' = [Reading("system") EXCEPT
                    !.energy = IF MaxFiles - leaked >= 3 THEN @ ELSE 0]

\* The energy is a float, the others are unsigned.
Increase(c) == IF c = "energy" THEN after'[c] - before[c] ELSE Minus(after'[c], before[c])

\* What a line is computed from is added to what has been counted.
Write(change) ==
    /\ line' = [c \in Counter |-> IF c \in DOMAIN change THEN change[c] ELSE 0]
    /\ counted' = [c \in Counter |-> (counted[c] + line'[c]) % Modulus]

ReadOwn ==
    /\ monitor # "disk" /\ at = "own"
    /\ first \/ samples < MaxSamples
    /\ at' = "system"
    /\ after' = Reading("own")
    /\ UNCHANGED <<procVars, monitor, first, before, line, counted, leaked, broken, samples>>

\* The reading before the loop is complete: it becomes `before`.
FirstReading ==
    /\ at = "system" /\ first
    /\ IF monitor = "power" THEN CpuFreqStat
                            ELSE after' = Reading("system") /\ UNCHANGED leaked
    /\ before' = after' /\ counted' = after'
    /\ first' = FALSE
    /\ at' = "own"
    /\ UNCHANGED <<procVars, monitor, line, broken, samples>>

\* calcualte_and_update(): nothing changes unless both times have increased,
\* and then all counters move on.
\* Fault: before takes part of the new values though no line is written.
CalculateAndUpdate_Early ==
    IF after'.itv <= before.itv \/ after'.runtime <= before.runtime
       THEN before' = [before EXCEPT !.pid = after'.pid] /\ UNCHANGED <<line, counted>>
       ELSE Write([c \in Counter |-> Increase(c)]) /\ before' = after'

CalculateAndUpdate ==
    IF after'.itv <= before.itv \/ after'.runtime <= before.runtime
       THEN UNCHANGED <<before, line, counted>>
       ELSE Write([c \in Counter |-> Increase(c)]) /\ before' = after'

PowerSample ==
    /\ monitor = "power" /\ at = "system" /\ ~first
    /\ CpuFreqStat
    /\ CalculateAndUpdate
    /\ at' = "own"
    /\ samples' = samples + 1
    /\ UNCHANGED <<procVars, monitor, first, broken>>

\* resources_stat_all_and_calculate(): a rate of 0 unless both times have
\* increased; the previous times move on in any case.
ResourcesSample ==
    /\ monitor = "resources" /\ at = "system" /\ ~first
    /\ after' = Reading("system")
    /\ Write(IF after'.pid <= before.pid \/ after'.runtime <= before.runtime
                THEN [c \in {"pid", "runtime"} |-> 0]
                ELSE [c \in {"pid", "runtime"} |-> Increase(c)])
    /\ before' = after'
    /\ at' = "own"
    /\ samples' = samples + 1
    /\ UNCHANGED <<procVars, monitor, first, leaked, broken>>

\* disk_stats_read(): the previous values move on first; a file that cannot be
\* opened leaves the values where they are.
DiskSample(ok) ==
    /\ monitor = "disk" /\ at = "own"
    /\ first \/ samples < MaxSamples
    /\ before' = after
    /\ after' = IF ok THEN Reading("own") ELSE after
    /\ IF first THEN counted' = after' /\ samples' = samples /\ UNCHANGED line
                ELSE Write([c \in {"bytes"} |-> Minus(after'[c], before'[c])])
                     /\ samples' = samples + 1
    /\ first' = FALSE
    /\ UNCHANGED <<procVars, monitor, at, leaked, broken>>

\* A file of /proc or /sys, or the perf counter, cannot be read: exit(0).
ExitsOnFailure ==
    /\ monitor # "disk" /\ at \in {"own", "system"}
    /\ at' = "exited"
    /\ broken' = TRUE
    /\ UNCHANGED <<procVars, monitor, first, before, after, line, counted, leaked, samples>>

\* cpu_freq_stat() takes the last descriptor for the statistics and has none for
\* the directory: exit(0).
ExitsWithoutDescriptors ==
    /\ monitor = "power" /\ at = "system"
    /\ MaxFiles - leaked < 2
    /\ at' = "exited"
    /\ UNCHANGED <<procVars, monitor, first, before, after, line, counted, leaked, broken,
                   samples>>

Next ==
    \/ /\ ProcMoves(\/ \E own \in BOOLEAN : Run(own) \/ RunOther(own)
                    \/ Rest \/ OwnIo)
       /\ UNCHANGED <<monitor, at, first, before, after, line, counted, leaked, broken, samples>>
    \/ ReadOwn \/ FirstReading
    \/ PowerSample \/ ResourcesSample
    \/ \E ok \in BOOLEAN : DiskSample(ok)
    \/ ExitsOnFailure \/ ExitsWithoutDescriptors

-----------------------------------------------------------------------------
(* Properties *)

\* The process's processor time of a reading exceeds the system's by no more than
\* what the process ran while it was nice, which sys_runtime leaves out: though the
\* two are read one after the other, no tick is in the process's time alone for
\* having come in between, since the process is read first.
ProcessTimeWithinSystem ==
    monitor # "disk" /\ ~first => before.pid <= before.runtime + proc.niced

\* The lines of power_monitor() and disk_monitor() add up to the last reading:
\* skipped samples and failed reads lose no work and repeat none.  Not so those of
\* resources_monitor(): it writes a rate of 0 where one of the two times has not
\* increased, and moves on past the other.
LinesAddUp ==
    /\ monitor = "power" /\ ~first => \A c \in Counter : counted[c] = before[c]
    /\ monitor = "disk" => counted["bytes"] = after["bytes"]

\* Said of the program, and not what the code does (README, "Findings"):

\* power_monitor.c:250, "check if system support cpu freq counting": the monitor
\* ends the application only if a file or the counter cannot be read.
ExitsOnlyIfBroken == at = "exited" => broken
=============================================================================
