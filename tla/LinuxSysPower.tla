--------------------------- MODULE LinuxSysPower ---------------------------
(***************************************************************************)
(* The connector Linux_sys_power: power estimated from the differences of  *)
(* counters.  The factors and the division by the interval are left out; a *)
(* figure holds the amounts that go into it.  CPU_energy_read() opens a    *)
(* file that it never closes, so that the process runs out of descriptors. *)
(***************************************************************************)
EXTENDS ProcFs, Sequences

CONSTANTS
    Asked,      \* the sets of metrics that a configuration may switch on
    MaxSamples, \* bound: samples taken
    MaxFiles,   \* descriptors the process may have open besides its own
    Garbage     \* what an uninitialised accumulator may hold

VARIABLES
    up,         \* "loaded", "running" or "refused"
    flag,
    events,     \* data->events
    values,     \* data->values: the amounts each figure is computed from
    before,     \* the previous values of the four counters
    after,
    counted,    \* history: what each part adds up to, from the first reading on
    leaked,     \* descriptors CPU_energy_read() has left open
    samples

vars == <<procVars, up, flag, events, values, before, after, counted, leaked, samples>>

Total == "estimated_total_power"
Cpu == "estimated_CPU_power"
Wifi == "estimated_wifi_power"
Memory == "estimated_memory_power"
Disk == "estimated_disk_power"
Part == {Cpu, Wifi, Memory, Disk}
Metric == Part \cup {Total}

Counter == {"energy", "net", "io", "misses"}
Amounts == [Counter -> Int]
FigureType == [of : Metric \cup {"unset"}, is : Amounts]
None == [c \in Counter |-> 0]

\* The counters that go into a part of the power.
Uses(p) ==
    CASE p = Cpu    -> {"energy"}
      [] p = Wifi   -> {"net"}
      [] p = Memory -> {"io", "misses"}
      [] p = Disk   -> {"io"}

\* What the proofs need to know of the constants.
SysPowerAssumption ==
    /\ Asked \subseteq SUBSET Metric /\ Garbage \subseteq Nat
    /\ MaxSamples \in Nat /\ MaxFiles \in Nat

TypeOK ==
    /\ ProcType
    /\ up \in {"loaded", "running", "refused"}
    /\ flag \in SUBSET Metric
    /\ events \in Seq(Metric)
    /\ values \in Seq(FigureType) /\ Len(values) = Len(events)
    /\ before \in [Counter -> Nat] /\ after \in [Counter -> Nat]
    /\ counted \in [Part -> Amounts]
    /\ leaked \in 0 .. MaxFiles
    /\ samples \in 0 .. MaxSamples

Init ==
    /\ ProcInit
    /\ up = "loaded" /\ flag = {}
    /\ events = <<>> /\ values = <<>>
    /\ before = None /\ after = None /\ counted = [p \in Part |-> None]
    /\ leaked = 0 /\ samples = 0

\* Counters that are read when these metrics are switched on.
Read(on) ==
    (IF {Total, Cpu} \cap on # {} THEN {"energy"} ELSE {}) \cup
    (IF {Total, Wifi} \cap on # {} THEN {"net"} ELSE {}) \cup
    (IF {Total, Memory, Disk} \cap on # {} THEN {"io", "misses"} ELSE {})

LeakedBy(on) == IF "energy" \in Read(on) THEN Min({leaked + 1, MaxFiles}) ELSE leaked

\* CPU_energy_read() needs a descriptor for cpu0's statistics, which it keeps,
\* one for the directory and one for each processor's statistics.
CpuEnergy == IF MaxFiles - leaked >= 3 THEN proc.energy ELSE 0

\* memory_counter_read() adds to a variable it has not set.
MemoryCounter(garbage) == (garbage + proc.misses) % Modulus

\* NET_stat_read(): wireless only; `old` stays when the file cannot be opened.
NetBytes(free, old) == IF free >= 1 THEN proc.net["wlan"] % Modulus ELSE old

\* sys_IO_stat_read(): with a descriptor for /proc and none for the processes'
\* files the sum is 0.
IoBytes(free, old) == CASE free >= 2 -> IoTotal [] free = 1 -> 0 [] OTHER -> old

\* What reading a counter gives with so many descriptors left.
Shows(c, free, old, garbage) ==
    CASE c = "energy" -> CpuEnergy
      [] c = "net"    -> NetBytes(free, old.net)
      [] c = "io"     -> IoBytes(free, old.io)
      [] c = "misses" -> MemoryCounter(garbage)

\* The counters of the metrics in `on`, read in the order of the code.
Reading(on, old, garbage) ==
    [c \in Counter |-> IF c \in Read(on)
                          THEN Shows(c, MaxFiles - LeakedBy(on), old, garbage) ELSE old[c]]

\* Memory and disk have both or neither of their slots.
MemoryAndDisk(on) == IF {Memory, Disk} \cap on # {} THEN <<Memory, Disk>> ELSE <<>>

IfOn(m, on) == IF m \in on THEN <<m>> ELSE <<>>

Events(on) == IfOn(Total, on) \o IfOn(Cpu, on) \o IfOn(Wifi, on) \o MemoryAndDisk(on)

\* Only unknown metrics are switched on.
InitFails ==
    /\ up = "loaded"
    /\ up' = "refused"
    /\ UNCHANGED <<flag, events, values, before, after, counted, leaked, samples>>

InitSucceeds(on) ==
    /\ up = "loaded"
    /\ up' = "running"
    /\ flag' = on
    /\ events' = Events(on)
    /\ values' = [i \in DOMAIN events' |-> [of |-> "unset", is |-> None]]
    /\ \E garbage \in Garbage : before' = Reading(on, None, garbage)
    /\ counted' = [p \in Part |-> [c \in Counter |-> IF c \in Uses(p) THEN before'[c] ELSE 0]]
    /\ leaked' = LeakedBy(on)
    /\ UNCHANGED <<after, samples>>

\* The increase of a counter; that of the energy is a float.
Increase(c, now, prev) ==
    IF c = "energy" THEN now[c] - prev[c] ELSE Minus(now[c], prev[c])

\* The statements of a sample on s, the previous values and the parts so far: one
\* part computed from the previous values as they are then, and a previous value
\* moved on.
Compute(s, p, now) ==
    [s EXCEPT !.part[p] =
        [c \in Counter |-> IF c \in Uses(p) THEN Increase(c, now, s.prev) ELSE 0]]

MoveOn(s, c, now) == [s EXCEPT !.prev[c] = now[c]]

\* ecpu; emem, which leaves the previous traffic alone; sys_net_energy() and
\* sys_disk_energy(), which move it on.
CpuPart(s, now) == MoveOn(Compute(s, Cpu, now), "energy", now)
MemoryPart(s, now) == MoveOn(Compute(s, Memory, now), "misses", now)
WifiPart(s, now) == MoveOn(Compute(s, Wifi, now), "net", now)
DiskPart(s, now) == MoveOn(Compute(s, Disk, now), "io", now)

Start == [prev |-> before, part |-> [p \in Part |-> None]]

\* The two branches of mf_Linux_sys_power_sample(): with the total, all parts and
\* then the slots; without it, each part and its slot.
\* Fault: without the total, the disk's part is computed before the memory's.
Computed_DiskFirst(now) ==
    LET s1 == IF Cpu \in flag THEN CpuPart(Start, now) ELSE Start
        s2 == IF Wifi \in flag THEN WifiPart(s1, now) ELSE s1
    IN  IF Total \in flag
          THEN DiskPart(WifiPart(MemoryPart(CpuPart(Start, now), now), now), now)
        ELSE IF {Memory, Disk} \cap flag # {} THEN MemoryPart(DiskPart(s2, now), now)
        ELSE s2

Computed(now) ==
    LET s1 == IF Cpu \in flag THEN CpuPart(Start, now) ELSE Start
        s2 == IF Wifi \in flag THEN WifiPart(s1, now) ELSE s1
    IN  IF Total \in flag
          THEN DiskPart(WifiPart(MemoryPart(CpuPart(Start, now), now), now), now)
        ELSE IF {Memory, Disk} \cap flag # {} THEN DiskPart(MemoryPart(s2, now), now)
        ELSE s2

\* A figure is its part, and the total the sum of the four.
Figure(m, part) ==
    [of |-> m,
     is |-> IF m = Total
              THEN [c \in Counter |->
                       part[Cpu][c] + part[Memory][c] + part[Wifi][c] + part[Disk][c]]
              ELSE part[m]]

\* The metrics in the order in which mf_Linux_sys_power_sample() fills slots.
\* Fault: memory and disk are filled like the others, each by its own flag.
Filled_OwnFlags == SelectSeq(<<Total, Cpu, Wifi, Memory, Disk>>, LAMBDA m : m \in flag)

Filled == IfOn(Total, flag) \o IfOn(Cpu, flag) \o IfOn(Wifi, flag) \o MemoryAndDisk(flag)

\* What a part adds up to with its next amount, wrapped where the code's is.
Plus(c, sum, amount) == IF c = "energy" THEN sum + amount ELSE (sum + amount) % Modulus

Sample ==
    /\ up = "running" /\ samples < MaxSamples
    /\ samples' = samples + 1
    /\ leaked' = LeakedBy(flag)
    /\ \E garbage \in Garbage : after' = Reading(flag, after, garbage)
    /\ before' = Computed(after').prev
    /\ values' = [i \in DOMAIN values |->
          IF i \in DOMAIN Filled THEN Figure(Filled[i], Computed(after').part) ELSE values[i]]
    /\ counted' = [p \in Part |->
          [c \in Counter |-> Plus(c, counted[p][c], Computed(after').part[p][c])]]
    /\ UNCHANGED <<up, flag, events>>

\* to_json() leaves out what was not asked for and negative figures.  Of the total
\* it tests the sum; the factors of the amounts are left out.
NotNegative(is) == is.energy + is.net + is.io + is.misses >= 0

Json ==
    {<<events[i], values[i]>> : i \in
        {k \in DOMAIN events : /\ events[k] \in {Memory, Disk} => events[k] \in flag
                               /\ NotNegative(values[k].is)}}

Next ==
    \/ /\ ProcMoves(\/ Run(FALSE) \/ \E i \in Interface : Traffic(i)
                    \/ \E p \in Process : DiskIo(p) \/ ProcessEnds(p))
       /\ UNCHANGED <<up, flag, events, values, before, after, counted, leaked, samples>>
    \/ /\ UNCHANGED procVars
       /\ InitFails \/ Sample \/ \E on \in Asked : InitSucceeds(on)

-----------------------------------------------------------------------------
(* Properties *)

\* The report holds the figures that are switched on, each under its own name,
\* and no others, although memory and disk share their slots and the total
\* brings the other counters with it; only negative figures are missing.
ReportsWhatWasAsked ==
    samples > 0 =>
        /\ \A r \in Json : r[1] \in flag /\ r[2].of = r[1]
        /\ \A m \in flag : \E i \in DOMAIN events : events[i] = m /\ values[i].of = m

\* The parts that are computed for these metrics.
PartsOf(on) ==
    IF Total \in on THEN Part
    ELSE (on \cap {Cpu, Wifi}) \cup
         (IF {Memory, Disk} \cap on # {} THEN {Memory, Disk} ELSE {})

\* The amounts of each part so far, from the first reading on, add up to the last
\* reading of each counter that goes into it, negative and wrapped ones included.
\* So it is for the disk traffic, which goes into two parts, the second of which
\* moves the previous traffic on; and for both branches of a sample.
FiguresAddUp ==
    \A p \in PartsOf(flag) : \A c \in Uses(p) :
        counted[p][c] = IF samples = 0 THEN before[c] ELSE after[c]
=============================================================================
