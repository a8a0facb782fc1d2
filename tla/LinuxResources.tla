--------------------------- MODULE LinuxResources ---------------------------
(***************************************************************************)
(* The connector Linux_resources: rates of use and throughputs, from the   *)
(* differences of counters between two samples.  The time of the previous  *)
(* sample always moves on (before_time := after_time), so an interval is   *)
(* left out here; whether the counters' previous values move with it is    *)
(* what matters.                                                           *)
(***************************************************************************)
EXTENDS ProcFs, Sequences

CONSTANTS
    Asked,      \* the sets of metrics that a configuration may switch on
    MaxSamples, \* bound: samples taken
    Unset       \* a slot of data->values that was never written

VARIABLES
    up,         \* "loaded", "running" or "refused"
    flag,       \* the metrics that are switched on
    events,     \* data->events
    values,     \* data->values
    before,
    after,
    reported,   \* history: the first reading and what the reports have added to it
    repeated,   \* history: the part of it that was in an earlier report
    fine,       \* history: the counters the last sample could read
    samples

vars == <<procVars, up, flag, events, values, before, after, reported, repeated, fine,
          samples>>

Order == <<"CPU", "RAM", "swap", "net", "io">>
Metric == {Order[i] : i \in 1 .. 5}
Bytes == {"net", "io"}

Stats == [total : Nat, idle : Nat, net : Nat, io : Nat]
Zero == [total |-> 0, idle |-> 0, net |-> 0, io |-> 0]
Figure == [of : Metric, amount : Nat, per : Nat]

\* What the proofs need to know of the constants; no counter goes around, and an
\* unwritten slot is no figure.
ResourcesAssumption ==
    /\ Asked \subseteq SUBSET Metric /\ MaxSamples \in Nat
    /\ MaxMoves + 2 < Modulus /\ Unset \notin Figure

TypeOK ==
    /\ ProcType
    /\ up \in {"loaded", "running", "refused"}
    /\ flag \in SUBSET Metric
    /\ events \in Seq(Metric)
    /\ values \in Seq(Figure \cup {Unset}) /\ Len(values) = Len(events)
    /\ before \in Stats /\ after \in Stats
    /\ reported \in [Bytes -> Nat] /\ repeated \in [Bytes -> Nat]
    /\ fine \in SUBSET Bytes
    /\ samples \in 0 .. MaxSamples

Init ==
    /\ ProcInit
    /\ up = "loaded" /\ flag = {}
    /\ events = <<>> /\ values = <<>>
    /\ before = Zero /\ after = Zero
    /\ reported = [b \in Bytes |-> 0] /\ repeated = [b \in Bytes |-> 0]
    /\ fine = {} /\ samples = 0

\* CPU_stat_read(), NET_stat_read() and sys_IO_stat_read() into `old`; a file
\* that cannot be opened leaves the old values.
Read(old, readable) ==
    [total |-> IF "CPU" \in readable THEN proc.busy + proc.other + proc.idle ELSE old.total,
     idle  |-> IF "CPU" \in readable THEN proc.idle ELSE old.idle,
     net   |-> IF "net" \in readable THEN (proc.net["eth"] + proc.net["wlan"]) % Modulus
                                     ELSE old.net,
     io    |-> IF "io" \in readable THEN IoTotal ELSE old.io]

\* Fault: the operands of the subtraction are swapped.
UsageRate_Swapped(found) == IF found /\ proc.free > 0 THEN proc.free - MemTotal ELSE 0

\* RAM_usage_rate_read(), swap_usage_rate_read(): 0 also when nothing is free or
\* nothing is found.  That is so when the file cannot be opened, and when the
\* product of the two numbers, an int, comes to 0.
UsageRate(found) == IF found /\ proc.free > 0 THEN MemTotal - proc.free ELSE 0

\* Only unknown metrics are switched on.
InitFails ==
    /\ up = "loaded"
    /\ up' = "refused"
    /\ UNCHANGED <<flag, events, values, before, after, reported, repeated, fine, samples>>

\* The names in the order of the code's tests.
IfAsked(m, asked) == IF m \in asked THEN <<m>> ELSE <<>>

Events(asked) ==
    IfAsked("CPU", asked) \o IfAsked("RAM", asked) \o IfAsked("swap", asked)
        \o IfAsked("net", asked) \o IfAsked("io", asked)

InitSucceeds(asked, readable) ==
    /\ up = "loaded"
    /\ up' = "running"
    /\ flag' = asked
    /\ events' = Events(asked)
    /\ values' = [i \in DOMAIN events' |-> Unset]
    /\ before' = Read(Zero, readable)
    /\ reported' = [b \in Bytes |-> before'[b]]
    /\ UNCHANGED <<after, repeated, fine, samples>>

\* The slot that mf_Linux_resources_sample() has counted up to at metric m.
\* Fault: the counter is not advanced past RAM.
Slot_SkipsRam(m) ==
    Cardinality({k \in 1 .. 5 : Order[k] \in flag \ {"RAM"} /\ \E l \in k .. 5 : Order[l] = m})

Slot(m) ==
    Cardinality({k \in 1 .. 5 : Order[k] \in flag /\ \E l \in k .. 5 : Order[l] = m})

\* The metrics whose counters have increased since their previous values.
Increased(now) ==
    {m \in flag : \/ m = "CPU" /\ now.total > before.total
                  \/ m \in Bytes /\ Minus(now[m], before[m]) > 0}

FigureOf(m, now, readable) ==
    CASE m = "CPU" ->
            [of |-> m, per |-> Minus(now.total, before.total),
             amount |-> Minus(Minus(now.total, before.total), Minus(now.idle, before.idle))]
      [] m \in Bytes -> [of |-> m, per |-> 1, amount |-> Minus(now[m], before[m])]
      [] OTHER -> [of |-> m, per |-> MemTotal, amount |-> UsageRate(m \in readable)]

\* Fault: the previous traffic stays what it was.
Advance_KeepsNet(now, up_to) ==
    [total |-> IF "CPU" \in up_to THEN now.total ELSE before.total,
     idle  |-> IF "CPU" \in up_to THEN now.idle ELSE before.idle,
     net   |-> before.net,
     io    |-> IF "io" \in up_to THEN now.io ELSE before.io]

\* Fault: the previous idle time stays what it was.
Advance_KeepsIdle(now, up_to) ==
    [total |-> IF "CPU" \in up_to THEN now.total ELSE before.total,
     idle  |-> before.idle,
     net   |-> IF "net" \in up_to THEN now.net ELSE before.net,
     io    |-> IF "io" \in up_to THEN now.io ELSE before.io]

Advance(now, up_to) ==
    [total |-> IF "CPU" \in up_to THEN now.total ELSE before.total,
     idle  |-> IF "CPU" \in up_to THEN now.idle ELSE before.idle,
     net   |-> IF "net" \in up_to THEN now.net ELSE before.net,
     io    |-> IF "io" \in up_to THEN now.io ELSE before.io]

\* What to_json() prints for a metric; memory that was not written counts for
\* nothing.
Printed(m, figures) ==
    IF m \in flag /\ figures[Slot(m)] # Unset THEN figures[Slot(m)].amount ELSE 0

\* The hook samples and prints.  A metric that has not increased keeps the figure
\* of an earlier sample, which is printed again.
Sample(readable) ==
    /\ up = "running" /\ samples < MaxSamples
    /\ samples' = samples + 1
    /\ LET now == Read(after, readable)
           up_to == Increased(now)
           written == up_to \cup (flag \cap {"RAM", "swap"})
       IN /\ after' = now
          /\ before' = Advance(now, up_to)
          /\ values' = [i \in DOMAIN values |->
                 IF \E m \in written : Slot(m) = i
                    THEN FigureOf(CHOOSE m \in written : Slot(m) = i, now, readable)
                    ELSE values[i]]
          /\ reported' = [b \in Bytes |-> reported[b] + Printed(b, values')]
          /\ repeated' = [b \in Bytes |->
                 IF b \in up_to THEN repeated[b] ELSE repeated[b] + Printed(b, values')]
    /\ fine' = readable \cap Bytes
    /\ UNCHANGED <<up, flag, events>>

Next ==
    \/ /\ ProcMoves(\/ Run(FALSE) \/ Rest \/ MemoryChanges
                    \/ \E i \in Interface : Traffic(i)
                    \/ \E p \in Process : DiskIo(p) \/ ProcessEnds(p))
       /\ UNCHANGED <<up, flag, events, values, before, after, reported, repeated, fine, samples>>
    \/ /\ UNCHANGED procVars
       /\ \/ InitFails
          \/ \E asked \in Asked :
                \E readable \in SUBSET (asked \cap {"CPU", "net", "io"}) :
                    InitSucceeds(asked, readable)
          \/ \E readable \in SUBSET flag : Sample(readable)

-----------------------------------------------------------------------------
(* Properties *)

\* mf_Linux_resources_init() and _sample() count their slots apart: every
\* figure is the one of the name that to_json() prints before it.
FiguresInTheirSlots ==
    \A i \in DOMAIN values : values[i] # Unset => values[i].of = events[i]

\* Whenever a counter could be read, the figures reported so far, without those
\* that to_json() has printed once more because nothing was added to them, add up to
\* the counter: neither failed reads, intervals without traffic nor wrapped
\* differences make a byte be missing or be in two new figures.
TrafficCountedOnce ==
    \A b \in fine : (reported[b] - repeated[b]) % Modulus = after[b]

\* CPU_usage_rate lies between 0 and 100 although total and idle time are
\* subtracted as unsigned numbers.
CpuRateIsPercentage ==
    \A i \in DOMAIN values :
        values[i] # Unset /\ events[i] = "CPU" => values[i].amount <= values[i].per
=============================================================================
