----------------------------- MODULE RaplPower -----------------------------
(***************************************************************************)
(* The connector RAPL_power: the energy of packages and memories, counted  *)
(* by PAPI.  PAPI and the hardware are external.  PAPI_read() returns the  *)
(* events that could be added, in the order in which they were; the        *)
(* results of PAPI_add_named_event() are ignored, and rapl_stat_read()     *)
(* takes the values to be package and memory of each socket in turn.       *)
(***************************************************************************)
EXTENDS Integers, SequencesExt

CONSTANTS
    Sockets,    \* number of sockets, at most the 4 the arrays have room for
    Requests,   \* the orders in which a configuration switches metrics on
    MaxSamples, \* bound: samples taken
    MaxMoves,   \* bound: changes of the energy counters
    Garbage     \* what memory that was not written may hold

\* rapl_init() refuses a machine without sockets.
RaplAssumption ==
    /\ Sockets \in Nat \ {0}
    /\ Requests \subseteq Seq({"total_power", "dram_power"})
    /\ MaxSamples \in Nat /\ MaxMoves \in Nat
    /\ Garbage \subseteq Int

VARIABLES
    up,         \* "loaded", "started", "running", "refused" or "crashed"
    machine,    \* memory energy is offered; PAPI_reset() sets the counters to 0
    proc,       \* energy used, of each package and memory
    base,       \* where PAPI counts from
    moves,
    events,     \* data->events
    values,     \* data->values
    before,
    after,
    counted,    \* history: what the figures of an event add up to
    fine,       \* history: the last sample could read the counters
    samples

vars == <<up, machine, proc, base, moves, events, values, before, after, counted, fine, samples>>

Domain == {"package", "dram"}
Event == Domain \X (1 .. Sockets)
Metric == {"total_power", "dram_power"}
DomainOf(m) == IF m = "total_power" THEN "package" ELSE "dram"

\* A reading is a number and where PAPI had it from.
Reading == [of : Event \cup {<<"none", 0>>}, n : Int]
Nothing == [of |-> <<"none", 0>>, n |-> 0]

TypeOK ==
    /\ up \in {"loaded", "started", "running", "refused", "crashed"}
    /\ machine \in [dram : BOOLEAN, resets : BOOLEAN]
    /\ proc \in [Event -> Nat] /\ base \in [Event -> Nat]
    /\ moves \in 0 .. MaxMoves
    /\ events \in Seq(Event)
    /\ values \in Seq(Reading) /\ Len(values) = Len(events)
    /\ before \in [Event -> Reading] /\ after \in [Event -> Reading]
    /\ counted \in [Event -> Int]
    /\ fine \in BOOLEAN
    /\ samples \in 0 .. MaxSamples

Init ==
    /\ up = "loaded"
    /\ machine \in [dram : BOOLEAN, resets : BOOLEAN]
    /\ proc = [e \in Event |-> 1] /\ base = [e \in Event |-> 1]
    /\ moves = 0
    /\ events = <<>> /\ values = <<>>
    /\ before = [e \in Event |-> Nothing] /\ after = [e \in Event |-> Nothing]
    /\ counted = [e \in Event |-> 0]
    /\ fine = FALSE
    /\ samples = 0

\* The machine uses energy.
Uses(e) ==
    /\ moves < MaxMoves
    /\ moves' = moves + 1
    /\ proc' = [proc EXCEPT ![e] = @ + 1]
    /\ UNCHANGED <<up, machine, base, events, values, before, after, counted, fine, samples>>

\* The events that rapl_init() asks for, socket by socket, and those that PAPI
\* adds: all of them, or those of the packages.
Wanted ==
    [i \in 1 .. 2 * Sockets |->
        <<IF i % 2 = 1 THEN "package" ELSE "dram", (i + 1) \div 2>>]

Added == IF machine.dram THEN Wanted ELSE [s \in 1 .. Sockets |-> <<"package", s>>]

\* Where rapl_stat_read() looks for an event in the values of PAPI_read().
Place(e) == IF e[1] = "package" THEN 2 * e[2] - 1 ELSE 2 * e[2]

\* A place beyond the events that were added was never written.
StatRead(garbage) ==
    [e \in Event |->
        IF Place(e) \in DOMAIN Added
           THEN LET a == Added[Place(e)] IN [of |-> a, n |-> proc[a] - base[a]]
           ELSE [of |-> <<"none", 0>>, n |-> garbage]]

\* PAPI_reset() after the counters have been read.
Reset == base' = IF machine.resets THEN proc ELSE base

\* The library, the component, the sockets or the event set are not available,
\* or no known metric is switched on.
InitFails ==
    /\ up = "loaded"
    /\ up' = "refused"
    /\ UNCHANGED <<machine, proc, base, moves, events, values, before, after, counted, fine,
                   samples>>

\* rapl_init() ends with PAPI_start().
Start(request) ==
    /\ up = "loaded"
    /\ up' = "started"
    /\ base' = proc
    /\ events' = [i \in 1 .. Len(request) * Sockets |->
                     <<DomainOf(request[(i - 1) \div Sockets + 1]), ((i - 1) % Sockets) + 1>>]
    /\ values' = [i \in DOMAIN events' |-> Nothing]
    /\ UNCHANGED <<machine, proc, moves, before, after, counted, fine, samples>>

\* The first reading of mf_RAPL_power_init(), whose result is ignored.
FirstReading(ok, garbage) ==
    /\ up = "started"
    /\ up' = "running"
    /\ before' = IF ok THEN StatRead(garbage) ELSE before
    /\ IF ok THEN Reset ELSE UNCHANGED base
    /\ counted' = [e \in Event |-> before'[e].n]
    /\ UNCHANGED <<machine, proc, moves, events, values, after, fine, samples>>

\* Fault: the previous energies move only when the read failed.
Advance_OnError(ok) ==
    before' = [e \in Event |-> IF ~ok /\ Contains(events, e) THEN after'[e] ELSE before[e]]

Advance(ok) ==
    before' = [e \in Event |-> IF Contains(events, e) THEN after'[e] ELSE before[e]]

\* When the read fails, the figures are computed from what was read before.
Sample(ok, garbage) ==
    /\ up = "running" /\ samples < MaxSamples
    /\ samples' = samples + 1
    /\ fine' = ok
    /\ after' = IF ok THEN StatRead(garbage) ELSE after
    /\ IF ok THEN Reset ELSE UNCHANGED base
    /\ values' = [i \in DOMAIN events |->
          LET e == events[i] IN [of |-> after'[e].of, n |-> after'[e].n - before[e].n]]
    /\ counted' = [e \in Event |->
          IF Contains(events, e) THEN counted[e] + after'[e].n - before[e].n ELSE counted[e]]
    /\ Advance(ok)
    /\ UNCHANGED <<up, machine, proc, moves, events>>

\* Behind the figures of a total_power metric the loop looks at the next name,
\* also where there is none: data->events[num_events] was never written.  Unless it
\* happens to be NULL or to point to something that can be read, the agent dies.
SampleCrashes ==
    /\ up = "running" /\ samples < MaxSamples
    /\ Len(events) > 0 /\ events[Len(events)][1] = "package"
    /\ up' = "crashed"
    /\ UNCHANGED <<machine, proc, base, moves, events, values, before, after, counted, fine,
                   samples>>

Next ==
    \/ \E e \in Event : Uses(e)
    \/ InitFails \/ SampleCrashes
    \/ \E request \in Requests : Start(request)
    \/ \E ok \in BOOLEAN, garbage \in Garbage : FirstReading(ok, garbage) \/ Sample(ok, garbage)

-----------------------------------------------------------------------------
(* Properties *)

\* Where every event could be added, a figure comes from the package or memory
\* it is reported for: events are added, read, named and reported in four
\* loops that count separately.
FiguresInTheirSlots ==
    machine.dram => \A i \in DOMAIN values : values[i].of \in {events[i], Nothing.of}

\* As long as PAPI_reset() does not touch these counters, the figures of an
\* event add up to the energy used between the start and the last reading,
\* whatever reads have failed in between.
EnergyCountedOnce ==
    machine.dram /\ ~machine.resets /\ fine =>
        \A i \in DOMAIN events : counted[events[i]] = after[events[i]].n
=============================================================================
