------------------------------ MODULE CpuPerf ------------------------------
(***************************************************************************)
(* The connector CPU_perf: PAPI's counts of instructions on each core.     *)
(* PAPI is external: PAPI_read() returns the events of a core's set in the *)
(* order in which they were added, and PAPI_reset() sets them to 0.  Names *)
(* are given to the events that PAPI_query_event() knows, whether or not   *)
(* PAPI_add_event() then adds them, and values are stored for all three.   *)
(***************************************************************************)
EXTENDS Integers, Sequences

CONSTANTS
    Cores,      \* MAX_CPU_CORES of the configuration
    Machines,   \* processors: their cores, the events PAPI knows and those it adds
    MaxSamples, \* bound: samples taken
    MaxMoves    \* bound: changes of the counters

VARIABLES
    up,         \* "loaded", "created", "running" or "refused"
    available,  \* the processor
    proc,       \* instructions of each kind on each core
    base,       \* where PAPI counts from
    moves,
    events,     \* data->events
    values,     \* data->values, which has room for more than the names
    reported,   \* history: the count at the start and what the reports have added to it
    repeated,   \* history: the part of it that was in an earlier report
    samples

vars == <<up, available, proc, base, moves, events, values, reported, repeated, samples>>

PapiEvents == <<"MFLIPS", "MFLOPS", "MIPS">>
PapiEvent == {PapiEvents[k] : k \in 1 .. 3}
Event == (1 .. Cores) \X PapiEvent

\* The cores that get a set, an event of one of which may fail to be added.
CpuPerfAssumption ==
    /\ Cores \in Nat
    /\ Machines \subseteq [cores : 0 .. Cores, offered : SUBSET PapiEvent, added : SUBSET Event]
    /\ \A m \in Machines : \A e \in m.added : e[1] <= m.cores /\ e[2] \in m.offered
    /\ MaxSamples \in Nat /\ MaxMoves \in Nat

\* A figure and where PAPI had it from; "none" is memory that was not written.
Figure == [of : Event \cup {<<0, "none">>}, n : Int]
Nothing == [of |-> <<0, "none">>, n |-> 0]

TypeOK ==
    /\ up \in {"loaded", "created", "running", "refused"}
    /\ available \in Machines
    /\ proc \in [Event -> Nat] /\ base \in [Event -> Nat]
    /\ moves \in 0 .. MaxMoves
    /\ events \in Seq(Event) /\ Len(events) <= 3 * Cores
    /\ values \in [1 .. 3 * Cores -> Figure]
    /\ reported \in [Event -> Int] /\ repeated \in [Event -> Int]
    /\ samples \in 0 .. MaxSamples

Init ==
    /\ up = "loaded"
    /\ available \in Machines
    /\ proc = [e \in Event |-> 1] /\ base = [e \in Event |-> 1]
    /\ moves = 0
    /\ events = <<>>
    /\ values = [i \in 1 .. 3 * Cores |-> Nothing]
    /\ reported = [e \in Event |-> 0] /\ repeated = [e \in Event |-> 0]
    /\ samples = 0

\* Instructions are executed.
Executes(e) ==
    /\ moves < MaxMoves
    /\ moves' = moves + 1
    /\ proc' = [proc EXCEPT ![e] = @ + 1]
    /\ UNCHANGED <<up, available, base, events, values, reported, repeated, samples>>

\* No known metric, no library, or an event set that cannot be set up.
InitFails ==
    /\ up \in {"loaded", "created"}
    /\ up' = "refused"
    /\ UNCHANGED <<available, proc, base, moves, events, values, reported, repeated, samples>>

\* Some of the events, in the order in which the code goes through the three.
IfIn(e, some) == IF e \in some THEN <<e>> ELSE << >>
InOrder(some) == IfIn("MFLIPS", some) \o IfIn("MFLOPS", some) \o IfIn("MIPS", some)

\* The events that get a name, the same on each core, and those of one core's set:
\* PAPI_add_event()'s result is not looked at.
Offered == InOrder(available.offered)
AddedTo(core) == InOrder({e \in PapiEvent : <<core, e>> \in available.added})
Set(core) == [k \in DOMAIN AddedTo(core) |-> <<core, AddedTo(core)[k]>>]

\* The sets are filled and the names made, core by core.  load_papi_library() has
\* lowered the number of cores to the processor's, for this function only.
CreateSets ==
    /\ up = "loaded"
    /\ up' = "created"
    /\ events' = [i \in 1 .. available.cores * Len(Offered) |->
                     <<(i - 1) \div Len(Offered) + 1, Offered[((i - 1) % Len(Offered)) + 1]>>]
    /\ UNCHANGED <<available, proc, base, moves, values, reported, repeated, samples>>

\* PAPI_start() on every core; an empty set cannot be started.
StartCounting ==
    /\ up = "created"
    /\ \A core \in 1 .. available.cores : AddedTo(core) # << >>
    /\ up' = "running"
    /\ base' = proc
    /\ reported' = proc
    /\ UNCHANGED <<available, proc, moves, events, values, repeated, samples>>

\* What PAPI_read() leaves in values[] for a core.
PapiRead(core, k) ==
    IF k \in DOMAIN Set(core)
       THEN LET e == Set(core)[k] IN [of |-> e, n |-> proc[e] - base[e]]
       ELSE Nothing

\* The place of a core's k-th value.
Slot(core, k) == 3 * (core - 1) + k

\* PAPI_reset(), on each of the cores that have been read.
\* Fault: only on the last of them.
ResetCores_Last(read) ==
    base' = [e \in Event |-> IF e[1] = read THEN proc[e] ELSE base[e]]

ResetCores(read) ==
    base' = [e \in Event |-> IF e[1] <= read THEN proc[e] ELSE base[e]]

\* What to_json() prints of an event: figures that have a name.
Places(e, figures) == {i \in DOMAIN events : figures[i].of = e}
Printed(e, figures) ==
    IF Places(e, figures) = {} THEN 0 ELSE figures[CHOOSE i \in Places(e, figures) : TRUE].n

\* The hook reads the cores and prints.  The cores 1 .. read have been read when
\* PAPI_read() fails for the next one, or all of them.  The hook asks for as many
\* cores as are configured: past the processor's it reads no set, and fails.  It does
\* not look at the result, and prints the old figures of the other cores again.
Sample(read) ==
    /\ up = "running" /\ samples < MaxSamples
    /\ read <= available.cores
    /\ samples' = samples + 1
    /\ values' = [i \in DOMAIN values |->
          IF \E core \in 1 .. read, k \in 1 .. 3 : Slot(core, k) = i
             THEN LET at == CHOOSE c \in (1 .. read) \X (1 .. 3) : Slot(c[1], c[2]) = i
                  IN PapiRead(at[1], at[2])
             ELSE values[i]]
    /\ reported' = [e \in Event |-> reported[e] + Printed(e, values')]
    /\ repeated' = [e \in Event |->
          IF e[1] > read THEN repeated[e] + Printed(e, values') ELSE repeated[e]]
    /\ ResetCores(read)
    /\ UNCHANGED <<up, available, proc, moves, events>>

Next ==
    \/ \E e \in Event : Executes(e)
    \/ InitFails \/ CreateSets \/ StartCounting
    \/ \E read \in 0 .. Cores : Sample(read)

-----------------------------------------------------------------------------
(* Properties *)

\* Every event has a name on every core of the processor and is in its set.
Complete ==
    available.offered = PapiEvent /\ available.added = (1 .. available.cores) \X PapiEvent

\* What is offered is in the set of the first core.
FirstAdded == \A e \in available.offered : <<1, e>> \in available.added

\* Where all three events are offered and added, every figure is one of the core
\* and event whose name it stands under; where only some are, that can be said of
\* the first core, if they were added there.
CountersUnderTheirNames ==
    \A i \in DOMAIN events :
        Complete \/ (FirstAdded /\ events[i][1] = 1) =>
            values[i].of \in {events[i], Nothing.of}

\* Where all three events are offered and added: the reports, without the figures
\* they repeat when PAPI_read() has failed, and what PAPI has counted since, add up
\* to what the core has executed.
InstructionsCountedOnce ==
    up = "running" /\ Complete =>
        \A e \in Event : e[1] <= available.cores =>
            reported[e] - repeated[e] + (proc[e] - base[e]) = proc[e]
=============================================================================
