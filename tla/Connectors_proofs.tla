-------------------------- MODULE Connectors_proofs -------------------------
(***************************************************************************)
(* Proofs about connectors and about the monitors of the client library,   *)
(* for any number of samples and changes of the counters.  Each has an     *)
(* invariant and lemmas of its own, which assume of the constants what its *)
(* module names; the last section puts them together.                      *)
(***************************************************************************)
EXTENDS Connectors, SequenceTheorems, FiniteSetTheorems, WellFoundedInduction, TLAPS

-----------------------------------------------------------------------------
(* RAPL_power *)

\* Where memory energy is offered, a reading is its own or none was made.
RaplPlaced ==
    machine.dram =>
        /\ \A e \in RP!Event : after[e].of \in {e, RP!Nothing.of}
        /\ RP!FiguresInTheirSlots

\* What an event's figures add up to is the previous energy, which a sample
\* moves on to the one it has read.
RaplTelescope ==
    /\ \A e \in RP!Event : counted[e] = before[e].n
    /\ up \notin {"running", "crashed"} => ~fine
    /\ fine => \A i \in DOMAIN events : before[events[i]] = after[events[i]]

RaplInv == RP!TypeOK /\ RaplPlaced /\ RaplTelescope

\* The values that PAPI_read() returns are those of the machine's events, at
\* their own places when all events could be added.
LEMMA StatReadCorrect ==
    ASSUME RP!RaplAssumption, RP!TypeOK, NEW garbage \in Garbage
    PROVE  /\ RP!StatRead(garbage) \in [RP!Event -> RP!Reading]
           /\ machine.dram => \A e \in RP!Event : RP!StatRead(garbage)[e].of = e
<1>1. /\ Sockets \in Nat \ {0} /\ garbage \in Int
      /\ proc \in [RP!Event -> Nat] /\ base \in [RP!Event -> Nat]
      /\ machine.dram \in BOOLEAN
  BY DEF RP!RaplAssumption, RP!TypeOK
<1>2. ASSUME NEW k \in DOMAIN RP!Added
      PROVE  RP!Added[k] \in RP!Event
  <2>1. CASE machine.dram
    <3>1. /\ k \in 1 .. 2 * Sockets
          /\ RP!Added[k] = <<IF k % 2 = 1 THEN "package" ELSE "dram", (k + 1) \div 2>>
      BY <1>1, <1>2, <2>1 DEF RP!Added, RP!Wanted
    <3>2. (k + 1) \div 2 \in 1 .. Sockets
      BY <1>1, <3>1
    <3> QED
      BY <3>1, <3>2 DEF RP!Event, RP!Domain
  <2>2. CASE ~machine.dram
    <3>1. k \in 1 .. Sockets /\ RP!Added[k] = <<"package", k>>
      BY <1>1, <1>2, <2>2 DEF RP!Added
    <3> QED
      BY <3>1 DEF RP!Event, RP!Domain
  <2> QED
    BY <2>1, <2>2
<1>3. ASSUME NEW e \in RP!Event
      PROVE  /\ RP!StatRead(garbage)[e] \in RP!Reading
             /\ machine.dram => RP!StatRead(garbage)[e].of = e
  <2>1. CASE RP!Place(e) \in DOMAIN RP!Added
    <3> DEFINE a == RP!Added[RP!Place(e)]
    <3>1. RP!StatRead(garbage)[e] = [of |-> a, n |-> proc[a] - base[a]]
      BY <2>1 DEF RP!StatRead
    <3>2. a \in RP!Event /\ proc[a] - base[a] \in Int
      BY <1>1, <1>2, <2>1
    <3>3. ASSUME machine.dram PROVE a = e
      <4>1. PICK d \in {"package", "dram"}, s \in 1 .. Sockets : e = <<d, s>>
        BY DEF RP!Event, RP!Domain
      <4>2. a = <<IF RP!Place(e) % 2 = 1 THEN "package" ELSE "dram", (RP!Place(e) + 1) \div 2>>
        BY <2>1, <3>3 DEF RP!Added, RP!Wanted
      <4>3. CASE d = "package"
        <5>1. RP!Place(e) = 2 * s - 1
          BY <4>1, <4>3 DEF RP!Place
        <5>2. (2 * s - 1) % 2 = 1 /\ ((2 * s - 1) + 1) \div 2 = s
          BY <1>1
        <5> QED
          BY <4>1, <4>2, <4>3, <5>1, <5>2
      <4>4. CASE d = "dram"
        <5>1. RP!Place(e) = 2 * s
          BY <4>1, <4>4 DEF RP!Place
        <5>2. (2 * s) % 2 # 1 /\ (2 * s + 1) \div 2 = s
          BY <1>1
        <5> QED
          BY <4>1, <4>2, <4>4, <5>1, <5>2
      <4> QED
        BY <4>1, <4>3, <4>4
    <3> QED
      BY <3>1, <3>2, <3>3 DEF RP!Reading
  <2>2. CASE RP!Place(e) \notin DOMAIN RP!Added
    <3>1. RP!StatRead(garbage)[e] = [of |-> <<"none", 0>>, n |-> garbage]
      BY <2>2 DEF RP!StatRead
    <3>2. ~machine.dram
      <4> SUFFICES ASSUME machine.dram PROVE RP!Place(e) \in 1 .. 2 * Sockets
        BY <2>2 DEF RP!Added, RP!Wanted
      <4>1. PICK d \in {"package", "dram"}, s \in 1 .. Sockets : e = <<d, s>>
        BY DEF RP!Event, RP!Domain
      <4> QED
        BY <1>1, <4>1 DEF RP!Place
    <3> QED
      BY <1>1, <3>1, <3>2 DEF RP!Reading
  <2> QED
    BY <2>1, <2>2
<1> QED
  BY <1>3 DEF RP!StatRead

\* Before the plug-in is initialised.
LEMMA RaplInitInv ==
    ASSUME RP!RaplAssumption
    PROVE  RP!Init => RaplInv
<1> SUFFICES ASSUME RP!Init PROVE RaplInv
  OBVIOUS
<1>1. RP!Nothing \in RP!Reading
  BY DEF RP!Nothing, RP!Reading
<1>2. << >> \in Seq(RP!Event) /\ << >> \in Seq(RP!Reading)
  OBVIOUS
<1>3. RP!TypeOK
  <2>1. /\ up \in {"loaded", "started", "running", "refused"}
        /\ machine \in [dram : BOOLEAN, resets : BOOLEAN]
        /\ proc \in [RP!Event -> Nat] /\ base \in [RP!Event -> Nat]
        /\ fine \in BOOLEAN
    BY DEF RP!Init
  <2>4. moves \in 0 .. MaxMoves /\ samples \in 0 .. MaxSamples
    BY DEF RP!RaplAssumption, RP!Init
  <2>2. /\ before \in [RP!Event -> RP!Reading] /\ after \in [RP!Event -> RP!Reading]
        /\ counted \in [RP!Event -> Int]
    BY <1>1 DEF RP!Init
  <2>3. /\ events \in Seq(RP!Event)
        /\ values \in Seq(RP!Reading) /\ Len(values) = Len(events)
    BY <1>2 DEF RP!Init
  <2> QED
    BY <2>1, <2>2, <2>3, <2>4 DEF RP!TypeOK
<1>4. RaplPlaced
  BY DEF RP!Init, RaplPlaced, RP!FiguresInTheirSlots, RP!Nothing
<1>5. RaplTelescope
  BY DEF RP!Init, RaplTelescope, RP!Nothing
<1> QED
  BY <1>3, <1>4, <1>5 DEF RaplInv

\* rapl_init() gives every socket an event for each metric asked for.
LEMMA RaplStart ==
    ASSUME RP!RaplAssumption, RaplInv, NEW request \in Requests, RP!Start(request)
    PROVE  RaplInv'
<1>1. /\ RP!TypeOK /\ RaplPlaced /\ RaplTelescope
      /\ Sockets \in Nat \ {0} /\ Len(request) \in Nat
      /\ proc \in [RP!Event -> Nat]
  BY DEF RaplInv, RP!RaplAssumption, RP!TypeOK
<1>2. /\ up = "loaded" /\ up' = "started" /\ base' = proc
      /\ values' = [i \in DOMAIN events' |-> RP!Nothing]
      /\ UNCHANGED <<machine, proc, moves, before, after, counted, fine, samples>>
  BY DEF RP!Start
<1> DEFINE n == Len(request) * Sockets
<1>3. n \in Nat
  BY <1>1
<1>4. ASSUME NEW i \in 1 .. n
      PROVE  <<RP!DomainOf(request[(i - 1) \div Sockets + 1]),
               ((i - 1) % Sockets) + 1>> \in RP!Event
  <2>1. i - 1 \in Int /\ (i - 1) % Sockets \in 0 .. Sockets - 1
    BY <1>1, <1>3
  <2>2. ((i - 1) % Sockets) + 1 \in 1 .. Sockets
    BY <1>1, <2>1
  <2>3. \A m : RP!DomainOf(m) \in RP!Domain
    BY DEF RP!DomainOf, RP!Domain
  <2> QED
    BY <2>2, <2>3 DEF RP!Event
<1>5. events' \in Seq(RP!Event) /\ Len(events') = n /\ DOMAIN events' = 1 .. n
  <2>1. events' = [i \in 1 .. n |->
            <<RP!DomainOf(request[(i - 1) \div Sockets + 1]), ((i - 1) % Sockets) + 1>>]
    BY DEF RP!Start
  <2> HIDE DEF n
  <2> QED
    BY <1>3, <1>4, <2>1
<1>6. values' \in Seq(RP!Reading) /\ Len(values') = Len(events') /\ DOMAIN values' = 1 .. n
  <2>1. RP!Nothing \in RP!Reading
    BY DEF RP!Nothing, RP!Reading
  <2> HIDE DEF n
  <2> QED
    BY <1>2, <1>3, <1>5, <2>1
<1>7. RP!TypeOK'
  BY <1>1, <1>2, <1>5, <1>6 DEF RP!TypeOK
<1>8. RaplPlaced'
  BY <1>1, <1>2, <1>5, <1>6 DEF RaplPlaced, RP!FiguresInTheirSlots
<1>9. RaplTelescope'
  BY <1>1, <1>2 DEF RaplTelescope
<1> QED
  BY <1>7, <1>8, <1>9 DEF RaplInv

\* The first reading is what the figures count from, also when it fails.
LEMMA RaplFirstReading ==
    ASSUME RP!RaplAssumption, RaplInv, NEW ok \in BOOLEAN, NEW garbage \in Garbage,
           RP!FirstReading(ok, garbage)
    PROVE  RaplInv'
<1>1. /\ RP!TypeOK /\ RaplPlaced /\ RaplTelescope
      /\ proc \in [RP!Event -> Nat] /\ base \in [RP!Event -> Nat]
      /\ before \in [RP!Event -> RP!Reading]
      /\ RP!StatRead(garbage) \in [RP!Event -> RP!Reading]
  BY StatReadCorrect DEF RaplInv, RP!TypeOK
<1>2. /\ up = "started" /\ up' = "running"
      /\ before' = IF ok THEN RP!StatRead(garbage) ELSE before
      /\ base' \in {proc, base}
      /\ counted' = [e \in RP!Event |-> before'[e].n]
      /\ UNCHANGED <<machine, proc, moves, events, values, after, fine, samples>>
  BY DEF RP!FirstReading, RP!Reset
<1>3. before' \in [RP!Event -> RP!Reading] /\ base' \in [RP!Event -> Nat]
  BY <1>1, <1>2
<1>4. counted' \in [RP!Event -> Int]
  <2>1. \A e \in RP!Event : before'[e].n \in Int
    BY <1>3 DEF RP!Reading
  <2> QED
    BY <1>2, <2>1
<1>5. RP!TypeOK'
  BY <1>1, <1>2, <1>3, <1>4 DEF RP!TypeOK
<1>6. RaplPlaced'
  BY <1>1, <1>2 DEF RaplPlaced, RP!FiguresInTheirSlots
<1>7. RaplTelescope'
  BY <1>1, <1>2 DEF RaplTelescope
<1> QED
  BY <1>5, <1>6, <1>7 DEF RaplInv

\* A sample's figures are the increases of the readings.
LEMMA RaplSample ==
    ASSUME RP!RaplAssumption, RaplInv, NEW ok \in BOOLEAN, NEW garbage \in Garbage,
           RP!Sample(ok, garbage)
    PROVE  RaplInv'
<1>1. /\ RP!TypeOK /\ RaplPlaced /\ RaplTelescope
      /\ proc \in [RP!Event -> Nat] /\ base \in [RP!Event -> Nat]
      /\ before \in [RP!Event -> RP!Reading] /\ after \in [RP!Event -> RP!Reading]
      /\ counted \in [RP!Event -> Int]
      /\ events \in Seq(RP!Event) /\ DOMAIN values = DOMAIN events
      /\ RP!StatRead(garbage) \in [RP!Event -> RP!Reading]
  BY StatReadCorrect DEF RaplInv, RP!TypeOK
<1>2. /\ up = "running" /\ samples < MaxSamples /\ samples' = samples + 1 /\ fine' = ok
      /\ after' = IF ok THEN RP!StatRead(garbage) ELSE after
      /\ base' \in {proc, base}
      /\ UNCHANGED <<up, machine, proc, moves, events>>
  BY DEF RP!Sample, RP!Reset
<1>3. /\ values' = [i \in DOMAIN events |->
             [of |-> after'[events[i]].of, n |-> after'[events[i]].n - before[events[i]].n]]
      /\ counted' = [e \in RP!Event |->
             IF RP!Contains(events, e) THEN counted[e] + after'[e].n - before[e].n
             ELSE counted[e]]
      /\ before' = [e \in RP!Event |-> IF RP!Contains(events, e) THEN after'[e] ELSE before[e]]
  BY DEF RP!Sample, RP!Advance
<1>4. after' \in [RP!Event -> RP!Reading] /\ before' \in [RP!Event -> RP!Reading]
  <2>1. after' \in [RP!Event -> RP!Reading]
    BY <1>1, <1>2
  <2> QED
    BY <1>1, <1>3, <2>1
<1>5. ASSUME NEW e \in RP!Event
      PROVE  /\ after'[e].n \in Int /\ before[e].n \in Int /\ counted[e] = before[e].n
             /\ counted'[e] = before'[e].n /\ counted'[e] \in Int
  <2>1. after'[e].n \in Int /\ before[e].n \in Int /\ counted[e] = before[e].n
    BY <1>1, <1>4 DEF RP!Reading, RaplTelescope
  <2>2. CASE RP!Contains(events, e)
    <3>1. counted'[e] = counted[e] + after'[e].n - before[e].n /\ before'[e] = after'[e]
      BY <1>3, <2>2
    <3> QED
      BY <2>1, <3>1
  <2>3. CASE ~RP!Contains(events, e)
    <3>1. counted'[e] = counted[e] /\ before'[e] = before[e]
      BY <1>3, <2>3
    <3> QED
      BY <2>1, <3>1
  <2> QED
    BY <2>1, <2>2, <2>3
<1>6. /\ values' \in Seq(RP!Reading) /\ Len(values') = Len(events')
      /\ DOMAIN values' = DOMAIN events
  <2>1. ASSUME NEW i \in DOMAIN events
        PROVE  [of |-> after'[events[i]].of, n |-> after'[events[i]].n - before[events[i]].n]
                  \in RP!Reading
    <3>1. events[i] \in RP!Event
      BY <1>1
    <3>2. after'[events[i]] \in RP!Reading /\ before[events[i]] \in RP!Reading
      BY <1>1, <1>4, <3>1
    <3> QED
      BY <3>2 DEF RP!Reading
  <2>2. DOMAIN events = 1 .. Len(events) /\ Len(events) \in Nat
    BY <1>1
  <2> QED
    BY <1>2, <1>3, <2>1, <2>2
<1>7. RP!TypeOK'
  <2>1. base' \in [RP!Event -> Nat] /\ samples' \in 0 .. MaxSamples
    <3>1. base' \in [RP!Event -> Nat]
      BY <1>1, <1>2
    <3>2. MaxSamples \in Nat /\ samples \in 0 .. MaxSamples
      BY <1>1 DEF RP!TypeOK, RP!RaplAssumption
    <3> QED
      BY <1>2, <3>1, <3>2
  <2>2. counted' \in [RP!Event -> Int]
    BY <1>3, <1>5
  <2> QED
    BY <1>1, <1>2, <1>4, <1>6, <2>1, <2>2 DEF RP!TypeOK
<1>8. RaplPlaced'
  <2> SUFFICES ASSUME machine.dram PROVE RaplPlaced'
    BY <1>2 DEF RaplPlaced
  <2>1. \A e \in RP!Event : after'[e].of \in {e, RP!Nothing.of}
    BY <1>1, <1>2, StatReadCorrect DEF RaplPlaced
  <2>2. RP!FiguresInTheirSlots'
    <3> SUFFICES ASSUME NEW i \in DOMAIN events
                 PROVE  values'[i].of \in {events[i], RP!Nothing.of}
      BY <1>2, <1>6 DEF RP!FiguresInTheirSlots
    <3>1. events[i] \in RP!Event /\ values'[i].of = after'[events[i]].of
      BY <1>1, <1>3
    <3> QED
      BY <2>1, <3>1
  <2> QED
    BY <2>1, <2>2 DEF RaplPlaced
<1>9. RaplTelescope'
  <2>1. ASSUME NEW i \in DOMAIN events
        PROVE  before'[events[i]] = after'[events[i]]
    <3>1. events[i] \in RP!Event /\ i \in 1 .. Len(events)
      BY <1>1
    <3>2. RP!Contains(events, events[i])
      BY <3>1 DEF RP!Contains
    <3> QED
      BY <1>3, <3>1, <3>2
  <2> QED
    BY <1>2, <1>5, <2>1 DEF RaplTelescope
<1> QED
  BY <1>7, <1>8, <1>9 DEF RaplInv

\* The inductive step, action by action.
LEMMA RaplStep ==
    ASSUME RP!RaplAssumption
    PROVE  RaplInv /\ [RP!Next]_(RP!vars) => RaplInv'
<1> SUFFICES ASSUME RaplInv, [RP!Next]_(RP!vars) PROVE RaplInv'
  OBVIOUS
<1> USE DEF RaplInv, RaplPlaced, RaplTelescope, RP!FiguresInTheirSlots, RP!TypeOK
<1>1. CASE UNCHANGED RP!vars
  BY <1>1 DEF RP!vars
<1>2. ASSUME NEW e \in RP!Event, RP!Uses(e)
      PROVE  RaplInv'
  <2>1. /\ proc' = [proc EXCEPT ![e] = proc[e] + 1]
        /\ moves' = moves + 1 /\ moves < MaxMoves
        /\ UNCHANGED <<up, machine, base, events, values, before, after, counted, fine,
                       samples>>
    BY <1>2 DEF RP!Uses
  <2>2. proc' \in [RP!Event -> Nat] /\ moves' \in 0 .. MaxMoves
    BY <2>1 DEF RP!RaplAssumption
  <2> QED
    BY <2>1, <2>2
<1>3. CASE RP!InitFails
  BY <1>3 DEF RP!InitFails
<1>4. CASE RP!SampleCrashes
  BY <1>4 DEF RP!SampleCrashes
<1> QED
  BY <1>1, <1>2, <1>3, <1>4, RaplStart, RaplFirstReading, RaplSample DEF RP!Next

\* What the invariant says of the figures of RAPL_power: names and values are side by
\* side, and they add up to the last reading.
LEMMA RaplFigures ==
    ASSUME RaplInv
    PROVE  RP!FiguresInTheirSlots /\ RP!EnergyCountedOnce
<1>1. RP!FiguresInTheirSlots
  BY DEF RaplInv, RaplPlaced, RP!FiguresInTheirSlots
<1>2. RP!EnergyCountedOnce
  <2> SUFFICES ASSUME fine, NEW i \in DOMAIN events
               PROVE  counted[events[i]] = after[events[i]].n
    BY DEF RP!EnergyCountedOnce
  <2>1. events[i] \in RP!Event
    BY DEF RaplInv, RP!TypeOK
  <2> QED
    BY <2>1 DEF RaplInv, RaplTelescope
<1> QED
  BY <1>1, <1>2
-----------------------------------------------------------------------------
(* CPU_perf *)

\* The name of the i-th event where all three are offered.
PerfName(i) == <<(i - 1) \div 3 + 1, CF!PapiEvents[((i - 1) % 3) + 1]>>

\* The figure of the i-th value is the one of this name, or none.
Stands(i, name) == values[i].of \in {name, CF!Nothing.of}

\* Where all three events are offered and added, a name is that of its place, and so
\* is the figure there.  The first core's names are those of the events offered.
PerfNames ==
    /\ up \in {"created", "running"} => Len(events) = available.cores * Len(CF!Offered)
    /\ available.offered = CF!PapiEvent => \A i \in DOMAIN events : events[i] = PerfName(i)
    /\ CF!Complete => \A i \in DOMAIN values : Stands(i, PerfName(i))
    /\ \A i \in DOMAIN events : events[i][1] = 1 =>
            i \in DOMAIN CF!Offered /\ events[i] = <<1, CF!Offered[i]>>
    /\ CF!FirstAdded => \A i \in DOMAIN values :
            i \in DOMAIN CF!Offered => Stands(i, <<1, CF!Offered[i]>>)

\* What has been reported of an event is what PAPI does not count any more; nothing
\* is before it counts.
PerfCounted ==
    /\ up # "running" => \A e \in CF!Event : seen[e] = 0
    /\ up = "running" /\ CF!Complete =>
          \A e \in CF!Event : e[1] <= available.cores => counted[e] - seen[e] = base[e]

PerfInv == CF!TypeOK /\ PerfNames /\ PerfCounted

\* None to three events, in their order.
LEMMA InOrderType ==
    ASSUME NEW some \in SUBSET CF!PapiEvent
    PROVE  /\ CF!InOrder(some) \in Seq(CF!PapiEvent) /\ Len(CF!InOrder(some)) \in 0 .. 3
           /\ some = CF!PapiEvent => CF!InOrder(some) = CF!PapiEvents
<1>1. CF!PapiEvent = {"MFLIPS", "MFLOPS", "MIPS"}
  BY DEF CF!PapiEvent, CF!PapiEvents
<1> DEFINE a == CF!IfIn("MFLIPS", some)
           b == CF!IfIn("MFLOPS", some)
           c == CF!IfIn("MIPS", some)
<1>2. /\ a \in Seq(CF!PapiEvent) /\ Len(a) \in 0 .. 1
      /\ b \in Seq(CF!PapiEvent) /\ Len(b) \in 0 .. 1
      /\ c \in Seq(CF!PapiEvent) /\ Len(c) \in 0 .. 1
  <2>1. ASSUME NEW e \in CF!PapiEvent
        PROVE  CF!IfIn(e, some) \in Seq(CF!PapiEvent) /\ Len(CF!IfIn(e, some)) \in 0 .. 1
    <3>1. CASE CF!IfIn(e, some) = <<e>>
      <4>1. <<e>> \in Seq(CF!PapiEvent) /\ Len(<<e>>) \in 0 .. 1
        OBVIOUS
      <4> QED
        BY <3>1, <4>1, Zenon
    <3>2. CASE CF!IfIn(e, some) = << >>
      <4>1. << >> \in Seq(CF!PapiEvent) /\ Len(<< >>) \in 0 .. 1
        OBVIOUS
      <4> QED
        BY <3>2, <4>1, Zenon
    <3> QED
      BY <3>1, <3>2 DEF CF!IfIn
  <2> QED
    BY <1>1, <2>1
<1>3. CF!InOrder(some) = (a \o b) \o c
  BY DEF CF!InOrder
<1>4. ASSUME some = CF!PapiEvent PROVE CF!InOrder(some) = CF!PapiEvents
  <2>1. a = <<"MFLIPS">> /\ b = <<"MFLOPS">> /\ c = <<"MIPS">>
    BY <1>1, <1>4 DEF CF!IfIn
  <2>2. /\ Len(CF!PapiEvents) = 3 /\ CF!PapiEvents \in Seq(CF!PapiEvent)
        /\ CF!PapiEvents[1] = "MFLIPS" /\ CF!PapiEvents[2] = "MFLOPS"
        /\ CF!PapiEvents[3] = "MIPS"
    BY <1>1 DEF CF!PapiEvents
  <2>3. /\ (a \o b) \in Seq(CF!PapiEvent) /\ Len(a \o b) = 2
        /\ (a \o b)[1] = "MFLIPS" /\ (a \o b)[2] = "MFLOPS"
    BY <1>2, <2>1
  <2> HIDE DEF a, b, c
  <2>4. /\ ((a \o b) \o c) \in Seq(CF!PapiEvent) /\ Len((a \o b) \o c) = 3
        /\ ((a \o b) \o c)[1] = "MFLIPS" /\ ((a \o b) \o c)[2] = "MFLOPS"
        /\ ((a \o b) \o c)[3] = "MIPS"
    BY <1>2, <2>1, <2>3
  <2>5. ASSUME NEW k \in 1 .. 3 PROVE ((a \o b) \o c)[k] = CF!PapiEvents[k]
    <3>1. k = 1 \/ k = 2 \/ k = 3
      OBVIOUS
    <3> QED
      BY <2>2, <2>4, <3>1
  <2> QED
    BY <1>3, <2>2, <2>4, <2>5, SeqEqual
<1> HIDE DEF a, b, c
<1>5. (a \o b) \in Seq(CF!PapiEvent) /\ Len(a \o b) = Len(a) + Len(b)
  BY <1>2
<1>6. ((a \o b) \o c) \in Seq(CF!PapiEvent) /\ Len((a \o b) \o c) = Len(a \o b) + Len(c)
  BY <1>2, <1>5
<1> QED
  BY <1>2, <1>3, <1>4, <1>5, <1>6

\* What is named and what is added, core by core.
LEMMA PerfSets ==
    ASSUME CF!CpuPerfAssumption, available \in Processors
    PROVE  /\ available.cores \in 0 .. Cores
           /\ CF!Offered \in Seq(CF!PapiEvent) /\ Len(CF!Offered) \in 0 .. 3
           /\ available.offered = CF!PapiEvent => CF!Offered = CF!PapiEvents
           /\ \A core \in 1 .. Cores :
                 /\ CF!AddedTo(core) \in Seq(CF!PapiEvent)
                 /\ CF!Complete /\ core <= available.cores =>
                       CF!AddedTo(core) = CF!PapiEvents
           /\ CF!FirstAdded => CF!AddedTo(1) = CF!Offered
<1>1. /\ available.cores \in 0 .. Cores /\ available.offered \in SUBSET CF!PapiEvent
      /\ \A e \in available.added : e[2] \in available.offered
  BY DEF CF!CpuPerfAssumption
<1>2. /\ CF!Offered \in Seq(CF!PapiEvent) /\ Len(CF!Offered) \in 0 .. 3
      /\ available.offered = CF!PapiEvent => CF!Offered = CF!PapiEvents
  BY <1>1, InOrderType DEF CF!Offered
<1>3. ASSUME NEW core \in 1 .. Cores
      PROVE  /\ CF!AddedTo(core) \in Seq(CF!PapiEvent)
             /\ CF!Complete /\ core <= available.cores => CF!AddedTo(core) = CF!PapiEvents
  <2> DEFINE some == {e \in CF!PapiEvent : <<core, e>> \in available.added}
  <2>1. some \in SUBSET CF!PapiEvent /\ CF!AddedTo(core) = CF!InOrder(some)
    BY DEF CF!AddedTo
  <2>2. CF!Complete /\ core <= available.cores => some = CF!PapiEvent
    BY <1>1 DEF CF!Complete
  <2> HIDE DEF some
  <2> QED
    BY <2>1, <2>2, InOrderType
<1>4. ASSUME CF!FirstAdded PROVE CF!AddedTo(1) = CF!Offered
  <2>1. {e \in CF!PapiEvent : <<1, e>> \in available.added} = available.offered
    <3>1. ASSUME NEW e \in CF!PapiEvent, <<1, e>> \in available.added
          PROVE  e \in available.offered
      <4>1. <<1, e>>[2] \in available.offered
        BY <1>1, <3>1
      <4> QED
        BY <4>1
    <3> QED
      BY <1>1, <1>4, <3>1 DEF CF!FirstAdded
  <2> QED
    BY <2>1 DEF CF!AddedTo, CF!Offered
<1> QED
  BY <1>1, <1>2, <1>3, <1>4

\* Before the plug-in is initialised.
LEMMA PerfInitInv ==
    ASSUME CF!CpuPerfAssumption
    PROVE  CF!Init => PerfInv
<1> SUFFICES ASSUME CF!Init PROVE PerfInv
  OBVIOUS
<1>1. CF!TypeOK
  <2>1. /\ proc \in [CF!Event -> Nat] /\ base \in [CF!Event -> Nat]
        /\ counted \in [CF!Event -> Int] /\ seen \in [CF!Event -> Int]
    BY DEF CF!Init
  <2>2. moves \in 0 .. MaxMoves /\ samples \in 0 .. MaxSamples /\ 0 <= 3 * Cores
    BY DEF CF!Init, CF!CpuPerfAssumption
  <2>3. events \in Seq(CF!Event) /\ Len(events) = 0
    BY DEF CF!Init
  <2>4. values \in [1 .. 3 * Cores -> CF!Figure]
    BY DEF CF!Init, CF!Figure, CF!Nothing
  <2> QED
    BY <2>1, <2>2, <2>3, <2>4 DEF CF!Init, CF!TypeOK
<1>2. up = "loaded" /\ events = << >> /\ \A i \in DOMAIN values : values[i] = CF!Nothing
  BY DEF CF!Init
<1>3. PerfNames /\ PerfCounted
  BY <1>2 DEF CF!Init, PerfNames, PerfCounted, Stands
<1> QED
  BY <1>1, <1>3 DEF PerfInv

\* The names are made core by core.
LEMMA PerfCreateSets ==
    ASSUME CF!CpuPerfAssumption, PerfInv, CF!CreateSets
    PROVE  PerfInv'
<1> DEFINE n == Len(CF!Offered)
           cores == available.cores
<1>1. /\ CF!TypeOK /\ PerfNames /\ Cores \in Nat /\ available \in Processors
      /\ cores \in 0 .. Cores /\ CF!Offered \in Seq(CF!PapiEvent) /\ n \in 0 .. 3
      /\ available.offered = CF!PapiEvent => CF!Offered = CF!PapiEvents
  BY PerfSets DEF PerfInv, CF!TypeOK, CF!CpuPerfAssumption
<1>2. /\ up' = "created"
      /\ UNCHANGED <<available, proc, base, moves, values, counted, seen, samples>>
      /\ UNCHANGED <<CF!Offered, CF!Complete, CF!FirstAdded>>
  BY DEF CF!CreateSets, CF!Offered, CF!Complete, CF!FirstAdded
<1>3. cores * n \in Nat /\ cores * n <= 3 * Cores
  <2>1. n = 0 \/ n = 1 \/ n = 2 \/ n = 3
    BY <1>1
  <2> HIDE DEF n, cores
  <2> QED
    BY <1>1, <2>1
<1>4. events' = [i \in 1 .. cores * n |->
                    <<(i - 1) \div n + 1, CF!Offered[((i - 1) % n) + 1]>>]
  BY DEF CF!CreateSets
<1>5. ASSUME NEW i \in 1 .. cores * n
      PROVE  /\ (i - 1) \div n + 1 \in 1 .. Cores
             /\ ((i - 1) % n) + 1 \in 1 .. n
             /\ (i - 1) \div n + 1 = 1 => i \in 1 .. n /\ ((i - 1) % n) + 1 = i
  <2>1. n = 1 \/ n = 2 \/ n = 3
    BY <1>1, <1>5
  <2> HIDE DEF n, cores
  <2>2. CASE n = 1
    BY <1>1, <2>2
  <2>3. CASE n = 2
    BY <1>1, <2>3
  <2>4. CASE n = 3
    BY <1>1, <2>4
  <2> QED
    BY <2>1, <2>2, <2>3, <2>4
<1>6. events' \in Seq(CF!Event) /\ Len(events') = cores * n /\ DOMAIN events' = 1 .. cores * n
  <2>1. ASSUME NEW i \in 1 .. cores * n PROVE events'[i] \in CF!Event
    <3>1. CF!Offered[((i - 1) % n) + 1] \in CF!PapiEvent
      BY <1>1, <1>5
    <3> HIDE DEF n, cores
    <3>2. \A q \in 1 .. Cores, x \in CF!PapiEvent : <<q, x>> \in CF!Event
      BY DEF CF!Event
    <3>3. events'[i] = <<(i - 1) \div n + 1, CF!Offered[((i - 1) % n) + 1]>>
      BY <1>4
    <3> QED
      BY <1>5, <3>1, <3>2, <3>3, Zenon
  <2> HIDE DEF n, cores
  <2> QED
    BY <1>3, <1>4, <2>1
<1>7. CF!TypeOK'
  BY <1>1, <1>2, <1>3, <1>6 DEF CF!TypeOK
<1>8. PerfNames'
  <2>1. ASSUME available.offered = CF!PapiEvent, NEW i \in 1 .. cores * n
        PROVE  events'[i] = PerfName(i)
    <3>1. n = 3 /\ CF!Offered = CF!PapiEvents
      BY <1>1, <2>1 DEF CF!PapiEvents
    <3> QED
      BY <1>4, <3>1 DEF PerfName
  <2>2. ASSUME NEW i \in 1 .. cores * n, events'[i][1] = 1
        PROVE  i \in DOMAIN CF!Offered /\ events'[i] = <<1, CF!Offered[i]>>
    <3>1. DOMAIN CF!Offered = 1 .. n
      BY <1>1
    <3> HIDE DEF n, cores
    <3>2. events'[i] = <<(i - 1) \div n + 1, CF!Offered[((i - 1) % n) + 1]>>
      BY <1>4
    <3>3. (i - 1) \div n + 1 = 1
      BY <2>2, <3>2
    <3> QED
      BY <1>5, <3>1, <3>2, <3>3
  <2>3. Len(events') = available.cores * Len(CF!Offered)
    BY <1>6
  <2> HIDE DEF n, cores
  <2>4. /\ available.offered = CF!PapiEvent => \A i \in DOMAIN events' : events'[i] = PerfName(i)
        /\ \A i \in DOMAIN events' : events'[i][1] = 1 =>
              i \in DOMAIN CF!Offered /\ events'[i] = <<1, CF!Offered[i]>>
    BY <1>6, <2>1, <2>2
  <2> QED
    BY <1>1, <1>2, <2>3, <2>4 DEF PerfNames, PerfName, Stands
<1>9. PerfCounted'
  <2>1. up # "running"
    BY DEF CF!CreateSets
  <2> QED
    BY <1>2, <2>1 DEF PerfInv, PerfCounted
<1> QED
  BY <1>7, <1>8, <1>9 DEF PerfInv

\* The place in the array of the k-th value of a core.
LEMMA PlaceOfSlot ==
    ASSUME NEW n \in Nat, NEW a \in 1 .. n, NEW b \in 1 .. 3
    PROVE  /\ 3 * (a - 1) + b \in 1 .. 3 * n
           /\ (3 * (a - 1) + b - 1) \div 3 + 1 = a
           /\ ((3 * (a - 1) + b - 1) % 3) + 1 = b
OBVIOUS

\* The core and k of a place in the array lead to it again.
LEMMA SlotOfPlace ==
    ASSUME NEW n \in Nat, NEW i \in 1 .. 3 * n
    PROVE  /\ (i - 1) \div 3 + 1 \in 1 .. n
           /\ ((i - 1) % 3) + 1 \in 1 .. 3
           /\ 3 * ((i - 1) \div 3 + 1 - 1) + (((i - 1) % 3) + 1) = i
OBVIOUS

\* What the hook prints is a number.
LEMMA PrintedType ==
    ASSUME NEW figures \in [1 .. 3 * Cores -> CF!Figure], DOMAIN events \subseteq 1 .. 3 * Cores,
           NEW e
    PROVE  CF!Printed(e, figures) \in Int
<1>1. CASE CF!Places(e, figures) = {}
  BY <1>1 DEF CF!Printed
<1>2. CASE CF!Places(e, figures) # {}
  <2> DEFINE i == CHOOSE i \in CF!Places(e, figures) : TRUE
  <2>1. i \in CF!Places(e, figures)
    BY <1>2
  <2>2. i \in 1 .. 3 * Cores
    BY <2>1 DEF CF!Places
  <2>3. CF!Printed(e, figures) = figures[i].n
    BY <1>2 DEF CF!Printed
  <2> HIDE DEF i
  <2> QED
    BY <2>2, <2>3 DEF CF!Figure
<1> QED
  BY <1>1, <1>2

\* A sample reads the cores up to one, and resets what it has read.
LEMMA PerfSample ==
    ASSUME CF!CpuPerfAssumption, PerfInv, NEW read \in 0 .. Cores, CF!Sample(read)
    PROVE  PerfInv'
<1>1. /\ CF!TypeOK /\ PerfNames /\ PerfCounted /\ Cores \in Nat /\ MaxSamples \in Nat
      /\ proc \in [CF!Event -> Nat] /\ base \in [CF!Event -> Nat]
      /\ counted \in [CF!Event -> Int] /\ seen \in [CF!Event -> Int]
      /\ values \in [1 .. 3 * Cores -> CF!Figure]
      /\ available \in Processors /\ available.cores \in 0 .. Cores
      /\ CF!Offered \in Seq(CF!PapiEvent) /\ Len(CF!Offered) \in 0 .. 3
      /\ events \in Seq(CF!Event) /\ Len(events) <= 3 * Cores
  BY PerfSets DEF PerfInv, CF!TypeOK, CF!CpuPerfAssumption
<1>2. /\ up = "running" /\ samples < MaxSamples /\ samples' = samples + 1
      /\ read <= available.cores
      /\ UNCHANGED <<up, available, proc, moves, events>>
      /\ UNCHANGED <<CF!Offered, CF!Complete, CF!FirstAdded>>
      /\ base' = [e \in CF!Event |-> IF e[1] <= read THEN proc[e] ELSE base[e]]
      /\ counted' = [e \in CF!Event |-> counted[e] + CF!Printed(e, values')]
      /\ seen' = [e \in CF!Event |->
             IF e[1] > read THEN seen[e] + CF!Printed(e, values') ELSE seen[e]]
  BY DEF CF!Sample, CF!ResetCores, CF!Offered, CF!Complete, CF!FirstAdded
<1>3. ASSUME NEW core \in 1 .. read, NEW k \in 1 .. 3
      PROVE  /\ CF!PapiRead(core, k) \in CF!Figure
             /\ k \in DOMAIN CF!AddedTo(core) =>
                   CF!PapiRead(core, k).of = <<core, CF!AddedTo(core)[k]>>
             /\ k \notin DOMAIN CF!AddedTo(core) => CF!PapiRead(core, k) = CF!Nothing
             /\ CF!Complete =>
                   LET e == <<core, CF!PapiEvents[k]>>
                   IN CF!PapiRead(core, k) = [of |-> e, n |-> proc[e] - base[e]]
  <2>0. /\ core \in 1 .. Cores /\ core <= available.cores
        /\ CF!AddedTo(core) \in Seq(CF!PapiEvent)
        /\ CF!Complete => CF!AddedTo(core) = CF!PapiEvents
    BY <1>1, <1>2, PerfSets
  <2>1. CASE k \in DOMAIN CF!AddedTo(core)
    <3> DEFINE e == CF!Set(core)[k]
    <3>1. e = <<core, CF!AddedTo(core)[k]>> /\ k \in DOMAIN CF!Set(core)
      BY <2>1 DEF CF!Set
    <3>2. e \in CF!Event
      BY <2>0, <2>1, <3>1 DEF CF!Event
    <3>3. CF!PapiRead(core, k) = [of |-> e, n |-> proc[e] - base[e]]
      BY <3>1 DEF CF!PapiRead
    <3>4. proc[e] - base[e] \in Int
      BY <1>1, <3>2
    <3> HIDE DEF e
    <3>5. CF!PapiRead(core, k) \in CF!Figure /\ CF!PapiRead(core, k).of = e
      BY <3>2, <3>3, <3>4 DEF CF!Figure
    <3>6. ASSUME CF!Complete
          PROVE  LET x == <<core, CF!PapiEvents[k]>>
                 IN CF!PapiRead(core, k) = [of |-> x, n |-> proc[x] - base[x]]
      <4>1. e = <<core, CF!PapiEvents[k]>>
        BY <2>0, <3>1, <3>6
      <4> QED
        BY <3>3, <4>1
    <3> QED
      BY <2>1, <3>1, <3>5, <3>6
  <2>2. CASE k \notin DOMAIN CF!AddedTo(core)
    <3>1. CF!PapiRead(core, k) = CF!Nothing
      BY <2>2 DEF CF!PapiRead, CF!Set
    <3>2. ~CF!Complete
      BY <2>0, <2>2 DEF CF!PapiEvents
    <3> QED
      BY <2>2, <3>1, <3>2 DEF CF!Nothing, CF!Figure
  <2> QED
    BY <2>1, <2>2
<1> DEFINE core(i) == (i - 1) \div 3 + 1
           k(i) == ((i - 1) % 3) + 1
<1>4. ASSUME NEW i \in 1 .. 3 * Cores
      PROVE  /\ core(i) \in 1 .. Cores /\ k(i) \in 1 .. 3
             /\ CF!Slot(core(i), k(i)) = i
             /\ core(i) <= read => values'[i] = CF!PapiRead(core(i), k(i))
             /\ core(i) > read => values'[i] = values[i]
  <2>1. core(i) \in 1 .. Cores /\ k(i) \in 1 .. 3 /\ CF!Slot(core(i), k(i)) = i
    <3>1. Cores \in Nat
      BY <1>1
    <3>2. core(i) \in 1 .. Cores /\ k(i) \in 1 .. 3 /\ 3 * (core(i) - 1) + k(i) = i
      BY <3>1, SlotOfPlace
    <3> HIDE DEF core, k
    <3> QED
      BY <3>2 DEF CF!Slot
  <2>2. \A a \in 1 .. read, b \in 1 .. 3 :
            CF!Slot(a, b) = i => a = core(i) /\ b = k(i)
    <3> SUFFICES ASSUME NEW a \in 1 .. read, NEW b \in 1 .. 3, CF!Slot(a, b) = i
                 PROVE  a = core(i) /\ b = k(i)
      OBVIOUS
    <3>1. read \in Nat /\ i = 3 * (a - 1) + b
      BY <1>1 DEF CF!Slot
    <3>2. (3 * (a - 1) + b - 1) \div 3 + 1 = a /\ ((3 * (a - 1) + b - 1) % 3) + 1 = b
      BY <3>1, PlaceOfSlot
    <3> QED
      BY <3>1, <3>2
  <2>3. i \in DOMAIN values
    BY <1>1
  <2> HIDE DEF core, k
  <2>4. CASE core(i) <= read
    <3> DEFINE c == CHOOSE c \in (1 .. read) \X (1 .. 3) : CF!Slot(c[1], c[2]) = i
    <3>1. core(i) \in 1 .. read
      BY <2>1, <2>4
    <3>2. c \in (1 .. read) \X (1 .. 3) /\ CF!Slot(c[1], c[2]) = i
      <4>2. /\ <<core(i), k(i)>> \in (1 .. read) \X (1 .. 3)
            /\ CF!Slot(<<core(i), k(i)>>[1], <<core(i), k(i)>>[2]) = i
        BY <2>1, <3>1
      <4>3. \E d \in (1 .. read) \X (1 .. 3) : CF!Slot(d[1], d[2]) = i
        BY <4>2, Zenon
      <4> QED
        BY <4>3, Zenon
    <3>3. values'[i] = CF!PapiRead(c[1], c[2])
      BY <2>1, <2>3, <3>1 DEF CF!Sample
    <3> HIDE DEF c
    <3>4. c[1] = core(i) /\ c[2] = k(i)
      BY <2>2, <3>2
    <3> QED
      BY <2>1, <2>4, <3>3, <3>4
  <2>5. CASE core(i) > read
    <3>1. ~\E a \in 1 .. read, b \in 1 .. 3 : CF!Slot(a, b) = i
      BY <2>1, <2>2, <2>5
    <3>2. values'[i] = values[i]
      BY <2>3, <3>1 DEF CF!Sample
    <3> QED
      BY <2>1, <2>5, <3>2
  <2>6. core(i) \in Int
    BY <2>1
  <2> QED
    BY <2>4, <2>5, <2>6
<1>5. values' \in [1 .. 3 * Cores -> CF!Figure]
  <2>1. DOMAIN values = 1 .. 3 * Cores /\ values' = [i \in DOMAIN values |-> values'[i]]
    BY <1>1 DEF CF!Sample
  <2>2. ASSUME NEW i \in 1 .. 3 * Cores PROVE values'[i] \in CF!Figure
    <3>1. core(i) \in 1 .. read /\ k(i) \in 1 .. 3 => CF!PapiRead(core(i), k(i)) \in CF!Figure
      <4> HIDE DEF core, k
      <4> QED
        BY <1>3
    <3>2. values[i] \in CF!Figure
      BY <1>1
    <3> QED
      BY <1>4, <3>1, <3>2
  <2> QED
    BY <2>1, <2>2
<1>6. DOMAIN events \subseteq 1 .. 3 * Cores
  <2>1. DOMAIN events = 1 .. Len(events) /\ Len(events) \in Nat
    BY <1>1
  <2> QED
    BY <1>1, <2>1
<1>7. CF!TypeOK'
  <2>1. ASSUME NEW e \in CF!Event PROVE CF!Printed(e, values') \in Int
    BY <1>5, <1>6, PrintedType
  <2>2. base' \in [CF!Event -> Nat]
    BY <1>1, <1>2
  <2>3. counted' \in [CF!Event -> Int]
    BY <1>1, <1>2, <2>1
  <2>4. seen' \in [CF!Event -> Int]
    BY <1>1, <1>2, <2>1
  <2>5. samples' \in 0 .. MaxSamples
    BY <1>1, <1>2 DEF CF!TypeOK
  <2> QED
    BY <1>1, <1>2, <1>5, <2>2, <2>3, <2>4, <2>5 DEF CF!TypeOK
<1>8. PerfNames'
  <2>1. ASSUME CF!Complete, NEW i \in 1 .. 3 * Cores
        PROVE  values'[i].of \in {PerfName(i), CF!Nothing.of}
    <3>1. PerfName(i) = <<core(i), CF!PapiEvents[k(i)]>>
      BY DEF PerfName
    <3>2. core(i) \in 1 .. Cores /\ k(i) \in 1 .. 3
          /\ (core(i) <= read => values'[i] = CF!PapiRead(core(i), k(i)))
          /\ (core(i) > read => values'[i] = values[i])
      BY <1>4
    <3>3. values[i].of \in {PerfName(i), CF!Nothing.of}
      BY <1>1, <2>1 DEF PerfNames, Stands
    <3> HIDE DEF core, k
    <3>4. CASE core(i) <= read
      <4>1. core(i) \in 1 .. read
        BY <3>2, <3>4
      <4> DEFINE e == <<core(i), CF!PapiEvents[k(i)]>>
      <4>2. CF!PapiRead(core(i), k(i)) = [of |-> e, n |-> proc[e] - base[e]]
        BY <1>3, <2>1, <3>2, <4>1
      <4> QED
        BY <3>1, <3>2, <3>4, <4>2
    <3>5. CASE core(i) > read
      BY <3>2, <3>3, <3>5
    <3> QED
      BY <3>2, <3>4, <3>5
  <2>2. ASSUME CF!FirstAdded, NEW i \in 1 .. 3 * Cores, i \in DOMAIN CF!Offered
        PROVE  values'[i].of \in {<<1, CF!Offered[i]>>, CF!Nothing.of}
    <3>1. i \in 1 .. 3 /\ core(i) = 1 /\ k(i) = i
      <4>1. i \in 1 .. 3
        BY <1>1, <2>2
      <4> QED
        BY <4>1
    <3>2. /\ core(i) <= read => values'[i] = CF!PapiRead(core(i), k(i))
          /\ core(i) > read => values'[i] = values[i]
      BY <1>4
    <3> HIDE DEF core, k
    <3>3. CF!AddedTo(1) = CF!Offered
      BY <1>1, <2>2, PerfSets
    <3>4. CASE 1 <= read
      <4>1. 1 \in 1 .. read
        BY <3>4
      <4>2. CF!PapiRead(1, i).of = <<1, CF!AddedTo(1)[i]>>
        BY <1>3, <2>2, <3>1, <3>3, <4>1
      <4> QED
        BY <3>1, <3>2, <3>3, <3>4, <4>2
    <3>5. CASE 1 > read
      <4>1. values[i].of \in {<<1, CF!Offered[i]>>, CF!Nothing.of}
        BY <1>1, <2>2 DEF PerfNames, Stands
      <4> QED
        BY <3>1, <3>2, <3>5, <4>1
    <3> QED
      BY <3>4, <3>5
  <2>3. DOMAIN values' = 1 .. 3 * Cores
    BY <1>5
  <2> QED
    BY <1>1, <1>2, <2>1, <2>2, <2>3 DEF PerfNames, PerfName, Stands
<1>9. PerfCounted'
  <2> SUFFICES ASSUME CF!Complete, NEW e \in CF!Event, e[1] <= available.cores
               PROVE  counted'[e] - seen'[e] = base'[e]
    BY <1>2 DEF PerfCounted
  <2>1. /\ counted[e] - seen[e] = base[e] /\ proc[e] \in Nat /\ base[e] \in Nat
        /\ counted[e] \in Int /\ seen[e] \in Int
    BY <1>1, <1>2 DEF PerfCounted
  <2>2. CF!Printed(e, values') \in Int
    BY <1>5, <1>6, PrintedType
  <2>3. e[1] \in 1 .. Cores /\ e[2] \in CF!PapiEvent /\ e = <<e[1], e[2]>>
    BY DEF CF!Event
  <2>4. CASE e[1] > read
    <3>1. /\ counted'[e] = counted[e] + CF!Printed(e, values')
          /\ seen'[e] = seen[e] + CF!Printed(e, values')
          /\ base'[e] = base[e]
      BY <1>2, <2>3, <2>4
    <3> QED
      BY <2>1, <2>2, <3>1
  <2>5. CASE e[1] <= read
    <3> DEFINE places == CF!Places(e, values')
    <3>1. /\ counted'[e] = counted[e] + CF!Printed(e, values')
          /\ seen'[e] = seen[e] /\ base'[e] = proc[e]
      BY <1>2, <2>3, <2>5
    <3>2. places # {}
      <4>1. PICK j \in 1 .. 3 : e[2] = CF!PapiEvents[j]
        BY <2>3 DEF CF!PapiEvent
      <4> DEFINE i == 3 * (e[1] - 1) + j
      <4>2. i \in 1 .. 3 * available.cores /\ i \in 1 .. 3 * Cores
            /\ core(i) = e[1] /\ k(i) = j
        <5>1. e[1] \in 1 .. available.cores /\ e[1] \in 1 .. Cores
          BY <1>1, <2>3
        <5>2. i \in 1 .. 3 * available.cores /\ core(i) = e[1] /\ k(i) = j
          <6>1. available.cores \in Nat
            BY <1>1
          <6> HIDE DEF places
          <6> QED
            BY <5>1, <6>1, PlaceOfSlot
        <5>3. i \in 1 .. 3 * Cores
          <6>1. Cores \in Nat
            BY <1>1
          <6> HIDE DEF places
          <6> QED
            BY <5>1, <6>1, PlaceOfSlot
        <5> QED
          BY <5>2, <5>3
      <4>3. i \in DOMAIN events
        <5>1. CF!Offered = CF!PapiEvents
          BY <1>1, PerfSets DEF CF!Complete
        <5>2. Len(events) = available.cores * 3
          BY <1>1, <1>2, <5>1 DEF PerfNames, CF!PapiEvents
        <5>3. DOMAIN events = 1 .. Len(events)
          BY <1>1
        <5> HIDE DEF i
        <5> QED
          BY <1>1, <4>2, <5>2, <5>3
      <4>4. values'[i] = CF!PapiRead(e[1], j)
        <5> HIDE DEF i
        <5> QED
          BY <1>4, <2>5, <4>2
      <4>5. CF!PapiRead(e[1], j) = [of |-> e, n |-> proc[e] - base[e]]
        <5>1. e[1] \in 1 .. read
          BY <2>3, <2>5
        <5> QED
          BY <1>3, <2>3, <4>1, <5>1
      <4> HIDE DEF i
      <4>6. i \in CF!Places(e, values')
        BY <4>3, <4>4, <4>5 DEF CF!Places
      <4> QED
        BY <4>6
    <3>3. ASSUME NEW i \in places PROVE values'[i].n = proc[e] - base[e]
      <4>1. i \in 1 .. 3 * Cores /\ values'[i].of = e
        BY <1>6, <3>3 DEF CF!Places
      <4>2. e = PerfName(i)
        <5>1. values'[i].of \in {PerfName(i), CF!Nothing.of}
          <6>1. DOMAIN values' = 1 .. 3 * Cores
            BY <1>5
          <6> QED
            BY <1>2, <1>8, <4>1, <6>1 DEF PerfNames, Stands, PerfName
        <5>2. e # CF!Nothing.of
          BY <2>3 DEF CF!Nothing
        <5> QED
          BY <4>1, <5>1, <5>2
      <4>3. e[1] = core(i) /\ e[2] = CF!PapiEvents[k(i)] /\ k(i) \in 1 .. 3
        BY <1>4, <4>1, <4>2 DEF PerfName
      <4>4. core(i) \in 1 .. read /\ values'[i] = CF!PapiRead(core(i), k(i))
        BY <1>4, <2>3, <2>5, <4>1, <4>3
      <4> HIDE DEF core, k
      <4>5. CF!PapiRead(core(i), k(i)) = [of |-> e, n |-> proc[e] - base[e]]
        BY <1>3, <2>3, <4>3, <4>4
      <4> QED
        BY <4>4, <4>5
    <3>4. CF!Printed(e, values') = proc[e] - base[e]
      <4> DEFINE i == CHOOSE i \in places : TRUE
      <4>1. i \in places
        BY <3>2
      <4>2. CF!Printed(e, values') = values'[i].n
        BY <3>2 DEF CF!Printed
      <4> HIDE DEF i, places
      <4> QED
        BY <3>3, <4>1, <4>2
    <3> QED
      BY <2>1, <3>1, <3>4
  <2>6. e[1] \in Int
    BY <2>3
  <2> QED
    BY <2>4, <2>5, <2>6
<1> QED
  BY <1>7, <1>8, <1>9 DEF PerfInv

\* The inductive step, action by action.
LEMMA PerfStep ==
    ASSUME CF!CpuPerfAssumption
    PROVE  PerfInv /\ [CF!Next]_(CF!vars) => PerfInv'
<1> SUFFICES ASSUME PerfInv, [CF!Next]_(CF!vars) PROVE PerfInv'
  OBVIOUS
<1>0. ASSUME UNCHANGED <<available, events, values>>,
             up' \in {"created", "running"} => up \in {"created", "running"}
      PROVE  PerfNames'
  <2>1. UNCHANGED <<CF!Offered, CF!Complete, CF!FirstAdded>>
    BY <1>0 DEF CF!Offered, CF!Complete, CF!FirstAdded
  <2> QED
    BY <1>0, <2>1 DEF PerfInv, PerfNames, Stands, PerfName
<1>1. CASE UNCHANGED CF!vars
  <2>1. PerfNames' /\ UNCHANGED CF!Complete
    BY <1>0, <1>1 DEF CF!vars, CF!Complete
  <2> QED
    BY <1>1, <2>1 DEF CF!vars, PerfInv, PerfCounted, CF!TypeOK
<1>2. ASSUME NEW e \in CF!Event, CF!Executes(e)
      PROVE  PerfInv'
  <2>1. /\ proc' = [proc EXCEPT ![e] = proc[e] + 1]
        /\ moves' = moves + 1 /\ moves < MaxMoves
        /\ UNCHANGED <<up, available, base, events, values, counted, seen, samples>>
    BY <1>2 DEF CF!Executes
  <2>2. proc' \in [CF!Event -> Nat] /\ moves' \in 0 .. MaxMoves
    BY <2>1 DEF CF!CpuPerfAssumption, PerfInv, CF!TypeOK
  <2>3. PerfNames' /\ UNCHANGED CF!Complete
    BY <1>0, <2>1 DEF CF!Complete
  <2> QED
    BY <2>1, <2>2, <2>3 DEF PerfInv, PerfCounted, CF!TypeOK
<1>3. CASE CF!InitFails
  <2>1. PerfNames'
    BY <1>0, <1>3 DEF CF!InitFails
  <2> QED
    BY <1>3, <2>1 DEF CF!InitFails, PerfInv, PerfCounted, CF!TypeOK
<1>4. CASE CF!StartCounting
  <2>1. /\ up = "created" /\ up' = "running" /\ base' = proc /\ counted' = proc
        /\ UNCHANGED <<available, proc, moves, events, values, seen, samples>>
    BY <1>4 DEF CF!StartCounting
  <2>4. \A e \in CF!Event : counted'[e] - seen'[e] = base'[e]
    <3>1. \A e \in CF!Event : seen[e] = 0 /\ proc[e] \in Nat
      BY <2>1 DEF PerfInv, PerfCounted, CF!TypeOK
    <3> QED
      BY <2>1, <3>1
  <2>2. counted' \in [CF!Event -> Int]
    BY <2>1 DEF PerfInv, CF!TypeOK
  <2>3. PerfNames' /\ UNCHANGED CF!Complete
    BY <1>0, <2>1 DEF CF!Complete
  <2> QED
    BY <2>1, <2>2, <2>3, <2>4 DEF PerfInv, PerfCounted, CF!TypeOK
<1> QED
  BY <1>1, <1>2, <1>3, <1>4, PerfCreateSets, PerfSample DEF CF!Next

\* What the invariant says of the figures of CPU_perf: a value is that of the name in
\* its place, and the new values add up to the instructions executed.
LEMMA PerfFigures ==
    ASSUME CF!CpuPerfAssumption, PerfInv
    PROVE  CF!CountersUnderTheirNames /\ CF!InstructionsCountedOnce
<1>1. CF!CountersUnderTheirNames
  <2> SUFFICES ASSUME NEW i \in DOMAIN events,
                      CF!Complete \/ (CF!FirstAdded /\ events[i][1] = 1)
               PROVE  values[i].of \in {events[i], CF!Nothing.of}
    BY DEF CF!CountersUnderTheirNames
  <2>1. i \in DOMAIN values
    <3>1. /\ events \in Seq(CF!Event) /\ Len(events) <= 3 * Cores /\ Cores \in Nat
          /\ DOMAIN values = 1 .. 3 * Cores
      BY DEF PerfInv, CF!TypeOK, CF!CpuPerfAssumption
    <3>2. i \in 1 .. Len(events) /\ Len(events) \in Nat
      BY <3>1
    <3> QED
      BY <3>1, <3>2
  <2> QED
    BY <2>1 DEF PerfInv, PerfNames, Stands, CF!Complete
<1>2. CF!InstructionsCountedOnce
  <2> SUFFICES ASSUME up = "running", CF!Complete, NEW e \in CF!Event,
                      e[1] <= available.cores
               PROVE  counted[e] - seen[e] + (proc[e] - base[e]) = proc[e]
    BY DEF CF!InstructionsCountedOnce
  <2>1. counted[e] - seen[e] = base[e]
    BY DEF PerfInv, PerfCounted
  <2>2. proc[e] \in Int /\ base[e] \in Int
    BY DEF PerfInv, CF!TypeOK
  <2> QED
    BY <2>1, <2>2
<1> QED
  BY <1>1, <1>2

-----------------------------------------------------------------------------
(* The monitors of the client library *)

\* No counter has gone around, so that a reading can be told from its remainder.
MonitorBounded ==
    /\ proc.busy + proc.other + proc.idle <= moves + 2 /\ proc.bytes <= moves
    /\ proc.niced <= proc.other
    /\ proc.energy <= moves + 1 /\ proc.misses <= moves + 1
    /\ \A c \in PM!Counter : before[c] \in 0 .. Modulus - 1 /\ after[c] \in 0 .. Modulus - 1

\* The process takes part in the machine's work: its time is part of the
\* system's but for its niced ticks, and a reading of it was one at its time.  A
\* sample is only begun while there is one to be made.
MonitorOrder ==
    /\ proc.run <= proc.busy + proc.niced
    /\ monitor # "disk" /\ at = "system" => after.pid <= proc.run
    /\ at = "system" /\ ~first => samples < MaxSamples
    /\ monitor = "disk" => at = "own"
    /\ PM!ProcessTimeWithinSystem

MonitorInv == PM!TypeOK /\ MonitorOrder /\ MonitorBounded /\ PM!LinesAddUp

\* The remainder of a counter's increase leads from one reading to the next.
LEMMA Telescope ==
    ASSUME NEW a \in 0 .. Modulus - 1, NEW b \in 0 .. Modulus - 1
    PROVE  /\ (b + PM!Minus(a, b)) % Modulus = a
           /\ (b + (a - b)) % Modulus = a
           /\ (b + 0) % Modulus = b
           /\ PM!Minus(a, b) \in 0 .. Modulus - 1
<1>1. Modulus \in Nat \ {0}
  BY ProcFsAssumption
<1>2. \A n \in 0 .. Modulus - 1 : n % Modulus = n
  BY <1>1
<1>3. (b + (a - b)) % Modulus = a /\ (b + 0) % Modulus = b
  BY <1>1, <1>2
<1>4. CASE b <= a
  <2>1. a - b \in 0 .. Modulus - 1
    BY <1>1, <1>4
  <2>2. PM!Minus(a, b) = a - b
    BY <1>2, <2>1 DEF PM!Minus
  <2> QED
    BY <1>3, <2>1, <2>2
<1>5. CASE a < b
  <2>1. a - b + Modulus \in 0 .. Modulus - 1
    BY <1>1, <1>5
  <2>2. PM!Minus(a, b) = a - b + Modulus
    <3>1. (a - b) % Modulus = (a - b + Modulus) % Modulus
      BY <1>1
    <3> QED
      BY <1>2, <2>1, <3>1 DEF PM!Minus
  <2>3. b + (a - b + Modulus) = a + Modulus
    BY <1>1
  <2>4. (a + Modulus) % Modulus = a
    <3>1. (a + Modulus) % Modulus = a % Modulus
      BY <1>1
    <3> QED
      BY <1>2, <3>1
  <2> QED
    BY <1>3, <2>1, <2>2, <2>3, <2>4
<1> QED
  BY <1>1, <1>4, <1>5

\* What the files show is a number that has not gone around.
LEMMA ShownInRange ==
    ASSUME PM!MonitorAssumption, MonitorInv, NEW c \in PM!Counter
    PROVE  PM!Shows(c) \in 0 .. Modulus - 1
<1>1. /\ proc.busy \in Nat /\ proc.run \in Nat /\ proc.bytes \in Nat /\ proc.idle \in Nat
      /\ proc.energy \in Nat /\ proc.misses \in Nat /\ moves \in 0 .. MaxMoves
      /\ proc.other \in Nat /\ proc.niced \in Nat
  BY DEF MonitorInv, PM!TypeOK, PM!ProcType
<1>2. /\ proc.busy + proc.other + proc.idle <= moves + 2 /\ proc.bytes <= moves
      /\ proc.energy <= moves + 1 /\ proc.misses <= moves + 1
      /\ proc.run <= proc.busy + proc.niced /\ proc.niced <= proc.other
  BY DEF MonitorInv, MonitorBounded, MonitorOrder
<1>3. MaxMoves + 2 < Modulus /\ MaxMoves \in Nat /\ Modulus \in Nat
  BY ProcFsAssumption DEF PM!MonitorAssumption
<1>4. c \in {"itv", "runtime", "pid", "bytes", "energy", "misses"}
  BY DEF PM!Counter
<1>5. \E n \in {proc.busy + proc.other + proc.idle, proc.busy, proc.run, proc.bytes, proc.energy,
               proc.misses} :
         PM!Shows(c) = n
  BY <1>4 DEF PM!Shows
<1> QED
  BY <1>1, <1>2, <1>3, <1>5

\* A reading keeps its range; what a stage reads, the other keeps.
LEMMA ReadingInRange ==
    ASSUME PM!MonitorAssumption, MonitorInv, NEW stage \in {"own", "system"}
    PROVE  /\ DOMAIN PM!Reading(stage) = PM!Counter
           /\ \A c \in PM!Counter :
                 /\ PM!Reading(stage)[c] \in 0 .. Modulus - 1
                 /\ PM!Reading(stage)[c] =
                       IF c \in PM!ReadAt(stage) THEN PM!Shows(c) ELSE after[c]
<1>1. \A c \in PM!Counter : after[c] \in 0 .. Modulus - 1
  BY DEF MonitorInv, MonitorBounded
<1> QED
  BY <1>1, ShownInRange DEF PM!Reading

\* Functions of numbers in that range are readings.
LEMMA RangeType ==
    ASSUME NEW f, DOMAIN f = PM!Counter, f = [c \in PM!Counter |-> f[c]],
           \A c \in PM!Counter : f[c] \in 0 .. Modulus - 1
    PROVE  f \in PM!Stats
BY ProcFsAssumption DEF PM!Stats

\* Before the first reading.
LEMMA MonitorInitInv ==
    ASSUME PM!MonitorAssumption
    PROVE  PM!Init => MonitorInv
<1> SUFFICES ASSUME PM!Init PROVE MonitorInv
  OBVIOUS
<1>1. /\ proc = [busy |-> 1, other |-> 0, idle |-> 1, run |-> 0, niced |-> 0,
                 bytes |-> 0, energy |-> 1, misses |-> 1, free |-> 1,
                 net |-> [i \in PM!Interface |-> 1], io |-> [p \in Process |-> 1], live |-> Process]
      /\ moves = 0
  BY DEF PM!Init, PM!ProcInit
<1>2. PM!ProcType
  <2>1. /\ [i \in PM!Interface |-> 1] \in [PM!Interface -> Nat]
        /\ [p \in Process |-> 1] \in [Process -> Nat]
        /\ Process \in SUBSET Process /\ 1 \in 0 .. PM!MemTotal
    BY DEF PM!MemTotal
  <2>2. moves \in 0 .. MaxMoves
    BY <1>1, ProcFsAssumption
  <2> QED
    BY <1>1, <2>1, <2>2 DEF PM!ProcType
<1>3. PM!Zero \in PM!Stats /\ \A c \in PM!Counter : PM!Zero[c] = 0
  BY DEF PM!Zero, PM!Stats
<1>4. PM!TypeOK
  <2>1. leaked \in 0 .. MaxFiles /\ samples \in 0 .. MaxSamples
    BY DEF PM!Init, PM!MonitorAssumption
  <2> QED
    BY <1>2, <1>3, <2>1 DEF PM!Init, PM!TypeOK
<1>5. MonitorOrder
  BY <1>1 DEF PM!Init, MonitorOrder, PM!ProcessTimeWithinSystem
<1>6. MonitorBounded
  <2>1. 0 \in 0 .. Modulus - 1
    BY ProcFsAssumption
  <2> QED
    BY <1>1, <1>3, <2>1 DEF PM!Init, MonitorBounded
<1>7. PM!LinesAddUp
  BY DEF PM!Init, PM!LinesAddUp
<1> QED
  BY <1>4, <1>5, <1>6, <1>7 DEF MonitorInv

\* The machine goes on working.
LEMMA MonitorProc ==
    ASSUME PM!MonitorAssumption, MonitorInv,
           PM!ProcMoves((\E own \in BOOLEAN : PM!Run(own) \/ PM!RunOther(own))
                           \/ PM!Rest \/ PM!OwnIo),
           UNCHANGED <<monitor, at, first, before, after, line, counted, leaked, broken,
                       samples>>
    PROVE  MonitorInv'
<1>1. /\ proc.busy \in Nat /\ proc.run \in Nat /\ proc.bytes \in Nat /\ proc.idle \in Nat
      /\ proc.energy \in Nat /\ proc.misses \in Nat /\ moves \in 0 .. MaxMoves
      /\ proc.other \in Nat /\ proc.niced \in Nat /\ PM!ProcType
  BY DEF MonitorInv, PM!TypeOK, PM!ProcType
<1>2. moves < MaxMoves /\ moves' = moves + 1
  BY DEF PM!ProcMoves
<1>3. /\ PM!ProcType'
      /\ proc'.busy + proc'.other + proc'.idle <= proc.busy + proc.other + proc.idle + 1
      /\ proc'.bytes <= proc.bytes + 1 /\ proc'.energy <= proc.energy + 1
      /\ proc'.misses <= proc.misses + 1
      /\ proc'.run >= proc.run /\ proc'.niced >= proc.niced
      /\ proc.niced <= proc.other => proc'.niced <= proc'.other
      /\ proc.run <= proc.busy + proc.niced => proc'.run <= proc'.busy + proc'.niced
  <2>1. moves' \in 0 .. MaxMoves
    BY <1>1, <1>2, ProcFsAssumption
  <2>2. CASE \E own \in BOOLEAN : PM!Run(own)
    <3>1. PICK own \in BOOLEAN : PM!Run(own)
      BY <2>2
    <3>2. PICK n \in {0, 1} :
             proc' = [proc EXCEPT !.busy = proc.busy + 1, !.run = proc.run + n,
                                  !.energy = proc.energy + 1, !.misses = proc.misses + 1]
      BY <3>1 DEF PM!Run
    <3>3. /\ proc.busy + 1 \in Nat /\ proc.run + n \in Nat
          /\ proc.energy + 1 \in Nat /\ proc.misses + 1 \in Nat
      BY <1>1
    <3>4. /\ proc'.busy = proc.busy + 1 /\ proc'.run = proc.run + n
          /\ proc'.energy = proc.energy + 1 /\ proc'.misses = proc.misses + 1
          /\ proc'.idle = proc.idle /\ proc'.bytes = proc.bytes
          /\ proc'.other = proc.other /\ proc'.niced = proc.niced
      BY <1>1, <3>2 DEF PM!ProcType
    <3>5. PM!ProcType'
      BY <1>1, <2>1, <3>2, <3>3 DEF PM!ProcType
    <3> QED
      BY <1>1, <3>4, <3>5
  <2>5. CASE \E own \in BOOLEAN : PM!RunOther(own)
    <3>1. PICK own \in BOOLEAN : PM!RunOther(own)
      BY <2>5
    <3>2. PICK n \in {0, 1} :
             proc' = [proc EXCEPT !.other = proc.other + 1, !.run = proc.run + n,
                                  !.niced = proc.niced + n,
                                  !.energy = proc.energy + 1, !.misses = proc.misses + 1]
      BY <3>1 DEF PM!RunOther
    <3>3. /\ proc.other + 1 \in Nat /\ proc.run + n \in Nat /\ proc.niced + n \in Nat
          /\ proc.energy + 1 \in Nat /\ proc.misses + 1 \in Nat
      BY <1>1
    <3>4. /\ proc'.other = proc.other + 1 /\ proc'.run = proc.run + n
          /\ proc'.niced = proc.niced + n
          /\ proc'.energy = proc.energy + 1 /\ proc'.misses = proc.misses + 1
          /\ proc'.idle = proc.idle /\ proc'.bytes = proc.bytes /\ proc'.busy = proc.busy
      BY <1>1, <3>2 DEF PM!ProcType
    <3>5. PM!ProcType'
      BY <1>1, <2>1, <3>2, <3>3 DEF PM!ProcType
    <3> QED
      BY <1>1, <3>4, <3>5
  <2>3. CASE PM!Rest
    BY <1>1, <2>1, <2>3 DEF PM!Rest, PM!ProcType
  <2>4. CASE PM!OwnIo
    BY <1>1, <2>1, <2>4 DEF PM!OwnIo, PM!ProcType
  <2> QED
    BY <2>2, <2>3, <2>4, <2>5 DEF PM!ProcMoves
<1>4. PM!TypeOK'
  BY <1>3 DEF MonitorInv, PM!TypeOK
<1>5. MonitorOrder'
  <2>1. \A c \in PM!Counter : after[c] \in Int
    BY DEF MonitorInv, PM!TypeOK, PM!Stats
  <2>2. after.pid \in Int /\ before.pid \in Int /\ before.runtime \in Int
    BY <2>1 DEF PM!Counter, MonitorInv, PM!TypeOK, PM!Stats
  <2>3. proc'.run \in Nat /\ proc'.busy \in Nat /\ proc'.niced \in Nat
    BY <1>3 DEF PM!ProcType
  <2>4. monitor' # "disk" /\ at' = "system" => after'.pid <= proc'.run
    BY <1>1, <1>3, <2>2, <2>3 DEF MonitorInv, MonitorOrder
  <2>5. PM!ProcessTimeWithinSystem'
    BY <1>1, <1>3, <2>2, <2>3 DEF MonitorInv, MonitorOrder, PM!ProcessTimeWithinSystem
  <2> QED
    BY <1>3, <2>4, <2>5 DEF MonitorInv, MonitorOrder
<1>6. MonitorBounded'
  <2>1. /\ proc'.busy \in Nat /\ proc'.idle \in Nat /\ proc'.bytes \in Nat
        /\ proc'.energy \in Nat /\ proc'.misses \in Nat
        /\ proc'.other \in Nat /\ proc'.niced \in Nat
    BY <1>3 DEF PM!ProcType
  <2> QED
    BY <1>1, <1>2, <1>3, <2>1 DEF MonitorInv, MonitorBounded
<1>7. PM!LinesAddUp'
  BY DEF MonitorInv, PM!LinesAddUp
<1> QED
  BY <1>4, <1>5, <1>6, <1>7 DEF MonitorInv

\* The order in which the monitors read: their own process before the system.
LEMMA OwnBeforeSystem ==
    ASSUME monitor \in {"power", "resources", "disk"}
    PROVE  /\ monitor # "disk" => /\ "pid" \in PM!ReadAt("own")
                                  /\ "pid" \notin PM!ReadAt("system")
                                  /\ "runtime" \in PM!ReadAt("system")
           /\ monitor = "disk" => "bytes" \in PM!ReadAt("own")
<1>1. CASE monitor = "power"
  <2>1. PM!ReadAt("own") = {"pid", "bytes"}
    BY <1>1 DEF PM!ReadAt
  <2>2. PM!ReadAt("system") = {"itv", "runtime", "energy", "misses"}
    BY <1>1 DEF PM!ReadAt
  <2> QED
    BY <1>1, <2>1, <2>2
<1>2. CASE monitor = "resources"
  <2>1. PM!ReadAt("own") = {"pid"} /\ PM!ReadAt("system") = {"runtime"}
    BY <1>2 DEF PM!ReadAt
  <2> QED
    BY <1>2, <2>1
<1>3. CASE monitor = "disk"
  <2>1. PM!ReadAt("own") = {"bytes"}
    BY <1>3 DEF PM!ReadAt
  <2> QED
    BY <1>3, <2>1
<1> QED
  BY <1>1, <1>2, <1>3

\* The second stage of a reading completes it.
LEMMA SystemStage ==
    ASSUME PM!MonitorAssumption, MonitorInv, at = "system",
           IF monitor = "power" THEN PM!CpuFreqStat
                                ELSE after' = PM!Reading("system") /\ UNCHANGED leaked
    PROVE  /\ after' \in PM!Stats
           /\ \A c \in PM!Counter : after'[c] \in 0 .. Modulus - 1
           /\ after'.pid <= after'.runtime + proc.niced
           /\ leaked' \in 0 .. MaxFiles
<1> DEFINE r == PM!Reading("system")
<1>1. /\ monitor \in {"power", "resources"} /\ leaked \in 0 .. MaxFiles /\ MaxFiles \in Nat
      /\ proc.run \in Nat /\ proc.busy \in Nat /\ proc.niced \in Nat
  BY DEF MonitorInv, MonitorOrder, PM!TypeOK, PM!ProcType, PM!MonitorAssumption
<1>2. /\ DOMAIN r = PM!Counter /\ \A c \in PM!Counter : r[c] \in 0 .. Modulus - 1
      /\ r = [c \in PM!Counter |-> r[c]]
  BY ReadingInRange DEF PM!Reading
<1>3. r["pid"] = after["pid"] /\ r["runtime"] = proc.busy
  <2>1. "pid" \in PM!Counter /\ "runtime" \in PM!Counter
    BY DEF PM!Counter
  <2>2. "pid" \notin PM!ReadAt("system") /\ "runtime" \in PM!ReadAt("system")
    BY <1>1, OwnBeforeSystem
  <2>3. PM!Shows("runtime") = proc.busy
    BY DEF PM!Shows
  <2> QED
    BY <2>1, <2>2, <2>3, ReadingInRange
<1>4. r["pid"] <= r["runtime"] + proc.niced /\ r["pid"] \in Int /\ r["runtime"] \in Int
  <2>1. after.pid <= proc.run /\ proc.run <= proc.busy + proc.niced
    BY <1>1 DEF MonitorInv, MonitorOrder
  <2>2. r["pid"] \in 0 .. Modulus - 1 /\ r["runtime"] \in 0 .. Modulus - 1
    BY <1>2 DEF PM!Counter
  <2> HIDE DEF r
  <2> QED
    BY <1>1, <1>3, <2>1, <2>2
<1> HIDE DEF r
<1>5. CASE monitor = "power"
  <2>1. PICK n : n \in {r["energy"], 0} /\ after' = [r EXCEPT !["energy"] = n]
    BY <1>5 DEF PM!CpuFreqStat, r
  <2>2. n \in 0 .. Modulus - 1
    BY <1>2, <2>1, ProcFsAssumption DEF PM!Counter
  <2>3. /\ DOMAIN after' = PM!Counter /\ \A c \in PM!Counter : after'[c] \in 0 .. Modulus - 1
        /\ after'["pid"] = r["pid"] /\ after'["runtime"] = r["runtime"]
        /\ after' = [c \in PM!Counter |-> after'[c]]
    BY <1>2, <2>1, <2>2 DEF PM!Counter
  <2>4. leaked' \in 0 .. MaxFiles
    BY <1>1, <1>5 DEF PM!CpuFreqStat
  <2> QED
    BY <1>4, <2>3, <2>4, RangeType
<1>6. CASE monitor = "resources"
  <2>1. after' = r /\ leaked' = leaked
    BY <1>6 DEF r
  <2> QED
    BY <1>1, <1>2, <1>4, <2>1, RangeType
<1> QED
  BY <1>1, <1>5, <1>6

\* What a line adds.
LEMMA Written ==
    ASSUME counted \in PM!Stats, NEW change, PM!Write(change),
           \A c \in DOMAIN change : change[c] \in Int
    PROVE  /\ line' \in PM!Stats /\ counted' \in PM!Stats
           /\ \A c \in PM!Counter :
                 counted'[c] =
                    (counted[c] + (IF c \in DOMAIN change THEN change[c] ELSE 0)) % Modulus
<1>1. line' = [c \in PM!Counter |-> IF c \in DOMAIN change THEN change[c] ELSE 0]
  BY DEF PM!Write
<1>2. counted' = [c \in PM!Counter |-> (counted[c] + line'[c]) % Modulus]
  BY DEF PM!Write
<1>3. \A c \in PM!Counter : line'[c] \in Int /\ counted[c] \in Int
  BY <1>1 DEF PM!Stats
<1>4. ASSUME NEW c \in PM!Counter PROVE counted'[c] \in Int
  <2>1. counted[c] + line'[c] \in Int /\ Modulus \in Nat \ {0}
    BY <1>3, ProcFsAssumption
  <2> QED
    BY <1>2, <2>1
<1>5. line' \in PM!Stats /\ counted' \in PM!Stats
  BY <1>1, <1>2, <1>3, <1>4 DEF PM!Stats
<1> QED
  BY <1>1, <1>2, <1>5

\* The process's own files are read.
LEMMA MonitorReadOwn ==
    ASSUME PM!MonitorAssumption, MonitorInv, PM!ReadOwn
    PROVE  MonitorInv'
<1>1. /\ monitor # "disk" /\ at = "own" /\ at' = "system" /\ (first \/ samples < MaxSamples)
      /\ after' = PM!Reading("own")
      /\ UNCHANGED <<proc, moves, monitor, first, before, line, counted, leaked, broken,
                     samples>>
  BY DEF PM!ReadOwn, PM!procVars
<1>2. after' \in PM!Stats /\ \A c \in PM!Counter : after'[c] \in 0 .. Modulus - 1
  <2>1. after' = [c \in PM!Counter |-> after'[c]]
    BY <1>1 DEF PM!Reading
  <2> QED
    BY <1>1, <2>1, ReadingInRange, RangeType
<1>3. after'.pid = proc.run
  <2>1. "pid" \in PM!Counter /\ PM!Shows("pid") = proc.run
    BY DEF PM!Counter, PM!Shows
  <2>2. "pid" \in PM!ReadAt("own")
    BY <1>1, OwnBeforeSystem DEF MonitorInv, PM!TypeOK
  <2> QED
    BY <1>1, <2>1, <2>2, ReadingInRange
<1>4. PM!TypeOK'
  BY <1>1, <1>2 DEF MonitorInv, PM!TypeOK, PM!ProcType
<1>5. MonitorOrder'
  <2>1. proc.run \in Nat
    BY DEF MonitorInv, PM!TypeOK, PM!ProcType
  <2> QED
    BY <1>1, <1>3, <2>1 DEF MonitorInv, MonitorOrder, PM!ProcessTimeWithinSystem
<1>6. MonitorBounded'
  BY <1>1, <1>2 DEF MonitorInv, MonitorBounded
<1>7. PM!LinesAddUp'
  BY <1>1 DEF MonitorInv, PM!LinesAddUp
<1> QED
  BY <1>4, <1>5, <1>6, <1>7 DEF MonitorInv

\* The reading before the loop is complete.
LEMMA MonitorFirstReading ==
    ASSUME PM!MonitorAssumption, MonitorInv, PM!FirstReading
    PROVE  MonitorInv'
<1>1. /\ at = "system" /\ first /\ at' = "own" /\ first' = FALSE
      /\ before' = after' /\ counted' = after'
      /\ UNCHANGED <<proc, moves, monitor, line, broken, samples>>
      /\ monitor # "disk"
  BY DEF PM!FirstReading, PM!procVars, MonitorInv, MonitorOrder
<1>2. /\ after' \in PM!Stats /\ \A c \in PM!Counter : after'[c] \in 0 .. Modulus - 1
      /\ after'.pid <= after'.runtime + proc.niced /\ leaked' \in 0 .. MaxFiles
  BY <1>1, SystemStage DEF PM!FirstReading
<1>3. PM!TypeOK'
  BY <1>1, <1>2 DEF MonitorInv, PM!TypeOK, PM!ProcType
<1>4. MonitorOrder'
  BY <1>1, <1>2 DEF MonitorInv, MonitorOrder, PM!ProcessTimeWithinSystem
<1>5. MonitorBounded'
  BY <1>1, <1>2 DEF MonitorInv, MonitorBounded
<1>6. PM!LinesAddUp'
  BY <1>1 DEF PM!LinesAddUp
<1> QED
  BY <1>3, <1>4, <1>5, <1>6 DEF MonitorInv

\* power_monitor() writes a line or skips one.
LEMMA MonitorPower ==
    ASSUME PM!MonitorAssumption, MonitorInv, PM!PowerSample
    PROVE  MonitorInv'
<1>1. /\ monitor = "power" /\ at = "system" /\ ~first /\ at' = "own" /\ samples' = samples + 1
      /\ PM!CpuFreqStat /\ PM!CalculateAndUpdate
      /\ UNCHANGED <<proc, moves, monitor, first, broken>>
  BY DEF PM!PowerSample, PM!procVars
<1>2. /\ after' \in PM!Stats /\ \A c \in PM!Counter : after'[c] \in 0 .. Modulus - 1
      /\ after'.pid <= after'.runtime + proc.niced /\ leaked' \in 0 .. MaxFiles
  BY <1>1, SystemStage
<1>3. /\ before \in PM!Stats /\ line \in PM!Stats /\ counted \in PM!Stats
      /\ \A c \in PM!Counter : before[c] \in 0 .. Modulus - 1 /\ counted[c] = before[c]
      /\ before.pid <= before.runtime + proc.niced
      /\ samples \in 0 .. MaxSamples /\ samples < MaxSamples /\ MaxSamples \in Nat
  BY <1>1 DEF MonitorInv, MonitorOrder, MonitorBounded, PM!TypeOK, PM!LinesAddUp,
              PM!ProcessTimeWithinSystem, PM!MonitorAssumption
<1>4. /\ before' \in PM!Stats /\ line' \in PM!Stats /\ counted' \in PM!Stats
      /\ \A c \in PM!Counter : before'[c] \in 0 .. Modulus - 1 /\ counted'[c] = before'[c]
      /\ before'.pid <= before'.runtime + proc.niced
  <2>1. CASE UNCHANGED <<before, line, counted>>
    BY <1>3, <2>1
  <2> DEFINE change == [c \in PM!Counter |-> PM!Increase(c)]
  <2>2. CASE PM!Write(change) /\ before' = after'
    <3>1. ASSUME NEW c \in PM!Counter
          PROVE  change[c] \in Int /\ (counted[c] + change[c]) % Modulus = after'[c]
      <4>1. /\ after'[c] \in 0 .. Modulus - 1 /\ before[c] \in 0 .. Modulus - 1
            /\ counted[c] = before[c] /\ Modulus \in Nat
        BY <1>2, <1>3, ProcFsAssumption
      <4>2. /\ (before[c] + PM!Minus(after'[c], before[c])) % Modulus = after'[c]
            /\ (before[c] + (after'[c] - before[c])) % Modulus = after'[c]
            /\ PM!Minus(after'[c], before[c]) \in 0 .. Modulus - 1
        BY <4>1, Telescope
      <4>3. change[c] \in {after'[c] - before[c], PM!Minus(after'[c], before[c])}
        BY DEF PM!Increase
      <4> QED
        BY <4>1, <4>2, <4>3
    <3>2. DOMAIN change = PM!Counter
      OBVIOUS
    <3> HIDE DEF change
    <3>3. /\ line' \in PM!Stats /\ counted' \in PM!Stats
          /\ \A c \in PM!Counter : counted'[c] = (counted[c] + change[c]) % Modulus
      BY <1>3, <2>2, <3>1, <3>2, Written
    <3> QED
      BY <1>2, <2>2, <3>1, <3>3
  <2> QED
    BY <1>1, <2>1, <2>2 DEF PM!CalculateAndUpdate
<1>5. PM!TypeOK'
  <2>1. samples' \in 0 .. MaxSamples
    BY <1>1, <1>3
  <2> QED
    BY <1>1, <1>2, <1>4, <2>1 DEF MonitorInv, PM!TypeOK, PM!ProcType
<1>6. MonitorOrder'
  BY <1>1, <1>4 DEF MonitorInv, MonitorOrder, PM!ProcessTimeWithinSystem
<1>7. MonitorBounded'
  BY <1>1, <1>2, <1>4 DEF MonitorInv, MonitorBounded
<1>8. PM!LinesAddUp'
  BY <1>1, <1>4 DEF PM!LinesAddUp
<1> QED
  BY <1>5, <1>6, <1>7, <1>8 DEF MonitorInv

\* resources_monitor() writes a rate.
LEMMA MonitorResources ==
    ASSUME PM!MonitorAssumption, MonitorInv, PM!ResourcesSample
    PROVE  MonitorInv'
<1>1. /\ monitor = "resources" /\ at = "system" /\ ~first /\ at' = "own"
      /\ samples' = samples + 1 /\ before' = after' /\ after' = PM!Reading("system")
      /\ UNCHANGED <<proc, moves, monitor, first, leaked, broken>>
  BY DEF PM!ResourcesSample, PM!procVars
<1>2. /\ after' \in PM!Stats /\ \A c \in PM!Counter : after'[c] \in 0 .. Modulus - 1
      /\ after'.pid <= after'.runtime + proc.niced
  BY <1>1, SystemStage
<1>3. /\ before \in PM!Stats /\ counted \in PM!Stats
      /\ samples \in 0 .. MaxSamples /\ samples < MaxSamples /\ MaxSamples \in Nat
  BY <1>1 DEF MonitorInv, MonitorOrder, PM!TypeOK, PM!MonitorAssumption
<1>4. line' \in PM!Stats /\ counted' \in PM!Stats
  <2>1. \A c \in PM!Counter : PM!Increase(c) \in Int
    <3>1. \A c \in PM!Counter : after'[c] \in Int /\ before[c] \in Int
      BY <1>2, <1>3 DEF PM!Stats
    <3>2. \A a, b \in Int : a - b \in Int /\ PM!Minus(a, b) \in Int
      BY ProcFsAssumption DEF PM!Minus
    <3> QED
      BY <3>1, <3>2 DEF PM!Increase
  <2>2. {"pid", "runtime"} \subseteq PM!Counter
    BY DEF PM!Counter
  <2> DEFINE zero == [c \in {"pid", "runtime"} |-> 0]
             change == [c \in {"pid", "runtime"} |-> PM!Increase(c)]
  <2>3. /\ \A c \in DOMAIN zero : zero[c] \in Int
        /\ \A c \in DOMAIN change : change[c] \in Int
    BY <2>1, <2>2
  <2>4. PM!Write(zero) \/ PM!Write(change)
    BY DEF PM!ResourcesSample
  <2> HIDE DEF zero, change
  <2> QED
    BY <1>3, <2>3, <2>4, Written
<1>5. PM!TypeOK'
  <2>1. samples' \in 0 .. MaxSamples
    BY <1>1, <1>3
  <2> QED
    BY <1>1, <1>2, <1>4, <2>1 DEF MonitorInv, PM!TypeOK, PM!ProcType
<1>6. MonitorOrder'
  BY <1>1, <1>2 DEF MonitorInv, MonitorOrder, PM!ProcessTimeWithinSystem
<1>7. MonitorBounded'
  BY <1>1, <1>2 DEF MonitorInv, MonitorBounded
<1>8. PM!LinesAddUp'
  BY <1>1 DEF PM!LinesAddUp
<1> QED
  BY <1>5, <1>6, <1>7, <1>8 DEF MonitorInv

\* disk_monitor() reads one file, or keeps what it has read.
LEMMA MonitorDisk ==
    ASSUME PM!MonitorAssumption, MonitorInv, NEW ok \in BOOLEAN, PM!DiskSample(ok)
    PROVE  MonitorInv'
<1>1. /\ monitor = "disk" /\ at = "own" /\ (first \/ samples < MaxSamples)
      /\ before' = after /\ after' = IF ok THEN PM!Reading("own") ELSE after
      /\ first' = FALSE
      /\ UNCHANGED <<proc, moves, monitor, at, leaked, broken>>
  BY DEF PM!DiskSample, PM!procVars
<1>2. /\ before \in PM!Stats /\ after \in PM!Stats /\ counted \in PM!Stats /\ line \in PM!Stats
      /\ \A c \in PM!Counter : after[c] \in 0 .. Modulus - 1
      /\ counted["bytes"] = after["bytes"]
      /\ samples \in 0 .. MaxSamples /\ MaxSamples \in Nat
  BY <1>1 DEF MonitorInv, MonitorBounded, PM!TypeOK, PM!LinesAddUp, PM!MonitorAssumption
<1>3. after' \in PM!Stats /\ \A c \in PM!Counter : after'[c] \in 0 .. Modulus - 1
  <2>1. CASE ok
    <3>1. after' = PM!Reading("own") /\ after' = [c \in PM!Counter |-> after'[c]]
      BY <1>1, <2>1 DEF PM!Reading
    <3> QED
      BY <3>1, ReadingInRange, RangeType
  <2>2. CASE ~ok
    BY <1>1, <1>2, <2>2
  <2> QED
    BY <2>1, <2>2
<1>4. /\ line' \in PM!Stats /\ counted' \in PM!Stats /\ counted'["bytes"] = after'["bytes"]
      /\ samples' \in 0 .. MaxSamples
  <2>1. CASE first
    <3>1. counted' = after' /\ samples' = samples /\ line' = line
      BY <2>1 DEF PM!DiskSample
    <3> QED
      BY <1>2, <1>3, <3>1
  <2>2. CASE ~first
    <3> DEFINE change == [c \in {"bytes"} |-> PM!Minus(after'[c], before'[c])]
    <3>1. PM!Write(change) /\ samples' = samples + 1
      BY <2>2 DEF PM!DiskSample
    <3>2. /\ "bytes" \in PM!Counter /\ before'["bytes"] = after["bytes"]
          /\ after["bytes"] \in 0 .. Modulus - 1 /\ after'["bytes"] \in 0 .. Modulus - 1
      BY <1>1, <1>2, <1>3 DEF PM!Counter
    <3>3. /\ DOMAIN change = {"bytes"}
          /\ change["bytes"] = PM!Minus(after'["bytes"], after["bytes"])
          /\ change["bytes"] \in Int
          /\ (after["bytes"] + change["bytes"]) % Modulus = after'["bytes"]
      <4>1. /\ PM!Minus(after'["bytes"], after["bytes"]) \in 0 .. Modulus - 1
            /\ (after["bytes"] + PM!Minus(after'["bytes"], after["bytes"])) % Modulus
                  = after'["bytes"]
        BY <3>2, Telescope
      <4>2. change["bytes"] = PM!Minus(after'["bytes"], after["bytes"])
        BY <3>2
      <4> QED
        BY <4>1, <4>2
    <3> HIDE DEF change
    <3>4. \A c \in DOMAIN change : change[c] \in Int
      BY <3>3
    <3>5. /\ line' \in PM!Stats /\ counted' \in PM!Stats
          /\ counted'["bytes"] = (counted["bytes"] + change["bytes"]) % Modulus
      BY <1>2, <3>1, <3>2, <3>3, <3>4, Written
    <3>6. samples' \in 0 .. MaxSamples
      BY <1>1, <1>2, <2>2, <3>1
    <3> QED
      BY <1>2, <3>3, <3>5, <3>6
  <2> QED
    BY <2>1, <2>2
<1>5. PM!TypeOK'
  BY <1>1, <1>2, <1>3, <1>4 DEF MonitorInv, PM!TypeOK, PM!ProcType
<1>6. MonitorOrder'
  BY <1>1 DEF MonitorInv, MonitorOrder, PM!ProcessTimeWithinSystem
<1>7. MonitorBounded'
  BY <1>1, <1>2, <1>3 DEF MonitorInv, MonitorBounded
<1>8. PM!LinesAddUp'
  BY <1>1, <1>4 DEF PM!LinesAddUp
<1> QED
  BY <1>5, <1>6, <1>7, <1>8 DEF MonitorInv

\* The inductive step, action by action.
LEMMA MonitorStep ==
    ASSUME PM!MonitorAssumption
    PROVE  MonitorInv /\ [PM!Next]_(PM!vars) => MonitorInv'
<1> SUFFICES ASSUME MonitorInv, [PM!Next]_(PM!vars) PROVE MonitorInv'
  OBVIOUS
<1>1. CASE UNCHANGED PM!vars
  BY <1>1 DEF PM!vars, PM!procVars, MonitorInv, MonitorOrder, MonitorBounded, PM!TypeOK,
              PM!ProcType, PM!ProcessTimeWithinSystem, PM!LinesAddUp
<1>2. CASE PM!ExitsOnFailure \/ PM!ExitsWithoutDescriptors
  <2>1. /\ monitor # "disk" /\ at' = "exited" /\ broken' \in BOOLEAN
        /\ UNCHANGED <<proc, moves, monitor, first, before, after, line, counted, leaked,
                       samples>>
    BY <1>2 DEF PM!ExitsOnFailure, PM!ExitsWithoutDescriptors, PM!procVars, MonitorInv,
        PM!TypeOK
  <2>2. PM!TypeOK'
    BY <2>1 DEF MonitorInv, PM!TypeOK, PM!ProcType
  <2> QED
    BY <2>1, <2>2 DEF MonitorInv, MonitorOrder, MonitorBounded,
                      PM!ProcessTimeWithinSystem, PM!LinesAddUp
<1> QED
  BY <1>1, <1>2, MonitorProc, MonitorReadOwn, MonitorFirstReading, MonitorPower,
     MonitorResources, MonitorDisk DEF PM!Next

-----------------------------------------------------------------------------
(* What the kernel shows *)

\* The least-number principle, which stands in for induction.
LEMMA LeastNatural ==
    ASSUME NEW N \in SUBSET Nat, N # {}
    PROVE  \E n \in N : \A m \in N : n <= m
<1> DEFINE R == OpToRel(<, Nat)
<1>1. IsWellFoundedOn(R, Nat)
  BY NatLessThanWellFounded
<1>2. PICK n \in N : \A m \in N : ~(<<m, n>> \in R)
  <2> HIDE DEF R
  <2> QED
    BY <1>1, WFMin
<1>3. ASSUME NEW m \in N PROVE n <= m
  <2>1. R = {ss \in Nat \X Nat : ss[1] < ss[2]}
    BY DEF OpToRel
  <2>2. m \in Nat /\ n \in Nat /\ (m < n => <<m, n>> \in R)
    BY <2>1
  <2> HIDE DEF R
  <2> QED
    BY <1>2, <2>2
<1> QED
  BY <1>3

\* One step of adding up: an element of the set and the sum of the others.
Taken(s) == CHOOSE x \in s : TRUE
SumStep(f, g, s) == IF s = {} THEN 0 ELSE g[s \ {Taken(s)}] + f[Taken(s)]

\* The function that FoldSet() adds up with, and its value for the whole set.
Sums(f, S) == CHOOSE g : g = [s \in SUBSET S |-> SumStep(f, g, s)]

\* Of a set that is not empty an element is taken, and the rest is smaller.
LEMMA TakenRest ==
    ASSUME NEW S, IsFiniteSet(S), NEW s \in SUBSET S, s # {}
    PROVE  /\ Taken(s) \in s /\ s \ {Taken(s)} \in SUBSET S
           /\ Cardinality(s) \in Nat
           /\ Cardinality(s \ {Taken(s)}) = Cardinality(s) - 1
<1>1. Taken(s) \in s
  BY DEF Taken
<1>2. IsFiniteSet(s) /\ Cardinality(s) \in Nat
  BY FS_Subset, FS_CardinalityType
<1>3. Cardinality(s \ {Taken(s)}) = Cardinality(s) - 1
  BY <1>1, <1>2, FS_RemoveElement
<1> QED
  BY <1>1, <1>2, <1>3

\* The size of a part of a finite set.
LEMMA SumSize ==
    ASSUME NEW S, IsFiniteSet(S), NEW s \in SUBSET S
    PROVE  Cardinality(s) \in Nat /\ (Cardinality(s) = 0 <=> s = {})
  BY FS_Subset, FS_CardinalityType, FS_EmptySet

\* There is a function that adds up every set of at most n elements.
SumsUpTo(f, S, n) ==
    \E g \in [SUBSET S -> Int] :
        \A s \in SUBSET S : Cardinality(s) <= n => g[s] = SumStep(f, g, s)

\* That function exists for every n: the least n for which there is none would
\* be a step away from one for which there is.
LEMMA SumsExist ==
    ASSUME NEW S, IsFiniteSet(S), NEW f, \A x \in S : f[x] \in Int, NEW n \in Nat
    PROVE  SumsUpTo(f, S, n)
<1> DEFINE Bad == {m \in Nat : ~SumsUpTo(f, S, m)}
<1> SUFFICES ASSUME Bad # {} PROVE FALSE
  OBVIOUS
<1>1. PICK m \in Bad : \A k \in Bad : m <= k
  <2> HIDE DEF Bad
  <2>1. Bad \in SUBSET Nat
    BY DEF Bad
  <2> QED
    BY <2>1, LeastNatural
<1>2. CASE m = 0
  <2> DEFINE g == [s \in SUBSET S |-> 0]
  <2>1. g \in [SUBSET S -> Int]
    OBVIOUS
  <2>2. ASSUME NEW s \in SUBSET S, Cardinality(s) <= 0
        PROVE  g[s] = SumStep(f, g, s)
    <3>1. s = {}
      BY <2>2, SumSize
    <3> QED
      BY <3>1 DEF SumStep
  <2> HIDE DEF g
  <2> QED
    BY <1>1, <1>2, <2>1, <2>2 DEF SumsUpTo
<1>3. CASE m # 0
  <2>1. m \in Nat /\ m - 1 \in Nat /\ SumsUpTo(f, S, m - 1)
    BY <1>1, <1>3
  <2>2. PICK g \in [SUBSET S -> Int] :
              \A s \in SUBSET S : Cardinality(s) <= m - 1 => g[s] = SumStep(f, g, s)
    BY <2>1 DEF SumsUpTo
  <2> DEFINE h == [s \in SUBSET S |-> SumStep(f, g, s)]
  <2>3. ASSUME NEW s \in SUBSET S
        PROVE  SumStep(f, g, s) \in Int
    <3>1. CASE s = {}
      BY <3>1 DEF SumStep
    <3>2. CASE s # {}
      <4>1. Taken(s) \in s /\ s \ {Taken(s)} \in SUBSET S
        BY <3>2, TakenRest
      <4> QED
        BY <3>2, <4>1 DEF SumStep
    <3> QED
      BY <3>1, <3>2
  <2>4. h \in [SUBSET S -> Int]
    BY <2>3
  <2>5. ASSUME NEW s \in SUBSET S, Cardinality(s) <= m
        PROVE  h[s] = SumStep(f, h, s)
    <3>1. h[s] = SumStep(f, g, s)
      OBVIOUS
    <3>2. CASE s = {}
      BY <3>1, <3>2 DEF SumStep
    <3>3. CASE s # {}
      <4> DEFINE r == s \ {Taken(s)}
      <4>1. r \in SUBSET S /\ Cardinality(r) <= m - 1
        BY <2>1, <2>5, <3>3, TakenRest
      <4>2. h[r] = g[r]
        BY <2>2, <4>1
      <4> QED
        BY <3>1, <3>3, <4>2 DEF SumStep
    <3> QED
      BY <3>2, <3>3
  <2> HIDE DEF h
  <2> QED
    BY <1>1, <2>4, <2>5 DEF SumsUpTo
<1> QED
  BY <1>2, <1>3

\* Adding up integers over a finite set gives an integer.
LEMMA SumIsInteger ==
    ASSUME NEW S, IsFiniteSet(S), NEW f, \A x \in S : f[x] \in Int
    PROVE  Sums(f, S)[S] \in Int
<1> DEFINE n == Cardinality(S)
           g == Sums(f, S)
<1>1. n \in Nat
  BY FS_CardinalityType
<1>2. PICK k \in [SUBSET S -> Int] :
            \A s \in SUBSET S : Cardinality(s) <= n => k[s] = SumStep(f, k, s)
  <2>1. SumsUpTo(f, S, n)
    <3> HIDE DEF n
    <3> QED
      BY <1>1, SumsExist
  <2> QED
    BY <2>1 DEF SumsUpTo
<1>3. k = [s \in SUBSET S |-> SumStep(f, k, s)]
  <2>1. \A s \in SUBSET S : k[s] = SumStep(f, k, s)
    BY <1>2, FS_Subset
  <2> QED
    BY <2>1
<1>4. g = [s \in SUBSET S |-> SumStep(f, g, s)]
  BY <1>3 DEF Sums
<1> DEFINE Bad == {m \in Nat : \E s \in SUBSET S : Cardinality(s) = m /\ g[s] \notin Int}
<1>5. ASSUME NEW s \in SUBSET S
      PROVE  g[s] = SumStep(f, g, s)
  <2> HIDE DEF g
  <2> QED
    BY <1>4
<1> HIDE DEF g
<1>6. Bad = {}
  <2> SUFFICES ASSUME Bad # {} PROVE FALSE
    OBVIOUS
  <2>1. PICK m \in Bad : \A i \in Bad : m <= i
    <3>1. Bad \in SUBSET Nat
      OBVIOUS
    <3> HIDE DEF Bad
    <3> QED
      BY <3>1, LeastNatural
  <2>2. PICK s \in SUBSET S : Cardinality(s) = m /\ g[s] \notin Int
    BY <2>1
  <2>3. ASSUME s = {} PROVE FALSE
    <3>1. g[s] = 0
      BY <1>5, <2>3 DEF SumStep
    <3> QED
      BY <2>2, <3>1
  <2> DEFINE r == s \ {Taken(s)}
  <2>4. r \in SUBSET S /\ Taken(s) \in S /\ Cardinality(r) \in Nat /\ Cardinality(r) < m
    BY <2>2, <2>3, TakenRest, SumSize
  <2>5. g[r] \in Int
    BY <2>1, <2>4
  <2>6. g[s] = g[r] + f[Taken(s)]
    BY <1>5, <2>3 DEF SumStep
  <2> QED
    BY <2>2, <2>4, <2>5, <2>6
<1>7. g[S] \in Int
  BY <1>1, <1>6
<1> QED
  BY <1>7 DEF g

\* sys_IO_stat_read(): the sum over the processes there are is an unsigned
\* long long.
LEMMA IoTotalType ==
    ASSUME ProcType
    PROVE  IoTotal \in 0 .. Modulus - 1
<1>1. IsFiniteSet(proc.live) /\ \A p \in proc.live : proc.io[p] \in Int
  BY ProcFsAssumption, FS_Subset DEF ProcType
<1>2. Sums(proc.io, proc.live)[proc.live] \in Int
  BY <1>1, SumIsInteger
<1>3. IoTotal = Sums(proc.io, proc.live)[proc.live] % Modulus
  BY DEF IoTotal, FoldSet, MapThenFoldSet, Sums, SumStep, Taken
<1> QED
  BY <1>2, <1>3, ProcFsAssumption

\* A change of the counters keeps their types, and adds one to a counter.
LEMMA ProcMovesType ==
    ASSUME ProcType, moves < MaxMoves, moves' = moves + 1,
           \/ \E own \in BOOLEAN : Run(own)
           \/ Rest \/ MemoryChanges \/ OwnIo
           \/ \E i \in Interface : Traffic(i)
           \/ \E p \in Process : DiskIo(p) \/ ProcessEnds(p)
    PROVE  /\ ProcType'
           /\ proc'.busy \in {proc.busy, proc.busy + 1}
           /\ proc'.idle \in {proc.idle, proc.idle + 1}
           /\ proc'.busy = proc.busy \/ proc'.idle = proc.idle
           /\ proc'.other = proc.other
<1>1. /\ proc \in [busy : Nat, other : Nat, idle : Nat, run : Nat, niced : Nat,
                   bytes : Nat, energy : Nat, misses : Nat, free : 0 .. MemTotal,
                   net : [Interface -> Nat], io : [Process -> Nat],
                   live : SUBSET Process]
      /\ moves' \in 0 .. MaxMoves
  BY ProcFsAssumption DEF ProcType
<1> USE DEF ProcType
<1>2. CASE \E own \in BOOLEAN : Run(own)
  <2>1. PICK own \in BOOLEAN : Run(own)
    BY <1>2
  <2>2. PICK n \in {0, 1} :
            proc' = [proc EXCEPT !.busy = proc.busy + 1, !.run = proc.run + n,
                                 !.energy = proc.energy + 1, !.misses = proc.misses + 1]
    BY <2>1 DEF Run
  <2>3. /\ proc.busy + 1 \in Nat /\ proc.run + n \in Nat
        /\ proc.energy + 1 \in Nat /\ proc.misses + 1 \in Nat
    BY <1>1
  <2>4. proc'.busy = proc.busy + 1 /\ proc'.idle = proc.idle /\ proc'.other = proc.other
    BY <1>1, <2>2
  <2>5. ProcType'
    BY <1>1, <2>2, <2>3
  <2> QED
    BY <2>4, <2>5
<1>3. CASE Rest \/ MemoryChanges \/ OwnIo
  BY <1>1, <1>3 DEF Rest, MemoryChanges, OwnIo
<1>4. CASE \E i \in Interface : Traffic(i)
  <2>1. PICK i \in Interface : Traffic(i)
    BY <1>4
  <2>2. proc' = [proc EXCEPT !.net = [proc.net EXCEPT ![i] = proc.net[i] + 1]]
    BY <1>1, <2>1 DEF Traffic
  <2>3. [proc.net EXCEPT ![i] = proc.net[i] + 1] \in [Interface -> Nat]
    BY <1>1
  <2> QED
    BY <1>1, <2>2, <2>3
<1>5. CASE \E p \in Process : DiskIo(p)
  <2>1. PICK p \in Process : DiskIo(p)
    BY <1>5
  <2>2. proc' = [proc EXCEPT !.io = [proc.io EXCEPT ![p] = proc.io[p] + 1]]
    BY <1>1, <2>1 DEF DiskIo
  <2>3. [proc.io EXCEPT ![p] = proc.io[p] + 1] \in [Process -> Nat]
    BY <1>1
  <2> QED
    BY <1>1, <2>2, <2>3
<1>6. CASE \E p \in Process : ProcessEnds(p)
  BY <1>1, <1>6 DEF ProcessEnds
<1> QED
  BY <1>2, <1>3, <1>4, <1>5, <1>6

-----------------------------------------------------------------------------
(* Linux_sys_power *)

\* The counters that are unsigned in the code stay in their range.
Unsigned == {"net", "io", "misses"}
PowerBounded ==
    \A c \in Unsigned : before[c] \in 0 .. Modulus - 1 /\ after[c] \in 0 .. Modulus - 1

\* Names and figures are in the same slots once a sample is taken.
PowerSlots ==
    /\ up = "running" => events = LS!Events(flag)
    /\ up # "running" => flag = {} /\ samples = 0
    /\ samples > 0 => \A i \in DOMAIN events : values[i].of = events[i]
    /\ samples = 0 => \A i \in DOMAIN values : values[i].of = "unset"

\* A sample moves every previous value on to what it has read.
PowerMoved == samples > 0 => \A c \in LS!Read(flag) : before[c] = after[c]

\* The amounts of a part add up to the previous values.
PowerCounted ==
    \A p \in LS!PartsOf(flag) : \A c \in LS!Uses(p) : counted[p][c] = before[c]

PowerInv == LS!TypeOK /\ PowerBounded /\ PowerSlots /\ PowerMoved /\ PowerCounted

\* What a sequence of names holds.
Names(s) == {s[i] : i \in DOMAIN s}

\* Two sequences one after the other hold what either of them holds.
LEMMA NamesConcat ==
    ASSUME NEW T, NEW p \in Seq(T), NEW q \in Seq(T)
    PROVE  p \o q \in Seq(T) /\ Names(p \o q) = Names(p) \cup Names(q)
<1> DEFINE pq == p \o q
<1>1. /\ pq \in Seq(T) /\ Len(pq) = Len(p) + Len(q) /\ DOMAIN pq = 1 .. Len(p) + Len(q)
      /\ DOMAIN p = 1 .. Len(p) /\ DOMAIN q = 1 .. Len(q)
      /\ Len(p) \in Nat /\ Len(q) \in Nat
  OBVIOUS
<1>2. /\ \A i \in 1 .. Len(p) : pq[i] = p[i]
      /\ \A i \in 1 .. Len(p) + Len(q) : i > Len(p) => pq[i] = q[i - Len(p)]
  OBVIOUS
<1> HIDE DEF pq
<1>3. ASSUME NEW i \in DOMAIN pq PROVE pq[i] \in Names(p) \cup Names(q)
  <2>1. CASE i <= Len(p)
    BY <1>1, <1>2, <2>1 DEF Names
  <2>2. CASE i > Len(p)
    <3>1. i - Len(p) \in DOMAIN q /\ pq[i] = q[i - Len(p)]
      BY <1>1, <1>2, <2>2
    <3> QED
      BY <3>1 DEF Names
  <2> QED
    BY <1>1, <2>1, <2>2
<1>4. ASSUME NEW i \in DOMAIN p PROVE p[i] \in Names(pq)
  <2>1. i \in DOMAIN pq /\ pq[i] = p[i]
    BY <1>1, <1>2
  <2> QED
    BY <2>1 DEF Names
<1>5. ASSUME NEW i \in DOMAIN q PROVE q[i] \in Names(pq)
  <2>1. Len(p) + i \in 1 .. Len(p) + Len(q) /\ Len(p) + i > Len(p) /\ (Len(p) + i) - Len(p) = i
    BY <1>1
  <2>2. pq[Len(p) + i] = q[i]
    BY <1>2, <2>1
  <2> QED
    BY <1>1, <2>1, <2>2 DEF Names
<1>6. Names(pq) = Names(p) \cup Names(q)
  BY <1>3, <1>4, <1>5 DEF Names
<1> QED
  BY <1>1, <1>6 DEF pq

\* A metric's name if it is asked for.
LEMMA IfOnNames ==
    ASSUME NEW m \in LS!Metric, NEW on
    PROVE  LS!IfOn(m, on) \in Seq(LS!Metric) /\ Names(LS!IfOn(m, on)) = {m} \cap on
<1>1. CASE m \in on
  <2>1. LS!IfOn(m, on) = <<m>>
    BY <1>1 DEF LS!IfOn
  <2> QED
    BY <1>1, <2>1 DEF Names
<1>2. CASE m \notin on
  <2>1. LS!IfOn(m, on) = <<>>
    BY <1>2 DEF LS!IfOn
  <2> QED
    BY <1>2, <2>1 DEF Names
<1> QED
  BY <1>1, <1>2

\* mf_Linux_sys_power_init(): the names are those of the metrics asked for, of
\* which memory and disk bring each other.
LEMMA PowerEvents ==
    ASSUME NEW on \in SUBSET LS!Metric
    PROVE  /\ LS!Events(on) \in Seq(LS!Metric)
           /\ on \subseteq Names(LS!Events(on))
           /\ Names(LS!Events(on)) \subseteq on \cup {LS!Memory, LS!Disk}
<1> DEFINE t == LS!IfOn(LS!Total, on)
           c == LS!IfOn(LS!Cpu, on)
           w == LS!IfOn(LS!Wifi, on)
           d == LS!MemoryAndDisk(on)
<1>1. LS!Metric = {LS!Total, LS!Cpu, LS!Wifi, LS!Memory, LS!Disk}
  BY DEF LS!Metric, LS!Part
<1>2. /\ t \in Seq(LS!Metric) /\ Names(t) = {LS!Total} \cap on
      /\ c \in Seq(LS!Metric) /\ Names(c) = {LS!Cpu} \cap on
      /\ w \in Seq(LS!Metric) /\ Names(w) = {LS!Wifi} \cap on
  BY <1>1, IfOnNames
<1>3. /\ d \in Seq(LS!Metric)
      /\ Names(d) \subseteq {LS!Memory, LS!Disk}
      /\ {LS!Memory, LS!Disk} \cap on # {} => Names(d) = {LS!Memory, LS!Disk}
  <2>1. CASE {LS!Memory, LS!Disk} \cap on # {}
    <3>1. d = <<LS!Memory, LS!Disk>>
      BY <2>1 DEF LS!MemoryAndDisk
    <3>2. DOMAIN d = {1, 2} /\ d[1] = LS!Memory /\ d[2] = LS!Disk
      BY <3>1
    <3>3. Names(d) = {LS!Memory, LS!Disk}
      BY <3>2 DEF Names
    <3>4. d \in Seq(LS!Metric)
      BY <1>1, <3>1
    <3> QED
      BY <3>3, <3>4
  <2>2. CASE {LS!Memory, LS!Disk} \cap on = {}
    <3>1. d = <<>>
      BY <2>2 DEF LS!MemoryAndDisk
    <3> QED
      BY <2>2, <3>1 DEF Names
  <2> QED
    BY <2>1, <2>2
<1>4. LS!Events(on) = ((t \o c) \o w) \o d
  BY DEF LS!Events
<1> HIDE DEF t, c, w, d
<1> DEFINE tc == t \o c
           tcw == tc \o w
<1>5. tc \in Seq(LS!Metric) /\ Names(tc) = Names(t) \cup Names(c)
  BY <1>2, NamesConcat
<1>6. tcw \in Seq(LS!Metric) /\ Names(tcw) = Names(tc) \cup Names(w)
  <2> HIDE DEF tc
  <2> QED
    BY <1>2, <1>5, NamesConcat
<1>7. /\ LS!Events(on) \in Seq(LS!Metric)
      /\ Names(LS!Events(on)) = Names(tcw) \cup Names(d)
  <2>1. LS!Events(on) = tcw \o d
    BY <1>4
  <2> HIDE DEF tcw
  <2> QED
    BY <1>3, <1>6, <2>1, NamesConcat
<1> HIDE DEF tc, tcw
<1> QED
  BY <1>1, <1>2, <1>3, <1>5, <1>6, <1>7

\* Before the connector is initialised nothing has been read.
LEMMA PowerInitInv ==
    ASSUME LS!SysPowerAssumption
    PROVE  LS!Init => PowerInv
<1> SUFFICES ASSUME LS!Init PROVE PowerInv
  OBVIOUS
<1>1. ProcType
  <2>1. /\ proc = [busy |-> 1, other |-> 0, idle |-> 1, run |-> 0, niced |-> 0,
                   bytes |-> 0, energy |-> 1, misses |-> 1, free |-> 1,
                   net |-> [i \in Interface |-> 1], io |-> [p \in Process |-> 1],
                   live |-> Process]
        /\ moves = 0
    BY DEF LS!Init, LS!ProcInit, LS!Interface, Interface
  <2>2. /\ [i \in Interface |-> 1] \in [Interface -> Nat]
        /\ [p \in Process |-> 1] \in [Process -> Nat]
        /\ Process \in SUBSET Process /\ 1 \in 0 .. MemTotal
    BY DEF MemTotal
  <2>3. moves \in 0 .. MaxMoves
    BY <2>1, ProcFsAssumption
  <2> QED
    BY <2>1, <2>2, <2>3 DEF ProcType
<1>2. LS!ProcType
  BY <1>1 DEF ProcType, LS!ProcType, LS!MemTotal, MemTotal, LS!Interface, Interface
<1>3. LS!TypeOK
  <2>1. leaked \in 0 .. MaxFiles /\ samples \in 0 .. MaxSamples
    BY DEF LS!Init, LS!SysPowerAssumption
  <2>2. LS!None \in [LS!Counter -> Nat] /\ LS!None \in LS!Amounts
    BY DEF LS!None, LS!Amounts
  <2> QED
    BY <1>2, <2>1, <2>2 DEF LS!Init, LS!TypeOK
<1>4. PowerBounded
  <2>1. \A c \in Unsigned : LS!None[c] = 0 /\ 0 \in 0 .. Modulus - 1
    BY ProcFsAssumption DEF LS!None, Unsigned, LS!Counter
  <2> QED
    BY <2>1 DEF LS!Init, PowerBounded
<1>5. PowerSlots /\ PowerMoved
  BY DEF LS!Init, PowerSlots, PowerMoved
<1>6. PowerCounted
  <2>1. LS!PartsOf(flag) = {}
    BY DEF LS!Init, LS!PartsOf
  <2> QED
    BY <2>1 DEF PowerCounted
<1> QED
  BY <1>3, <1>4, <1>5, <1>6 DEF PowerInv

\* What the four readings return: unsigned numbers, and an energy.
LEMMA PowerReading ==
    ASSUME LS!SysPowerAssumption, LS!TypeOK, NEW on \in SUBSET LS!Metric,
           NEW garbage \in Garbage, NEW old \in [LS!Counter -> Nat],
           \A c \in Unsigned : old[c] \in 0 .. Modulus - 1
    PROVE  /\ LS!LeakedBy(on) \in 0 .. MaxFiles
           /\ LS!Reading(on, old, garbage) \in [LS!Counter -> Nat]
           /\ \A c \in Unsigned : LS!Reading(on, old, garbage)[c] \in 0 .. Modulus - 1
<1>1. LS!LeakedBy(on) \in 0 .. MaxFiles
  <2>1. leaked \in 0 .. MaxFiles /\ MaxFiles \in Nat
    BY DEF LS!TypeOK, LS!SysPowerAssumption
  <2>2. Min({leaked + 1, MaxFiles}) \in {leaked + 1, MaxFiles}
        /\ Min({leaked + 1, MaxFiles}) <= MaxFiles
    <3>1. \E x \in {leaked + 1, MaxFiles} :
             \A y \in {leaked + 1, MaxFiles} : x <= y
      BY <2>1
    <3> QED
      BY <3>1 DEF Min
  <2> QED
    BY <2>1, <2>2 DEF LS!LeakedBy, LS!Min
<1>2. ProcType
  BY DEF LS!TypeOK, ProcType, LS!ProcType, LS!MemTotal, MemTotal, LS!Interface, Interface
<1>3. LS!IoTotal \in 0 .. Modulus - 1
  <2>1. LS!IoTotal = Sums(proc.io, proc.live)[proc.live] % Modulus
    BY DEF LS!IoTotal, LS!FoldSet, LS!MapThenFoldSet, Sums, SumStep, Taken
  <2>2. IoTotal = Sums(proc.io, proc.live)[proc.live] % Modulus
    BY DEF IoTotal, FoldSet, MapThenFoldSet, Sums, SumStep, Taken
  <2> QED
    BY <1>2, <2>1, <2>2, IoTotalType
<1>4. LS!CpuEnergy \in Nat
  BY <1>2 DEF LS!CpuEnergy, ProcType
<1>5. LS!MemoryCounter(garbage) \in 0 .. Modulus - 1
  BY <1>2, ProcFsAssumption DEF LS!MemoryCounter, ProcType, LS!SysPowerAssumption
<1>6. LS!NetBytes(MaxFiles - LS!LeakedBy(on), old.net) \in 0 .. Modulus - 1
  <2>1. proc.net["wlan"] \in Nat
    BY <1>2 DEF ProcType, Interface
  <2>2. old.net \in 0 .. Modulus - 1
    BY DEF Unsigned
  <2> QED
    BY <2>1, <2>2, ProcFsAssumption DEF LS!NetBytes
<1>7. LS!IoBytes(MaxFiles - LS!LeakedBy(on), old.io) \in 0 .. Modulus - 1
  BY <1>3, ProcFsAssumption DEF LS!IoBytes, Unsigned
<1>8. ASSUME NEW c \in LS!Counter
      PROVE  /\ LS!Shows(c, MaxFiles - LS!LeakedBy(on), old, garbage) \in Nat
             /\ c \in Unsigned => LS!Shows(c, MaxFiles - LS!LeakedBy(on), old, garbage)
                                    \in 0 .. Modulus - 1
  <2>1. c \in {"energy", "net", "io", "misses"}
    BY DEF LS!Counter
  <2>2. 0 .. Modulus - 1 \subseteq Nat
    BY ProcFsAssumption
  <2> QED
    BY <1>4, <1>5, <1>6, <1>7, <2>1, <2>2 DEF Unsigned, LS!Shows
<1>9. \A c \in LS!Counter : old[c] \in Nat
  OBVIOUS
<1>10. Unsigned \subseteq LS!Counter
  BY DEF Unsigned, LS!Counter
<1> QED
  BY <1>1, <1>8, <1>9, <1>10 DEF LS!Reading

\* The counters of a part are among those that are read when it is computed.
LEMMA PowerUses ==
    ASSUME NEW on \in SUBSET LS!Metric
    PROVE  /\ LS!PartsOf(on) \subseteq LS!Part /\ LS!Read(on) \subseteq LS!Counter
           /\ \A p \in LS!Part : LS!Uses(p) \subseteq LS!Counter
           /\ \A p \in LS!PartsOf(on) : LS!Uses(p) \subseteq LS!Read(on)
<1> USE DEF LS!Cpu, LS!Wifi, LS!Memory, LS!Disk, LS!Total
<1>1. LS!PartsOf(on) \subseteq LS!Part /\ LS!Read(on) \subseteq LS!Counter
  BY DEF LS!PartsOf, LS!Part, LS!Read, LS!Counter
<1>2. ASSUME NEW p \in LS!Part
      PROVE  LS!Uses(p) \subseteq LS!Counter
  BY DEF LS!Part, LS!Uses, LS!Counter
<1>3. ASSUME NEW p \in LS!PartsOf(on)
      PROVE  LS!Uses(p) \subseteq LS!Read(on)
  <2>1. CASE p = LS!Cpu
    <3>1. {LS!Total, LS!Cpu} \cap on # {}
      BY <2>1 DEF LS!PartsOf
    <3> QED
      BY <2>1, <3>1 DEF LS!Uses, LS!Read
  <2>2. CASE p = LS!Wifi
    <3>1. {LS!Total, LS!Wifi} \cap on # {}
      BY <2>2 DEF LS!PartsOf
    <3> QED
      BY <2>2, <3>1 DEF LS!Uses, LS!Read
  <2>3. CASE p \in {LS!Memory, LS!Disk}
    <3>1. {LS!Total, LS!Memory, LS!Disk} \cap on # {}
      BY <2>3 DEF LS!PartsOf
    <3>2. LS!Uses(p) \subseteq {"io", "misses"}
      BY <2>3 DEF LS!Uses
    <3> QED
      BY <3>1, <3>2 DEF LS!Read
  <2> QED
    BY <1>1, <2>1, <2>2, <2>3 DEF LS!Part
<1> QED
  BY <1>1, <1>2, <1>3

\* The previous values and the parts in the course of a sample.
Course == [prev : [LS!Counter -> Nat], part : [LS!Part -> LS!Amounts]]

\* A part that takes what has been added to its counters, and moves one of them on.
Taking(p, now, prev) ==
    [c \in LS!Counter |-> IF c \in LS!Uses(p) THEN LS!Increase(c, now, prev) ELSE 0]
Computes(s, t, p, moved, now) ==
    /\ t \in Course
    /\ t.prev = [s.prev EXCEPT ![moved] = now[moved]]
    /\ t.part = [s.part EXCEPT ![p] = Taking(p, now, s.prev)]

\* The amounts of a part are numbers.
LEMMA TakingType ==
    ASSUME NEW p, NEW now \in [LS!Counter -> Nat], NEW prev \in [LS!Counter -> Nat]
    PROVE  /\ Taking(p, now, prev) \in LS!Amounts
           /\ \A c \in LS!Counter : LS!Increase(c, now, prev) \in Int
<1>1. ASSUME NEW c \in LS!Counter PROVE LS!Increase(c, now, prev) \in Int
  BY ProcFsAssumption DEF LS!Increase, LS!Minus
<1> QED
  BY <1>1 DEF Taking, LS!Amounts

\* ecpu, emem, enet and edisk each compute one part.
LEMMA ComputesPart ==
    ASSUME NEW s \in Course, NEW now \in [LS!Counter -> Nat], NEW p \in LS!Part,
           NEW c \in LS!Counter
    PROVE  Computes(s, LS!MoveOn(LS!Compute(s, p, now), c, now), p, c, now)
<1>1. s.prev \in [LS!Counter -> Nat] /\ s.part \in [LS!Part -> LS!Amounts]
      /\ s = [prev |-> s.prev, part |-> s.part]
  BY DEF Course
<1>2. Taking(p, now, s.prev) \in LS!Amounts
  BY <1>1, TakingType
<1>3. LS!Compute(s, p, now)
        = [prev |-> s.prev, part |-> [s.part EXCEPT ![p] = Taking(p, now, s.prev)]]
  BY <1>1 DEF LS!Compute, Taking
<1>4. LS!MoveOn(LS!Compute(s, p, now), c, now)
        = [prev |-> [s.prev EXCEPT ![c] = now[c]],
           part |-> [s.part EXCEPT ![p] = Taking(p, now, s.prev)]]
  BY <1>3 DEF LS!MoveOn
<1> QED
  BY <1>1, <1>2, <1>4 DEF Computes, Course

\* What a sample computes: each part from the previous values of before it, and the
\* previous values of what has been read.  That is so in both branches.
Outcome(s, on, now) ==
    /\ s \in Course
    /\ \A c \in LS!Counter : s.prev[c] = IF c \in LS!Read(on) THEN now[c] ELSE before[c]
    /\ \A p \in LS!Part :
          s.part[p] = IF p \in LS!PartsOf(on) THEN Taking(p, now, before) ELSE LS!None

LEMMA PowerComputed ==
    ASSUME flag \in SUBSET LS!Metric, before \in [LS!Counter -> Nat],
           NEW now \in [LS!Counter -> Nat]
    PROVE  Outcome(LS!Computed(now), flag, now)
<1> DEFINE s0 == LS!Start
<1>1. s0 \in Course /\ s0.prev = before /\ \A p \in LS!Part : s0.part[p] = LS!None
  <2>1. LS!None \in LS!Amounts
    BY DEF LS!None, LS!Amounts
  <2> QED
    BY <2>1 DEF LS!Start, Course
<1> HIDE DEF s0
<1>2. /\ LS!Cpu \in LS!Part /\ LS!Memory \in LS!Part /\ LS!Wifi \in LS!Part
      /\ LS!Disk \in LS!Part
      /\ {"energy", "misses", "net", "io"} = LS!Counter
  BY DEF LS!Part, LS!Counter
<1>0. /\ LS!Uses(LS!Cpu) = {"energy"} /\ LS!Uses(LS!Wifi) = {"net"}
      /\ LS!Uses(LS!Memory) = {"io", "misses"} /\ LS!Uses(LS!Disk) = {"io"}
  BY DEF LS!Uses, LS!Cpu, LS!Wifi, LS!Memory, LS!Disk
<1>3. ASSUME NEW s \in Course
      PROVE  /\ Computes(s, LS!CpuPart(s, now), LS!Cpu, "energy", now)
             /\ Computes(s, LS!MemoryPart(s, now), LS!Memory, "misses", now)
             /\ Computes(s, LS!WifiPart(s, now), LS!Wifi, "net", now)
             /\ Computes(s, LS!DiskPart(s, now), LS!Disk, "io", now)
  BY <1>2, ComputesPart DEF LS!CpuPart, LS!MemoryPart, LS!WifiPart, LS!DiskPart
<1>4. ASSUME NEW s \in Course, NEW t \in Course, NEW p \in LS!Part, NEW m \in LS!Counter,
             Computes(s, t, p, m, now)
      PROVE  /\ \A c \in LS!Counter : t.prev[c] = IF c = m THEN now[c] ELSE s.prev[c]
             /\ \A q \in LS!Part :
                   t.part[q] = IF q = p THEN Taking(p, now, s.prev) ELSE s.part[q]
  BY <1>4 DEF Computes, Course
<1>5. ASSUME NEW s \in Course, NEW p \in LS!Part,
             \A c \in LS!Uses(p) : s.prev[c] = before[c]
      PROVE  Taking(p, now, s.prev) = Taking(p, now, before)
  BY <1>5 DEF Taking, LS!Increase
<1> DEFINE s1 == IF LS!Cpu \in flag THEN LS!CpuPart(s0, now) ELSE s0
           s2 == IF LS!Wifi \in flag THEN LS!WifiPart(s1, now) ELSE s1
<1>6. CASE LS!Total \in flag
  <2> DEFINE a == LS!CpuPart(s0, now)
             b == LS!MemoryPart(a, now)
             w == LS!WifiPart(b, now)
             d == LS!DiskPart(w, now)
  <2>1. LS!Computed(now) = d
    BY <1>6 DEF LS!Computed, s0
  <2>2. a \in Course /\ Computes(s0, a, LS!Cpu, "energy", now)
    BY <1>1, <1>3 DEF Computes
  <2> HIDE DEF a
  <2>3. b \in Course /\ Computes(a, b, LS!Memory, "misses", now)
    BY <1>3, <2>2 DEF Computes
  <2> HIDE DEF b
  <2>4. w \in Course /\ Computes(b, w, LS!Wifi, "net", now)
    BY <1>3, <2>3 DEF Computes
  <2> HIDE DEF w
  <2>5. d \in Course /\ Computes(w, d, LS!Disk, "io", now)
    BY <1>3, <2>4 DEF Computes
  <2> HIDE DEF d
  <2>6. /\ \A c \in LS!Counter : a.prev[c] = IF c = "energy" THEN now[c] ELSE before[c]
        /\ \A q \in LS!Part :
              a.part[q] = IF q = LS!Cpu THEN Taking(q, now, before) ELSE LS!None
    BY <1>1, <1>2, <1>4, <2>2
  <2>7. Taking(LS!Memory, now, a.prev) = Taking(LS!Memory, now, before)
    <3>1. \A c \in LS!Uses(LS!Memory) : a.prev[c] = before[c]
      BY <2>6, <1>0, <1>2
    <3> QED
      BY <1>2, <1>5, <2>2, <3>1
  <2>8. /\ \A c \in LS!Counter :
              b.prev[c] = IF c \in {"energy", "misses"} THEN now[c] ELSE before[c]
        /\ \A q \in LS!Part : b.part[q] = IF q \in {LS!Cpu, LS!Memory}
                                           THEN Taking(q, now, before) ELSE LS!None
    BY <1>2, <1>4, <2>2, <2>3, <2>6, <2>7
  <2>9. Taking(LS!Wifi, now, b.prev) = Taking(LS!Wifi, now, before)
    <3>1. \A c \in LS!Uses(LS!Wifi) : b.prev[c] = before[c]
      BY <2>8, <1>0, <1>2
    <3> QED
      BY <1>2, <1>5, <2>3, <3>1
  <2>10. /\ \A c \in LS!Counter :
               w.prev[c] = IF c \in {"energy", "misses", "net"} THEN now[c] ELSE before[c]
         /\ \A q \in LS!Part : w.part[q] = IF q \in {LS!Cpu, LS!Memory, LS!Wifi}
                                            THEN Taking(q, now, before) ELSE LS!None
    BY <1>2, <1>4, <2>3, <2>4, <2>8, <2>9
  <2>11. Taking(LS!Disk, now, w.prev) = Taking(LS!Disk, now, before)
    <3>1. \A c \in LS!Uses(LS!Disk) : w.prev[c] = before[c]
      BY <2>10, <1>0, <1>2
    <3> QED
      BY <1>2, <1>5, <2>4, <3>1
  <2>12. /\ \A c \in LS!Counter : d.prev[c] = now[c]
         /\ \A q \in LS!Part : d.part[q] = Taking(q, now, before)
    <3>1. LS!Part = {LS!Cpu, LS!Memory, LS!Wifi, LS!Disk}
      BY DEF LS!Part
    <3> QED
      BY <1>2, <1>4, <2>4, <2>5, <2>10, <2>11, <3>1
  <2>13. LS!Read(flag) = LS!Counter /\ LS!PartsOf(flag) = LS!Part
    BY <1>6 DEF LS!Read, LS!Counter, LS!PartsOf
  <2> QED
    BY <2>1, <2>5, <2>12, <2>13 DEF Outcome
<1>7. CASE LS!Total \notin flag
  <2> DEFINE m1 == IF LS!Cpu \in flag THEN {"energy"} ELSE {}
             p1 == IF LS!Cpu \in flag THEN {LS!Cpu} ELSE {}
             m2 == m1 \cup (IF LS!Wifi \in flag THEN {"net"} ELSE {})
             p2 == p1 \cup (IF LS!Wifi \in flag THEN {LS!Wifi} ELSE {})
  <2>1. /\ s1 \in Course
        /\ \A c \in LS!Counter : s1.prev[c] = IF c \in m1 THEN now[c] ELSE before[c]
        /\ \A q \in LS!Part :
              s1.part[q] = IF q \in p1 THEN Taking(q, now, before) ELSE LS!None
    <3>1. CASE LS!Cpu \in flag
      <4>1. s1 = LS!CpuPart(s0, now) /\ m1 = {"energy"} /\ p1 = {LS!Cpu}
        BY <3>1
      <4>2. s1 \in Course /\ Computes(s0, s1, LS!Cpu, "energy", now)
        BY <1>1, <1>3, <4>1 DEF Computes
      <4> HIDE DEF s1, m1, p1
      <4>3. /\ \A c \in LS!Counter :
                  s1.prev[c] = IF c = "energy" THEN now[c] ELSE before[c]
            /\ \A q \in LS!Part :
                  s1.part[q] = IF q = LS!Cpu THEN Taking(q, now, before) ELSE LS!None
        BY <1>1, <1>2, <1>4, <4>2
      <4> QED
        BY <4>1, <4>2, <4>3
    <3>2. CASE LS!Cpu \notin flag
      <4>1. s1 = s0 /\ m1 = {} /\ p1 = {}
        BY <3>2
      <4> HIDE DEF s1, m1, p1
      <4> QED
        BY <1>1, <4>1
    <3> QED
      BY <3>1, <3>2
  <2>5. "net" \notin m1 /\ {"io", "misses"} \cap m2 = {}
    OBVIOUS
  <2> HIDE DEF s1
  <2>2. /\ s2 \in Course
        /\ \A c \in LS!Counter : s2.prev[c] = IF c \in m2 THEN now[c] ELSE before[c]
        /\ \A q \in LS!Part :
              s2.part[q] = IF q \in p2 THEN Taking(q, now, before) ELSE LS!None
    <3>1. CASE LS!Wifi \in flag
      <4>1. s2 = LS!WifiPart(s1, now) /\ m2 = m1 \cup {"net"} /\ p2 = p1 \cup {LS!Wifi}
        BY <3>1
      <4> HIDE DEF m1, p1, m2, p2
      <4>2. s2 \in Course /\ Computes(s1, s2, LS!Wifi, "net", now)
        BY <1>3, <2>1, <4>1 DEF Computes
      <4>3. Taking(LS!Wifi, now, s1.prev) = Taking(LS!Wifi, now, before)
        <5>1. \A c \in LS!Uses(LS!Wifi) : s1.prev[c] = before[c]
          BY <1>0, <1>2, <2>1, <2>5
        <5> QED
          BY <1>2, <1>5, <2>1, <5>1
      <4> HIDE DEF s2
      <4>4. /\ \A c \in LS!Counter :
                  s2.prev[c] = IF c = "net" THEN now[c] ELSE s1.prev[c]
            /\ \A q \in LS!Part :
                  s2.part[q] = IF q = LS!Wifi THEN Taking(q, now, before) ELSE s1.part[q]
        BY <1>2, <1>4, <2>1, <4>2, <4>3
      <4> QED
        BY <2>1, <4>1, <4>2, <4>4
    <3>2. CASE LS!Wifi \notin flag
      <4>1. s2 = s1 /\ m2 = m1 /\ p2 = p1
        BY <3>2
      <4> HIDE DEF m1, p1, m2, p2, s2
      <4> QED
        BY <2>1, <4>1
    <3> QED
      BY <3>1, <3>2
  <2> HIDE DEF s2
  <2>3. CASE {LS!Memory, LS!Disk} \cap flag # {}
    <3> DEFINE b == LS!MemoryPart(s2, now)
               d == LS!DiskPart(b, now)
    <3>1. LS!Computed(now) = d
      BY <1>7, <2>3 DEF LS!Computed, s0, s1, s2
    <3>2. b \in Course /\ Computes(s2, b, LS!Memory, "misses", now)
      BY <1>3, <2>2 DEF Computes
    <3> HIDE DEF b
    <3>3. d \in Course /\ Computes(b, d, LS!Disk, "io", now)
      BY <1>3, <3>2 DEF Computes
    <3> HIDE DEF d
    <3>4. Taking(LS!Memory, now, s2.prev) = Taking(LS!Memory, now, before)
      <4>1. \A c \in LS!Uses(LS!Memory) : s2.prev[c] = before[c]
        BY <1>0, <1>2, <2>2, <2>5
      <4> QED
        BY <1>2, <1>5, <2>2, <4>1
    <3>5. /\ \A c \in LS!Counter :
                b.prev[c] = IF c = "misses" THEN now[c] ELSE s2.prev[c]
          /\ \A q \in LS!Part :
                b.part[q] = IF q = LS!Memory THEN Taking(q, now, before) ELSE s2.part[q]
      BY <1>2, <1>4, <2>2, <3>2, <3>4
    <3>6. Taking(LS!Disk, now, b.prev) = Taking(LS!Disk, now, before)
      <4>1. \A c \in LS!Uses(LS!Disk) : b.prev[c] = before[c]
        BY <1>0, <1>2, <2>2, <2>5, <3>5
      <4> QED
        BY <1>2, <1>5, <3>2, <4>1
    <3>7. /\ \A c \in LS!Counter :
                d.prev[c] = IF c \in {"io", "misses"} THEN now[c] ELSE s2.prev[c]
          /\ \A q \in LS!Part : d.part[q] = IF q \in {LS!Memory, LS!Disk}
                                             THEN Taking(q, now, before) ELSE s2.part[q]
      BY <1>2, <1>4, <3>2, <3>3, <3>5, <3>6
    <3>8. LS!Read(flag) = m2 \cup {"io", "misses"}
          /\ LS!PartsOf(flag) = p2 \cup {LS!Memory, LS!Disk}
      <4>1. LS!Read(flag) = m2 \cup {"io", "misses"}
        BY <1>7, <2>3 DEF LS!Read
      <4>2. LS!PartsOf(flag) = p2 \cup {LS!Memory, LS!Disk}
        BY <1>7, <2>3 DEF LS!PartsOf
      <4> QED
        BY <4>1, <4>2
    <3> HIDE DEF m2, p2
    <3> QED
      BY <2>2, <3>1, <3>3, <3>7, <3>8 DEF Outcome
  <2>4. CASE {LS!Memory, LS!Disk} \cap flag = {}
    <3>1. LS!Computed(now) = s2
      BY <1>7, <2>4 DEF LS!Computed, s0, s1, s2
    <3>2. LS!Read(flag) = m2 /\ LS!PartsOf(flag) = p2
      <4>1. LS!Read(flag) = m2
        BY <1>7, <2>4 DEF LS!Read
      <4>2. LS!PartsOf(flag) = p2
        BY <1>7, <2>4 DEF LS!PartsOf
      <4> QED
        BY <4>1, <4>2
    <3> HIDE DEF m2, p2
    <3> QED
      BY <2>2, <3>1, <3>2 DEF Outcome
  <2> QED
    BY <2>3, <2>4
<1> QED
  BY <1>6, <1>7

\* A figure of a metric.
LEMMA PowerFigure ==
    ASSUME NEW m \in LS!Metric, NEW made \in [LS!Part -> LS!Amounts]
    PROVE  /\ LS!Figure(m, made) \in LS!FigureType
           /\ LS!Figure(m, made).of = m
<1> DEFINE total == [c \in LS!Counter |->
                made[LS!Cpu][c] + made[LS!Memory][c] + made[LS!Wifi][c] + made[LS!Disk][c]]
<1>1. /\ LS!Cpu \in LS!Part /\ LS!Memory \in LS!Part /\ LS!Wifi \in LS!Part
      /\ LS!Disk \in LS!Part
      /\ m # LS!Total => m \in LS!Part
  BY DEF LS!Part, LS!Metric
<1>2. ASSUME NEW p \in LS!Part PROVE made[p] \in [LS!Counter -> Int]
  BY DEF LS!Amounts
<1>3. total \in [LS!Counter -> Int]
  <2>1. ASSUME NEW c \in LS!Counter
        PROVE  /\ made[LS!Cpu][c] \in Int /\ made[LS!Memory][c] \in Int
               /\ made[LS!Wifi][c] \in Int /\ made[LS!Disk][c] \in Int
    BY <1>1, <1>2
  <2> QED
    BY <2>1
<1>4. LS!Figure(m, made) = [of |-> m, is |-> IF m = LS!Total THEN total ELSE made[m]]
  BY DEF LS!Figure
<1> HIDE DEF total
<1> QED
  BY <1>1, <1>2, <1>3, <1>4 DEF LS!FigureType, LS!Amounts

\* mf_Linux_sys_power_init() names the slots and makes the first reading.
LEMMA PowerInitSucceeds ==
    ASSUME LS!SysPowerAssumption, PowerInv, NEW on \in PowerAsked, LS!InitSucceeds(on),
           UNCHANGED LS!procVars
    PROVE  PowerInv'
<1>1. PICK garbage \in Garbage :
         /\ up' = "running" /\ flag' = on /\ events' = LS!Events(on)
         /\ values' = [i \in DOMAIN events' |-> [of |-> "unset", is |-> LS!None]]
         /\ before' = LS!Reading(on, LS!None, garbage)
         /\ counted' = [p \in LS!Part |->
               [c \in LS!Counter |-> IF c \in LS!Uses(p) THEN before'[c] ELSE 0]]
         /\ leaked' = LS!LeakedBy(on)
         /\ up = "loaded" /\ UNCHANGED <<after, samples, proc, moves>>
  BY DEF LS!InitSucceeds, LS!procVars
<1>2. on \in SUBSET LS!Metric
  BY DEF LS!SysPowerAssumption
<1>3. LS!None \in [LS!Counter -> Nat] /\ LS!None \in LS!Amounts
  BY DEF LS!None, LS!Amounts
<1>4. /\ leaked' \in 0 .. MaxFiles /\ before' \in [LS!Counter -> Nat]
      /\ \A c \in Unsigned : before'[c] \in 0 .. Modulus - 1
  <2>1. \A c \in Unsigned : LS!None[c] \in 0 .. Modulus - 1
    BY ProcFsAssumption DEF LS!None, Unsigned, LS!Counter
  <2>2. LS!TypeOK
    BY DEF PowerInv
  <2> QED
    BY <1>1, <1>2, <1>3, <2>1, <2>2, PowerReading
<1>5. events' \in Seq(LS!Metric)
  BY <1>1, <1>2, PowerEvents
<1>6. /\ values' \in Seq(LS!FigureType) /\ Len(values') = Len(events')
      /\ DOMAIN values' = DOMAIN events'
      /\ \A i \in DOMAIN values' : values'[i].of = "unset"
  <2>1. [of |-> "unset", is |-> LS!None] \in LS!FigureType
    BY <1>3 DEF LS!FigureType
  <2> QED
    BY <1>1, <1>5, <2>1
<1>7. LS!TypeOK'
  <2>1. counted' \in [LS!Part -> LS!Amounts]
    <3>1. \A c \in LS!Counter : before'[c] \in Int
      BY <1>4
    <3> QED
      BY <1>1, <3>1 DEF LS!Amounts
  <2>2. LS!ProcType'
    BY <1>1 DEF PowerInv, LS!TypeOK, LS!ProcType
  <2> QED
    BY <1>1, <1>2, <1>4, <1>5, <1>6, <2>1, <2>2 DEF PowerInv, LS!TypeOK
<1>8. PowerBounded'
  BY <1>1, <1>4 DEF PowerInv, PowerBounded
<1>9. PowerSlots'
  BY <1>1, <1>6 DEF PowerInv, PowerSlots
<1>10. PowerMoved'
  BY <1>1 DEF PowerInv, PowerSlots, LS!TypeOK, LS!SysPowerAssumption, PowerMoved
<1>11. PowerCounted'
  BY <1>1, <1>2, PowerUses DEF PowerCounted
<1> QED
  BY <1>7, <1>8, <1>9, <1>10, <1>11 DEF PowerInv

\* mf_Linux_sys_power_sample() fills every slot, and moves on what it has read.
LEMMA PowerSample ==
    ASSUME LS!SysPowerAssumption, PowerInv, LS!Sample, UNCHANGED LS!procVars
    PROVE  PowerInv'
<1> DEFINE s == LS!Computed(after')
<1>1. PICK garbage \in Garbage :
         /\ up = "running" /\ samples < MaxSamples /\ samples' = samples + 1
         /\ leaked' = LS!LeakedBy(flag) /\ after' = LS!Reading(flag, after, garbage)
         /\ before' = s.prev
         /\ values' = [i \in DOMAIN values |->
               IF i \in DOMAIN LS!Filled THEN LS!Figure(LS!Filled[i], s.part) ELSE values[i]]
         /\ counted' = [p \in LS!Part |-> [c \in LS!Counter |->
               LS!Plus(c, counted[p][c], s.part[p][c])]]
         /\ UNCHANGED <<up, flag, events, proc, moves>>
  BY DEF LS!Sample, LS!procVars
<1>2. /\ LS!TypeOK /\ flag \in SUBSET LS!Metric /\ events \in Seq(LS!Metric)
      /\ values \in Seq(LS!FigureType) /\ Len(values) = Len(events)
      /\ before \in [LS!Counter -> Nat] /\ after \in [LS!Counter -> Nat]
      /\ counted \in [LS!Part -> LS!Amounts]
      /\ samples \in 0 .. MaxSamples /\ MaxSamples \in Nat
  BY DEF PowerInv, LS!TypeOK, LS!SysPowerAssumption
<1>3. \A c \in Unsigned : before[c] \in 0 .. Modulus - 1 /\ after[c] \in 0 .. Modulus - 1
  BY DEF PowerInv, PowerBounded
<1>4. /\ leaked' \in 0 .. MaxFiles /\ after' \in [LS!Counter -> Nat]
      /\ \A c \in Unsigned : after'[c] \in 0 .. Modulus - 1
  BY <1>1, <1>2, <1>3, PowerReading
<1>5. /\ s \in Course
      /\ \A c \in LS!Counter :
            s.prev[c] = IF c \in LS!Read(flag) THEN after'[c] ELSE before[c]
      /\ \A p \in LS!Part :
            s.part[p] = IF p \in LS!PartsOf(flag) THEN Taking(p, after', before) ELSE LS!None
  <2>1. Outcome(LS!Computed(after'), flag, after')
    BY <1>2, <1>4, PowerComputed
  <2> QED
    BY <2>1 DEF Outcome
<1> HIDE DEF s
<1>6. s.prev \in [LS!Counter -> Nat] /\ s.part \in [LS!Part -> LS!Amounts]
  BY <1>5 DEF Course
<1>7. /\ DOMAIN values = DOMAIN events /\ LS!Filled = events
      /\ values' = [i \in DOMAIN events |-> LS!Figure(events[i], s.part)]
  <2>1. DOMAIN values = DOMAIN events
    BY <1>2
  <2>2. LS!Filled = events
    BY <1>1 DEF LS!Filled, LS!Events, PowerInv, PowerSlots
  <2> QED
    BY <1>1, <2>1, <2>2
<1>8. \A i \in DOMAIN events :
         /\ events[i] \in LS!Metric
         /\ LS!Figure(events[i], s.part) \in LS!FigureType
         /\ LS!Figure(events[i], s.part).of = events[i]
  BY <1>2, <1>6, PowerFigure
<1>9. values' \in Seq(LS!FigureType) /\ Len(values') = Len(events)
  BY <1>2, <1>7, <1>8
<1>10. LS!TypeOK'
  <2>1. counted' \in [LS!Part -> LS!Amounts]
    <3>1. ASSUME NEW p \in LS!Part, NEW c \in LS!Counter
          PROVE  LS!Plus(c, counted[p][c], s.part[p][c]) \in Int
      <4>1. counted[p] \in [LS!Counter -> Int] /\ s.part[p] \in [LS!Counter -> Int]
        BY <1>2, <1>6 DEF LS!Amounts
      <4>2. counted[p][c] \in Int /\ s.part[p][c] \in Int
        BY <4>1
      <4> QED
        BY <4>2, ProcFsAssumption DEF LS!Plus
    <3>2. counted' \in [LS!Part -> [LS!Counter -> Int]]
      BY <1>1, <3>1
    <3> QED
      BY <3>2 DEF LS!Amounts
  <2>2. LS!ProcType'
    BY <1>1, <1>2 DEF LS!TypeOK, LS!ProcType
  <2>3. samples' \in 0 .. MaxSamples
    BY <1>1, <1>2
  <2> QED
    BY <1>1, <1>2, <1>4, <1>6, <1>9, <2>1, <2>2, <2>3 DEF LS!TypeOK
<1>11. PowerBounded'
  <2>1. Unsigned \subseteq LS!Counter
    BY DEF Unsigned, LS!Counter
  <2> QED
    BY <1>1, <1>3, <1>4, <1>5, <2>1 DEF PowerBounded
<1>12. PowerSlots'
  <2>1. samples' > 0
    BY <1>1, <1>2
  <2> QED
    BY <1>1, <1>7, <1>8, <2>1 DEF PowerInv, PowerSlots
<1>13. PowerMoved'
  BY <1>1, <1>2, <1>5, PowerUses DEF PowerMoved
<1>14. PowerCounted'
  <2> SUFFICES ASSUME NEW p \in LS!PartsOf(flag), NEW c \in LS!Uses(p)
               PROVE  counted'[p][c] = before'[c]
    BY <1>1 DEF PowerCounted
  <2>1. p \in LS!Part /\ c \in LS!Counter /\ c \in LS!Read(flag)
    BY <1>2, PowerUses
  <2>2. counted[p][c] = before[c] /\ before[c] \in Nat /\ after'[c] \in Nat
    BY <1>2, <1>4, <2>1 DEF PowerInv, PowerCounted
  <2>3. s.part[p][c] = LS!Increase(c, after', before)
    BY <1>5, <2>1 DEF Taking
  <2>4. counted'[p][c] = LS!Plus(c, before[c], LS!Increase(c, after', before))
    BY <1>1, <2>1, <2>2, <2>3
  <2>5. before'[c] = after'[c]
    BY <1>1, <1>5, <2>1
  <2>6. CASE c = "energy"
    BY <2>2, <2>4, <2>5, <2>6 DEF LS!Plus, LS!Increase
  <2>7. CASE c # "energy"
    <3>1. c \in Unsigned
      BY <2>1, <2>7 DEF Unsigned, LS!Counter
    <3>2. before[c] \in 0 .. Modulus - 1 /\ after'[c] \in 0 .. Modulus - 1
      BY <1>3, <1>4, <3>1
    <3>3. counted'[p][c] = (before[c] + ((after'[c] - before[c]) % Modulus)) % Modulus
      BY <2>4, <2>7 DEF LS!Plus, LS!Increase, LS!Minus
    <3>4. (before[c] + ((after'[c] - before[c]) % Modulus)) % Modulus = after'[c]
      BY <3>2, Telescope DEF PM!Minus
    <3> QED
      BY <2>5, <3>3, <3>4
  <2> QED
    BY <2>6, <2>7
<1> QED
  BY <1>10, <1>11, <1>12, <1>13, <1>14 DEF PowerInv

\* The inductive step, action by action.
LEMMA PowerStep ==
    ASSUME LS!SysPowerAssumption
    PROVE  PowerInv /\ [LS!Next]_(LS!vars) => PowerInv'
<1> SUFFICES ASSUME PowerInv, [LS!Next]_(LS!vars) PROVE PowerInv'
  OBVIOUS
<1> DEFINE rest == <<up, flag, events, values, before, after, counted, leaked, samples>>
<1>1. ASSUME UNCHANGED rest, LS!ProcType'
      PROVE  PowerInv'
  BY <1>1 DEF PowerInv, LS!TypeOK, PowerBounded, PowerSlots, PowerMoved, PowerCounted
<1>2. CASE UNCHANGED LS!vars
  <2>1. LS!ProcType'
    BY <1>2 DEF LS!vars, LS!procVars, PowerInv, LS!TypeOK, LS!ProcType
  <2> QED
    BY <1>1, <1>2, <2>1 DEF LS!vars
<1>3. CASE /\ LS!ProcMoves(\/ LS!Run(FALSE) \/ \E i \in LS!Interface : LS!Traffic(i)
                           \/ \E p \in Process : LS!DiskIo(p) \/ LS!ProcessEnds(p))
           /\ UNCHANGED rest
  <2>1. ProcType
    BY DEF PowerInv, LS!TypeOK, ProcType, LS!ProcType, LS!MemTotal, MemTotal, LS!Interface,
        Interface
  <2>2. moves < MaxMoves /\ moves' = moves + 1
    BY <1>3 DEF LS!ProcMoves
  <2>3. \/ Run(FALSE) \/ \E i \in Interface : Traffic(i)
        \/ \E p \in Process : DiskIo(p) \/ ProcessEnds(p)
    BY <1>3 DEF LS!ProcMoves, LS!Run, Run, LS!Traffic, Traffic, LS!DiskIo, DiskIo,
        LS!ProcessEnds, ProcessEnds, LS!Interface, Interface
  <2>4. ProcType'
    BY <2>1, <2>2, <2>3, ProcMovesType
  <2>5. LS!ProcType'
    BY <2>4 DEF ProcType, LS!ProcType, LS!MemTotal, MemTotal, LS!Interface, Interface
  <2> QED
    BY <1>1, <1>3, <2>5
<1>4. CASE UNCHANGED LS!procVars /\ LS!InitFails
  <2>1. /\ PowerInv /\ up' = "refused" /\ up = "loaded"
        /\ UNCHANGED <<flag, events, values, before, after, counted, leaked, samples>>
        /\ LS!ProcType'
    BY <1>4 DEF LS!InitFails, PowerInv, LS!TypeOK, LS!ProcType, LS!procVars
  <2> QED
    BY <2>1 DEF PowerInv, LS!TypeOK, PowerBounded, PowerSlots, PowerMoved, PowerCounted
<1> QED
  BY <1>2, <1>3, <1>4, PowerInitSucceeds, PowerSample DEF LS!Next

\* What mf_Linux_sys_power_to_json() makes of the slots: what is switched on, and of
\* memory and disk, which share them, only the one that is.
LEMMA PowerReport ==
    ASSUME LS!SysPowerAssumption, PowerInv
    PROVE  LS!ReportsWhatWasAsked
<1> SUFFICES ASSUME samples > 0
             PROVE  /\ \A r \in LS!Json : r[1] \in flag /\ r[2].of = r[1]
                    /\ \A m \in flag : \E i \in DOMAIN events :
                          events[i] = m /\ values[i].of = m
  BY DEF LS!ReportsWhatWasAsked
<1>1. samples \in Int /\ flag \in SUBSET LS!Metric
  BY DEF PowerInv, LS!TypeOK, LS!SysPowerAssumption
<1>2. events = LS!Events(flag) /\ \A i \in DOMAIN events : values[i].of = events[i]
  BY <1>1 DEF PowerInv, PowerSlots
<1>3. /\ flag \subseteq Names(events)
      /\ Names(events) \subseteq flag \cup {LS!Memory, LS!Disk}
  BY <1>1, <1>2, PowerEvents
<1>4. \A m \in flag : \E i \in DOMAIN events : events[i] = m /\ values[i].of = m
  BY <1>2, <1>3 DEF Names
<1>5. ASSUME NEW r \in LS!Json PROVE r[1] \in flag /\ r[2].of = r[1]
  <2>1. PICK i \in DOMAIN events :
           /\ r = <<events[i], values[i]>>
           /\ events[i] \in {LS!Memory, LS!Disk} => events[i] \in flag
    BY DEF LS!Json
  <2>2. events[i] \in flag
    BY <1>3, <2>1 DEF Names
  <2> QED
    BY <1>2, <2>1, <2>2
<1> QED
  BY <1>4, <1>5

\* The amounts of every part add up to the last reading.
LEMMA PowerAddsUp ==
    ASSUME LS!SysPowerAssumption, PowerInv
    PROVE  LS!FiguresAddUp
<1> SUFFICES ASSUME NEW p \in LS!PartsOf(flag), NEW c \in LS!Uses(p)
             PROVE  counted[p][c] = IF samples = 0 THEN before[c] ELSE after[c]
  BY DEF LS!FiguresAddUp
<1>1. counted[p][c] = before[c]
  BY DEF PowerInv, PowerCounted
<1>2. samples # 0 => before[c] = after[c]
  <2>1. flag \in SUBSET LS!Metric /\ samples \in Nat
    BY DEF PowerInv, LS!TypeOK, LS!SysPowerAssumption
  <2>2. c \in LS!Read(flag)
    BY <2>1, PowerUses
  <2> QED
    BY <2>1, <2>2 DEF PowerInv, PowerMoved
<1> QED
  BY <1>1, <1>2

-----------------------------------------------------------------------------
(* Linux_resources *)

\* The ticks the kernel has counted are bounded by the changes so far; the
\* previous reading of the processor is one it has shown, and not older than the
\* last one.
TicksInOrder ==
    /\ proc.busy + proc.other + proc.idle <= moves + 2
    /\ before.idle <= before.total
    /\ before.idle <= proc.idle /\ before.total - before.idle <= proc.busy + proc.other
    /\ after.total <= before.total
    /\ up # "running" => after.total = 0

\* What has been reported or was there is the previous reading; that of a counter
\* that could be read is also the last reading.
BytesCounted ==
    /\ \A b \in LR!Bytes : before[b] \in 0 .. Modulus - 1 /\ after[b] \in 0 .. Modulus - 1
    /\ \A b \in LR!Bytes : (counted[b] - seen[b]) % Modulus = before[b]
    /\ \A b \in fine : before[b] = after[b]

ResourcesInv ==
    /\ LR!TypeOK
    /\ TicksInOrder
    /\ BytesCounted
    /\ up = "running" => events = LR!Events(flag)
    /\ up # "running" => seen = [b \in LR!Bytes |-> 0] /\ fine = {}
    /\ LR!FiguresInTheirSlots
    /\ LR!CpuRateIsPercentage

\* The five metrics in the order of the code's tests.
LEMMA ResourcesOrder ==
    /\ LR!Order[1] = "CPU" /\ LR!Order[2] = "RAM" /\ LR!Order[3] = "swap"
    /\ LR!Order[4] = "net" /\ LR!Order[5] = "io"
    /\ LR!Metric = {"CPU", "RAM", "swap", "net", "io"}
  BY DEF LR!Order, LR!Metric

\* The metrics switched on among the first j: as many as names are put into the
\* slots for them.
UpTo(j) == {k \in 1 .. j : LR!Order[k] \in flag}

\* The names p stand in the slots that are counted up to metric j.
Counts(j, p) ==
    p \in Seq(LR!Metric) /\ IsFiniteSet(UpTo(j)) /\ Cardinality(UpTo(j)) = Len(p)

\* The names q are the names p, and that of metric j if it is switched on.
Adds(j, p, q) ==
    /\ \A k \in 1 .. Len(p) : k \in 1 .. Len(q) /\ q[k] = p[k]
    /\ LR!Order[j] \in flag => Len(q) \in 1 .. Len(q) /\ q[Len(q)] = LR!Order[j]

\* One test of the code more.
LEMMA NextSlot ==
    ASSUME NEW i \in 0 .. 4, NEW p, Counts(i, p)
    PROVE  LET q == p \o LR!IfAsked(LR!Order[i + 1], flag)
           IN Counts(i + 1, q) /\ Adds(i + 1, p, q)
<1> DEFINE j == i + 1
           q == p \o LR!IfAsked(LR!Order[j], flag)
<1>a. j \in 1 .. 5 /\ i \in 0 .. 4 /\ i < j /\ \A k \in 1 .. j : k = j \/ k \in 1 .. i
  OBVIOUS
<1>b. p \in Seq(LR!Metric) /\ IsFiniteSet(UpTo(i)) /\ Cardinality(UpTo(i)) = Len(p)
  BY DEF Counts
<1>c. q = p \o LR!IfAsked(LR!Order[j], flag)
  OBVIOUS
<1> SUFFICES Counts(j, q) /\ Adds(j, p, q)
  OBVIOUS
<1> HIDE DEF j, q
<1>1. LR!Order[j] \in LR!Metric /\ j \notin UpTo(i)
  BY <1>a, ResourcesOrder DEF UpTo
<1>2. CASE LR!Order[j] \in flag
  <2>1. q = Append(p, LR!Order[j])
    BY <1>b, <1>c, <1>1, <1>2 DEF LR!IfAsked
  <2>2. UpTo(j) = UpTo(i) \cup {j}
    BY <1>a, <1>2 DEF UpTo
  <2>3. /\ IsFiniteSet(UpTo(i) \cup {j})
        /\ Cardinality(UpTo(i) \cup {j}) = Cardinality(UpTo(i)) + 1
    BY <1>b, <1>1, FS_AddElement
  <2>4. /\ q \in Seq(LR!Metric) /\ Len(q) = Len(p) + 1 /\ Len(p) \in Nat
        /\ \A k \in 1 .. Len(p) : q[k] = p[k]
        /\ q[Len(p) + 1] = LR!Order[j]
    BY <1>b, <1>1, <2>1
  <2>5. IsFiniteSet(UpTo(j)) /\ Cardinality(UpTo(j)) = Len(q)
    BY <1>b, <2>2, <2>3, <2>4
  <2>6. /\ \A k \in 1 .. Len(p) : k \in 1 .. Len(q)
        /\ Len(q) \in 1 .. Len(q) /\ q[Len(q)] = LR!Order[j]
    BY <2>4
  <2> QED
    BY <2>4, <2>5, <2>6 DEF Counts, Adds
<1>3. CASE LR!Order[j] \notin flag
  <2>1. q = p
    BY <1>b, <1>c, <1>3 DEF LR!IfAsked
  <2>2. UpTo(j) = UpTo(i)
    BY <1>a, <1>3 DEF UpTo
  <2> QED
    BY <1>b, <1>3, <2>1, <2>2 DEF Counts, Adds
<1> QED
  BY <1>2, <1>3

\* mf_Linux_resources_sample() counts up to the slot in which
\* mf_Linux_resources_init() has put the metric's name.
LEMMA SlotIsNamed ==
    ASSUME flag \in SUBSET LR!Metric
    PROVE  /\ LR!Events(flag) \in Seq(LR!Metric)
           /\ \A m \in flag : /\ LR!Slot(m) \in DOMAIN LR!Events(flag)
                              /\ LR!Events(flag)[LR!Slot(m)] = m
<1> DEFINE e0 == <<>>
           e1 == e0 \o LR!IfAsked(LR!Order[1], flag)
           e2 == e1 \o LR!IfAsked(LR!Order[2], flag)
           e3 == e2 \o LR!IfAsked(LR!Order[3], flag)
           e4 == e3 \o LR!IfAsked(LR!Order[4], flag)
           e5 == e4 \o LR!IfAsked(LR!Order[5], flag)
<1>0. Counts(0, e0)
  BY FS_EmptySet DEF UpTo, Counts
<1>6. LR!Events(flag) = e5
  <2>1. LR!IfAsked("CPU", flag) = e0 \o LR!IfAsked(LR!Order[1], flag)
    BY ResourcesOrder DEF LR!IfAsked
  <2> QED
    BY <2>1, ResourcesOrder DEF LR!Events
<1>1. Counts(1, e1) /\ Adds(1, e0, e1)
  <2>1. 0 \in 0 .. 4 /\ 0 + 1 = 1
    OBVIOUS
  <2> HIDE DEF e0
  <2>2. Counts(0 + 1, e1) /\ Adds(0 + 1, e0, e1)
    BY <1>0, <2>1, NextSlot
  <2> HIDE DEF e1
  <2> QED
    BY <2>1, <2>2
<1>2. Counts(2, e2) /\ Adds(2, e1, e2)
  <2>1. 1 \in 0 .. 4 /\ 1 + 1 = 2
    OBVIOUS
  <2> HIDE DEF e1
  <2>2. Counts(1 + 1, e2) /\ Adds(1 + 1, e1, e2)
    BY <1>1, <2>1, NextSlot
  <2> HIDE DEF e2
  <2> QED
    BY <2>1, <2>2
<1>3. Counts(3, e3) /\ Adds(3, e2, e3)
  <2>1. 2 \in 0 .. 4 /\ 2 + 1 = 3
    OBVIOUS
  <2> HIDE DEF e2
  <2>2. Counts(2 + 1, e3) /\ Adds(2 + 1, e2, e3)
    BY <1>2, <2>1, NextSlot
  <2> HIDE DEF e3
  <2> QED
    BY <2>1, <2>2
<1>4. Counts(4, e4) /\ Adds(4, e3, e4)
  <2>1. 3 \in 0 .. 4 /\ 3 + 1 = 4
    OBVIOUS
  <2> HIDE DEF e3
  <2>2. Counts(3 + 1, e4) /\ Adds(3 + 1, e3, e4)
    BY <1>3, <2>1, NextSlot
  <2> HIDE DEF e4
  <2> QED
    BY <2>1, <2>2
<1>5. Counts(5, e5) /\ Adds(5, e4, e5)
  <2>1. 4 \in 0 .. 4 /\ 4 + 1 = 5
    OBVIOUS
  <2> HIDE DEF e4
  <2>2. Counts(4 + 1, e5) /\ Adds(4 + 1, e4, e5)
    BY <1>4, <2>1, NextSlot
  <2> HIDE DEF e5
  <2> QED
    BY <2>1, <2>2
<1> HIDE DEF e0, e1, e2, e3, e4, e5
<1>7. ASSUME NEW j \in 1 .. 5
      PROVE  LR!Slot(LR!Order[j]) = Cardinality(UpTo(j))
  <2>1. \A k \in 1 .. 5 : (\E l \in k .. 5 : LR!Order[l] = LR!Order[j]) <=> k <= j
    BY ResourcesOrder
  <2>2. {k \in 1 .. 5 : /\ LR!Order[k] \in flag
                        /\ \E l \in k .. 5 : LR!Order[l] = LR!Order[j]} = UpTo(j)
    BY <2>1 DEF UpTo
  <2>3. LR!Slot(LR!Order[j]) = LR!Cardinality(UpTo(j))
    BY <2>2 DEF LR!Slot
  <2> QED
    BY <2>3 DEF LR!Cardinality, Cardinality
<1>8. ASSUME NEW j \in 1 .. 5, LR!Order[j] \in flag
      PROVE  /\ LR!Slot(LR!Order[j]) \in 1 .. Len(e5)
             /\ e5[LR!Slot(LR!Order[j])] = LR!Order[j]
  <2>1. CASE j = 1
    BY <1>1, <1>2, <1>3, <1>4, <1>5, <1>7, <1>8, <2>1 DEF Counts, Adds
  <2>2. CASE j = 2
    BY <1>2, <1>3, <1>4, <1>5, <1>7, <1>8, <2>2 DEF Counts, Adds
  <2>3. CASE j = 3
    BY <1>3, <1>4, <1>5, <1>7, <1>8, <2>3 DEF Counts, Adds
  <2>4. CASE j = 4
    BY <1>4, <1>5, <1>7, <1>8, <2>4 DEF Counts, Adds
  <2>5. CASE j = 5
    BY <1>5, <1>7, <1>8, <2>5 DEF Counts, Adds
  <2> QED
    BY <2>1, <2>2, <2>3, <2>4, <2>5
<1>9. \A m \in flag : \E j \in 1 .. 5 : m = LR!Order[j]
  BY ResourcesOrder
<1> QED
  BY <1>5, <1>6, <1>8, <1>9 DEF Counts

\* What mf_Linux_resources_init() names.
LEMMA ResourcesEvents ==
    ASSUME NEW asked \in SUBSET LR!Metric
    PROVE  LR!Events(asked) \in Seq(LR!Metric)
<1>1. ASSUME NEW m \in LR!Metric PROVE LR!IfAsked(m, asked) \in Seq(LR!Metric)
  BY DEF LR!IfAsked
<1>2. {"CPU", "RAM", "swap", "net", "io"} \subseteq LR!Metric
  BY ResourcesOrder
<1> QED
  BY <1>1, <1>2 DEF LR!Events

\* What the three readings return: the counters that can be read, and the old
\* values of the others.
LEMMA ResourcesReading ==
    ASSUME LR!ProcType, NEW old \in LR!Stats, NEW readable,
           \A b \in LR!Bytes : old[b] \in 0 .. Modulus - 1
    PROVE  LET now == LR!Read(old, readable) IN
           /\ now \in LR!Stats
           /\ \A b \in LR!Bytes : now[b] \in 0 .. Modulus - 1
           /\ "CPU" \in readable =>
                 /\ now.total = proc.busy + proc.other + proc.idle
                 /\ now.idle = proc.idle
           /\ "CPU" \notin readable => now.total = old.total /\ now.idle = old.idle
<1>1. ProcType
  BY DEF ProcType, LR!ProcType, LR!MemTotal, MemTotal, LR!Interface, Interface
<1>2. LR!IoTotal \in 0 .. Modulus - 1
  <2>1. LR!IoTotal = Sums(proc.io, proc.live)[proc.live] % Modulus
    BY DEF LR!IoTotal, LR!FoldSet, LR!MapThenFoldSet, Sums, SumStep, Taken
  <2>2. IoTotal = Sums(proc.io, proc.live)[proc.live] % Modulus
    BY DEF IoTotal, FoldSet, MapThenFoldSet, Sums, SumStep, Taken
  <2> QED
    BY <1>1, <2>1, <2>2, IoTotalType
<1>3. (proc.net["eth"] + proc.net["wlan"]) % Modulus \in 0 .. Modulus - 1
  BY <1>1, ProcFsAssumption DEF ProcType, Interface
<1>4. proc.busy \in Nat /\ proc.other \in Nat /\ proc.idle \in Nat
  BY <1>1 DEF ProcType
<1>5. old.total \in Nat /\ old.idle \in Nat
  BY DEF LR!Stats
<1>6. old.net \in 0 .. Modulus - 1 /\ old.io \in 0 .. Modulus - 1
  BY DEF LR!Bytes
<1>7. 0 .. Modulus - 1 \subseteq Nat
  BY ProcFsAssumption
<1> DEFINE now == LR!Read(old, readable)
<1>8. /\ now.total = IF "CPU" \in readable THEN proc.busy + proc.other + proc.idle
                     ELSE old.total
      /\ now.idle = IF "CPU" \in readable THEN proc.idle ELSE old.idle
      /\ now.net = IF "net" \in readable
                      THEN (proc.net["eth"] + proc.net["wlan"]) % Modulus ELSE old.net
      /\ now.io = IF "io" \in readable THEN LR!IoTotal ELSE old.io
      /\ now = [total |-> now.total, idle |-> now.idle, net |-> now.net, io |-> now.io]
  BY DEF LR!Read
<1> HIDE DEF now
<1>10. /\ now.total \in Nat /\ now.idle \in Nat
       /\ now.net \in 0 .. Modulus - 1 /\ now.io \in 0 .. Modulus - 1
  BY <1>2, <1>3, <1>4, <1>5, <1>6, <1>8
<1>11. now \in LR!Stats
  BY <1>7, <1>8, <1>10 DEF LR!Stats
<1>12. \A b \in LR!Bytes : b = "net" \/ b = "io"
  BY DEF LR!Bytes
<1>13. \A b \in LR!Bytes : now[b] \in 0 .. Modulus - 1
  BY <1>10, <1>12
<1>15. /\ "CPU" \in readable => /\ now.total = proc.busy + proc.other + proc.idle
                              /\ now.idle = proc.idle
       /\ "CPU" \notin readable => now.total = old.total /\ now.idle = old.idle
  BY <1>8
<1> QED
  BY <1>11, <1>13, <1>15 DEF now

\* Before the initialisation nothing is named, read or reported.
LEMMA ResourcesInitInv ==
    ASSUME LR!ResourcesAssumption
    PROVE  LR!Init => ResourcesInv
<1> SUFFICES ASSUME LR!Init PROVE ResourcesInv
  OBVIOUS
<1>1. ProcType /\ proc.busy = 1 /\ proc.other = 0 /\ proc.idle = 1 /\ moves = 0
  <2>1. /\ proc = [busy |-> 1, other |-> 0, idle |-> 1, run |-> 0, niced |-> 0,
                   bytes |-> 0, energy |-> 1, misses |-> 1, free |-> 1,
                   net |-> [i \in Interface |-> 1], io |-> [p \in Process |-> 1],
                   live |-> Process]
        /\ moves = 0
    BY DEF LR!Init, LR!ProcInit, LR!Interface, Interface
  <2>2. /\ [i \in Interface |-> 1] \in [Interface -> Nat]
        /\ [p \in Process |-> 1] \in [Process -> Nat]
        /\ Process \in SUBSET Process /\ 1 \in 0 .. MemTotal
    BY DEF MemTotal
  <2>3. moves \in 0 .. MaxMoves
    BY <2>1, ProcFsAssumption
  <2> QED
    BY <2>1, <2>2, <2>3 DEF ProcType
<1>2. LR!ProcType
  BY <1>1 DEF ProcType, LR!ProcType, LR!MemTotal, MemTotal, LR!Interface, Interface
<1>3. 0 \in 0 .. Modulus - 1 /\ (0 - 0) % Modulus = 0
  BY ProcFsAssumption
<1>4. LR!TypeOK
  <2>1. samples \in 0 .. MaxSamples
    BY DEF LR!Init, LR!ResourcesAssumption
  <2>2. LR!Zero \in LR!Stats
    BY DEF LR!Zero, LR!Stats
  <2>3. values \in Seq(LR!Figure \cup {Unset}) /\ events \in Seq(LR!Metric)
        /\ Len(values) = Len(events)
    BY DEF LR!Init
  <2> QED
    BY <1>2, <1>3, <2>1, <2>2, <2>3 DEF LR!Init, LR!TypeOK
<1>5. TicksInOrder
  <2>1. before.total = 0 /\ before.idle = 0 /\ after.total = 0
    BY DEF LR!Init, LR!Zero
  <2> QED
    BY <1>1, <2>1 DEF TicksInOrder
<1>6. BytesCounted
  BY <1>3 DEF LR!Init, LR!Zero, BytesCounted, LR!Bytes
<1>7. LR!FiguresInTheirSlots /\ LR!CpuRateIsPercentage
  BY DEF LR!Init, LR!FiguresInTheirSlots, LR!CpuRateIsPercentage
<1>8. up = "loaded" /\ seen = [b \in LR!Bytes |-> 0] /\ fine = {}
  BY DEF LR!Init
<1> QED
  BY <1>4, <1>5, <1>6, <1>7, <1>8 DEF ResourcesInv

\* mf_Linux_resources_init() names the slots and makes the first reading.
LEMMA ResourcesInitSucceeds ==
    ASSUME LR!ResourcesAssumption, ResourcesInv, NEW asked \in ResourcesAsked,
           NEW readable \in SUBSET (asked \cap {"CPU", "net", "io"}),
           LR!InitSucceeds(asked, readable), UNCHANGED LR!procVars
    PROVE  ResourcesInv'
<1>1. /\ up = "loaded" /\ up' = "running" /\ flag' = asked
      /\ events' = LR!Events(asked)
      /\ values' = [i \in DOMAIN events' |-> Unset]
      /\ before' = LR!Read(LR!Zero, readable)
      /\ counted' = [b \in LR!Bytes |-> before'[b]]
      /\ UNCHANGED <<seen, fine, after, samples, proc, moves>>
  BY DEF LR!InitSucceeds, LR!procVars
<1>2. asked \in SUBSET LR!Metric /\ readable \in SUBSET LR!Metric
  BY DEF LR!ResourcesAssumption
<1>3. LR!TypeOK /\ TicksInOrder /\ BytesCounted
  BY DEF ResourcesInv
<1>4. /\ LR!Zero \in LR!Stats /\ LR!Zero.total = 0 /\ LR!Zero.idle = 0
      /\ \A b \in LR!Bytes : LR!Zero[b] \in 0 .. Modulus - 1
  BY ProcFsAssumption DEF LR!Zero, LR!Stats, LR!Bytes
<1>5. /\ before' \in LR!Stats /\ \A b \in LR!Bytes : before'[b] \in 0 .. Modulus - 1
      /\ "CPU" \in readable =>
            /\ before'.total = proc.busy + proc.other + proc.idle
            /\ before'.idle = proc.idle
      /\ "CPU" \notin readable => before'.total = 0 /\ before'.idle = 0
  BY <1>1, <1>3, <1>4, ResourcesReading DEF LR!TypeOK
<1>6. events' \in Seq(LR!Metric)
  BY <1>1, <1>2, ResourcesEvents
<1>7. /\ values' \in Seq(LR!Figure \cup {Unset}) /\ Len(values') = Len(events')
      /\ \A i \in DOMAIN values' : values'[i] = Unset
  BY <1>1, <1>6
<1>8. LR!TypeOK'
  <2>1. counted' \in [LR!Bytes -> Nat]
    <3>1. \A b \in LR!Bytes : before'[b] \in Nat
      BY <1>5, ProcFsAssumption
    <3> QED
      BY <1>1, <3>1
  <2>2. seen' \in [LR!Bytes -> Nat]
    BY <1>1, <1>3 DEF LR!TypeOK
  <2>3. LR!ProcType'
    BY <1>1, <1>3 DEF LR!TypeOK, LR!ProcType
  <2> QED
    BY <1>1, <1>2, <1>3, <1>5, <1>6, <1>7, <2>1, <2>2, <2>3 DEF LR!TypeOK
<1>9. TicksInOrder'
  <2>1. proc.busy \in Nat /\ proc.other \in Nat /\ proc.idle \in Nat /\ moves \in Nat
    BY <1>3 DEF LR!TypeOK, LR!ProcType
  <2> QED
    BY <1>1, <1>3, <1>5, <2>1 DEF TicksInOrder
<1>10. BytesCounted'
  <2>1. \A b \in LR!Bytes : after'[b] \in 0 .. Modulus - 1
    BY <1>1, <1>3 DEF BytesCounted
  <2>2. seen = [b \in LR!Bytes |-> 0] /\ fine = {}
    BY <1>1 DEF ResourcesInv
  <2>3. ASSUME NEW b \in LR!Bytes
        PROVE  (counted'[b] - seen'[b]) % Modulus = before'[b]
    <3>1. counted'[b] = before'[b] /\ seen'[b] = 0
      BY <1>1, <2>2
    <3>2. before'[b] \in 0 .. Modulus - 1
      BY <1>5
    <3> QED
      BY <3>1, <3>2, ProcFsAssumption
  <2> QED
    BY <1>1, <1>5, <2>1, <2>2, <2>3 DEF BytesCounted
<1>11. LR!FiguresInTheirSlots' /\ LR!CpuRateIsPercentage'
  BY <1>7 DEF LR!FiguresInTheirSlots, LR!CpuRateIsPercentage
<1> QED
  BY <1>1, <1>8, <1>9, <1>10, <1>11 DEF ResourcesInv

\* The figure of a metric is its own; the share of the time that the processor was
\* busy is no larger than the time, as both counters have only grown.
LEMMA ResourcesFigure ==
    ASSUME LR!TypeOK, NEW m \in LR!Metric, NEW now \in LR!Stats, NEW readable,
           m = "CPU" => /\ now.total > before.total /\ now.total < Modulus
                        /\ now.idle >= before.idle /\ now.idle <= now.total
                        /\ now.total - before.total >= now.idle - before.idle
    PROVE  /\ LR!FigureOf(m, now, readable) \in LR!Figure
           /\ LR!FigureOf(m, now, readable).of = m
           /\ m = "CPU" =>
                 LR!FigureOf(m, now, readable).amount <= LR!FigureOf(m, now, readable).per
           /\ m \in LR!Bytes =>
                 LR!FigureOf(m, now, readable).amount = LR!Minus(now[m], before[m])
<1>1. /\ now.total \in Nat /\ now.idle \in Nat
      /\ before.total \in Nat /\ before.idle \in Nat
      /\ Modulus \in Nat \ {0}
  BY ProcFsAssumption DEF LR!TypeOK, LR!Stats
<1>2. CASE m = "CPU"
  <2> DEFINE dt == now.total - before.total
             di == now.idle - before.idle
  <2>1. dt \in 0 .. Modulus - 1 /\ di \in 0 .. Modulus - 1 /\ dt - di \in 0 .. Modulus - 1
        /\ dt - di <= dt
    BY <1>1, <1>2
  <2>2. \A n \in 0 .. Modulus - 1 : n % Modulus = n /\ n \in Nat
    BY <1>1
  <2>3. /\ LR!Minus(now.total, before.total) = dt /\ LR!Minus(now.idle, before.idle) = di
        /\ LR!Minus(dt, di) = dt - di
    BY <2>1, <2>2 DEF LR!Minus
  <2>5. m \notin LR!Bytes
    BY <1>2 DEF LR!Bytes
  <2>4. LR!FigureOf(m, now, readable) = [of |-> m, per |-> dt, amount |-> dt - di]
    <3>1. LR!FigureOf(m, now, readable) =
             [of |-> m, per |-> LR!Minus(now.total, before.total),
              amount |-> LR!Minus(LR!Minus(now.total, before.total),
                                  LR!Minus(now.idle, before.idle))]
      BY <1>2, <2>5 DEF LR!FigureOf
    <3> QED
      BY <2>3, <3>1
  <2> HIDE DEF dt, di
  <2> QED
    BY <2>1, <2>2, <2>4, <2>5 DEF LR!Figure
<1>3. CASE m \in LR!Bytes
  <2>1. m # "CPU" /\ m \in {"net", "io"}
    BY <1>3 DEF LR!Bytes
  <2>2. now[m] \in Nat /\ before[m] \in Nat
    BY <2>1 DEF LR!TypeOK, LR!Stats
  <2>3. LR!Minus(now[m], before[m]) \in Nat
    BY <1>1, <2>2 DEF LR!Minus
  <2>4. LR!FigureOf(m, now, readable) =
           [of |-> m, per |-> 1, amount |-> LR!Minus(now[m], before[m])]
    BY <1>3, <2>1 DEF LR!FigureOf
  <2> QED
    BY <2>1, <2>3, <2>4 DEF LR!Figure
<1>4. CASE m # "CPU" /\ m \notin LR!Bytes
  <2>1. LR!FigureOf(m, now, readable)
          = [of |-> m, per |-> LR!MemTotal, amount |-> LR!UsageRate(m \in readable)]
    BY <1>4 DEF LR!FigureOf
  <2>2. LR!MemTotal \in Nat /\ LR!UsageRate(m \in readable) \in Nat
    BY DEF LR!MemTotal, LR!UsageRate, LR!TypeOK, LR!ProcType
  <2> QED
    BY <1>4, <2>1, <2>2 DEF LR!Figure
<1> QED
  BY <1>2, <1>3, <1>4

\* Adding to a number or to its remainder leaves the same remainder.
LEMMA ModPlus ==
    ASSUME NEW d \in Int, NEW x \in Int
    PROVE  (d + x) % Modulus = ((d % Modulus) + x) % Modulus
<1> DEFINE M == Modulus
           m == d % M
           q == d \div M
           y == m + x
           r == y % M
           k == y \div M
<1>1. M \in Nat \ {0}
  BY ProcFsAssumption
<1> HIDE DEF M
<1>2. q \in Int /\ d = M * q + m /\ m \in Int
  BY <1>1
<1> HIDE DEF q, m
<1>3. y \in Int /\ y = m + x
  BY <1>2
<1> HIDE DEF y
<1>4. k \in Int /\ y = M * k + r /\ r \in 0 .. M - 1
  <2>1. y \in Int
    BY <1>3
  <2>2. k \in Int
    BY <1>1, <2>1
  <2>3. y = M * k + r
    BY <1>1, <2>1
  <2>4. r \in 0 .. M - 1
    BY <1>1, <2>1
  <2> QED
    BY <2>2, <2>3, <2>4
<1> HIDE DEF k
<1>5. d + x = M * (q + k) + r
  <2>1. M * (q + k) = M * q + M * k /\ M * q \in Int /\ M * k \in Int
    BY <1>1, <1>2, <1>4
  <2>2. r \in Int
    BY <1>1, <1>4
  <2> HIDE DEF r
  <2> QED
    BY <1>2, <1>3, <1>4, <2>1, <2>2
<1>6. (M * (q + k) + r) % M = r
  <2>1. q + k \in Int
    BY <1>2, <1>4
  <2> HIDE DEF r
  <2> QED
    BY <1>1, <1>4, <2>1
<1> QED
  BY <1>5, <1>6 DEF r, y, m, M

\* mf_Linux_resources_sample() writes the figures of what has increased into their
\* slots, and moves on only the counters behind them.
LEMMA ResourcesSample ==
    ASSUME LR!ResourcesAssumption, ResourcesInv,
           NEW readable \in SUBSET flag, LR!Sample(readable), UNCHANGED LR!procVars
    PROVE  ResourcesInv'
<1> DEFINE now == LR!Read(after, readable)
           up_to == LR!Increased(now)
           written == up_to \cup (flag \cap {"RAM", "swap"})
<1>1. /\ up = "running" /\ samples < MaxSamples /\ samples' = samples + 1
      /\ after' = now /\ before' = LR!Advance(now, up_to)
      /\ values' = [i \in DOMAIN values |->
            IF \E m \in written : LR!Slot(m) = i
               THEN LR!FigureOf(CHOOSE m \in written : LR!Slot(m) = i, now, readable)
               ELSE values[i]]
      /\ counted' = [b \in LR!Bytes |-> counted[b] + LR!Printed(b, values')]
      /\ seen' = [b \in LR!Bytes |->
            IF b \in up_to THEN seen[b] ELSE seen[b] + LR!Printed(b, values')]
      /\ fine' = readable \cap LR!Bytes
      /\ UNCHANGED <<up, flag, events, proc, moves>>
  BY DEF LR!Sample, LR!procVars
<1>2. /\ LR!TypeOK /\ flag \in SUBSET LR!Metric /\ events \in Seq(LR!Metric)
      /\ values \in Seq(LR!Figure \cup {Unset}) /\ Len(values) = Len(events)
      /\ before \in LR!Stats /\ after \in LR!Stats
      /\ before.total \in Nat /\ before.idle \in Nat
      /\ samples \in 0 .. MaxSamples /\ MaxSamples \in Nat
      /\ proc.busy \in Nat /\ proc.other \in Nat /\ proc.idle \in Nat
      /\ moves \in 0 .. MaxMoves
      /\ counted \in [LR!Bytes -> Nat] /\ seen \in [LR!Bytes -> Nat]
      /\ Unset \notin LR!Figure
  BY DEF ResourcesInv, LR!TypeOK, LR!ResourcesAssumption, LR!Stats, LR!ProcType
<1>3. TicksInOrder /\ BytesCounted /\ events = LR!Events(flag)
  BY <1>1 DEF ResourcesInv
<1>4. /\ now \in LR!Stats /\ now.total \in Nat /\ now.idle \in Nat
      /\ \A b \in LR!Bytes : now[b] \in 0 .. Modulus - 1
      /\ "CPU" \in readable => /\ now.total = proc.busy + proc.other + proc.idle
                               /\ now.idle = proc.idle
      /\ "CPU" \notin readable => now.total = after.total /\ now.idle = after.idle
  <2>1. LR!ProcType /\ \A b \in LR!Bytes : after[b] \in 0 .. Modulus - 1
    BY <1>2, <1>3 DEF LR!TypeOK, BytesCounted
  <2>2. now \in LR!Stats => now.total \in Nat /\ now.idle \in Nat
    BY DEF LR!Stats
  <2> QED
    BY <1>2, <2>1, <2>2, ResourcesReading
<1> HIDE DEF now
<1>5. /\ up_to \subseteq flag
      /\ "CPU" \in up_to <=> "CPU" \in flag /\ now.total > before.total
      /\ \A b \in LR!Bytes :
            b \in up_to <=> b \in flag /\ LR!Minus(now[b], before[b]) > 0
  BY DEF LR!Increased, LR!Bytes
<1> HIDE DEF up_to
<1>6. written \subseteq flag /\ ("CPU" \in written <=> "CPU" \in up_to)
      /\ \A b \in LR!Bytes : b \in written <=> b \in up_to
  BY <1>5 DEF LR!Bytes
<1> HIDE DEF written
<1>7. ASSUME "CPU" \in up_to
      PROVE  /\ "CPU" \in readable
             /\ now.total > before.total /\ now.total < Modulus
             /\ now.idle >= before.idle /\ now.idle <= now.total
             /\ now.total - before.total >= now.idle - before.idle
  <2>1. now.total > before.total
    BY <1>5, <1>7
  <2>2. "CPU" \in readable
    BY <1>2, <1>3, <1>4, <2>1 DEF TicksInOrder, LR!Stats
  <2>3. /\ now.total = proc.busy + proc.other + proc.idle /\ now.idle = proc.idle
        /\ before.idle <= proc.idle
        /\ before.total - before.idle <= proc.busy + proc.other
        /\ proc.busy + proc.other + proc.idle <= moves + 2
    BY <1>3, <1>4, <2>2 DEF TicksInOrder
  <2>4. now.total < Modulus
    BY <1>2, <2>3, ProcFsAssumption DEF LR!ResourcesAssumption
  <2> QED
    BY <1>2, <2>1, <2>2, <2>3, <2>4
<1>8. ASSUME NEW m \in written
      PROVE  /\ LR!FigureOf(m, now, readable) \in LR!Figure
             /\ LR!FigureOf(m, now, readable).of = m
             /\ m = "CPU" =>
                   LR!FigureOf(m, now, readable).amount <= LR!FigureOf(m, now, readable).per
             /\ m \in LR!Bytes =>
                   LR!FigureOf(m, now, readable).amount = LR!Minus(now[m], before[m])
  <2>1. m \in LR!Metric /\ (m = "CPU" => "CPU" \in up_to)
    BY <1>2, <1>6
  <2> QED
    BY <1>2, <1>4, <1>7, <2>1, ResourcesFigure
<1>9. ASSUME NEW i \in DOMAIN values
      PROVE  \/ /\ events[i] \in written
                /\ values'[i] = LR!FigureOf(events[i], now, readable)
             \/ /\ values'[i] = values[i]
                /\ \A m \in written : LR!Slot(m) # i
  <2>1. CASE \E m \in written : LR!Slot(m) = i
    <3> DEFINE m == CHOOSE m \in written : LR!Slot(m) = i
    <3>1. m \in written /\ LR!Slot(m) = i
      BY <2>1
    <3>2. values'[i] = LR!FigureOf(m, now, readable)
      BY <1>1, <2>1
    <3>3. events[i] = m
      BY <1>2, <1>3, <1>6, <3>1, SlotIsNamed
    <3> QED
      BY <3>1, <3>2, <3>3
  <2>2. CASE ~ \E m \in written : LR!Slot(m) = i
    BY <1>1, <2>2
  <2> QED
    BY <2>1, <2>2
<1>10. DOMAIN values' = DOMAIN values /\ DOMAIN values = 1 .. Len(events)
       /\ values' \in Seq(LR!Figure \cup {Unset}) /\ Len(values') = Len(events)
  <2>1. DOMAIN values' = DOMAIN values /\ DOMAIN values = 1 .. Len(events)
    BY <1>1, <1>2
  <2>2. \A i \in DOMAIN values : values'[i] \in LR!Figure \cup {Unset}
    BY <1>2, <1>8, <1>9
  <2>3. values' = [i \in 1 .. Len(events) |-> values'[i]]
    BY <1>1, <2>1
  <2>4. Len(events) \in Nat
    BY <1>2
  <2> QED
    BY <2>1, <2>2, <2>3, <2>4
<1>11. /\ before'.total = IF "CPU" \in up_to THEN now.total ELSE before.total
       /\ before'.idle = IF "CPU" \in up_to THEN now.idle ELSE before.idle
       /\ \A b \in LR!Bytes : before'[b] = IF b \in up_to THEN now[b] ELSE before[b]
       /\ before' \in LR!Stats
  BY <1>1, <1>2, <1>4 DEF LR!Advance, LR!Stats, LR!Bytes
<1>19. ASSUME NEW b \in LR!Bytes
       PROVE  /\ LR!Printed(b, values') \in Nat
              /\ b \in up_to => LR!Printed(b, values') = LR!Minus(now[b], before[b])
  <2>1. CASE b \notin flag
    BY <1>5, <2>1 DEF LR!Printed
  <2>2. CASE b \in flag
    <3> DEFINE i == LR!Slot(b)
    <3>1. i \in DOMAIN events /\ events[i] = b
      BY <1>2, <1>3, <2>2, SlotIsNamed
    <3>2. i \in DOMAIN values /\ values'[i] \in LR!Figure \cup {Unset}
      BY <1>2, <1>10, <3>1
    <3>3. LR!Printed(b, values') = IF values'[i] # Unset THEN values'[i].amount ELSE 0
      BY <2>2 DEF LR!Printed
    <3>4. LR!Printed(b, values') \in Nat
      BY <3>2, <3>3 DEF LR!Figure
    <3>5. ASSUME b \in up_to
          PROVE  LR!Printed(b, values') = LR!Minus(now[b], before[b])
      <4>1. b \in written
        BY <1>6, <3>5
      <4>2. values'[i] = LR!FigureOf(b, now, readable)
        BY <1>9, <3>1, <3>2, <4>1
      <4>3. /\ LR!FigureOf(b, now, readable) \in LR!Figure
            /\ LR!FigureOf(b, now, readable).amount = LR!Minus(now[b], before[b])
        BY <1>8, <4>1
      <4> QED
        BY <1>2, <3>3, <4>2, <4>3
    <3> QED
      BY <3>4, <3>5
  <2> QED
    BY <2>1, <2>2
<1>12. ASSUME NEW b \in LR!Bytes
       PROVE  /\ before'[b] \in 0 .. Modulus - 1
              /\ (counted'[b] - seen'[b]) % Modulus = before'[b]
              /\ b \in readable => before'[b] = now[b]
  <2> DEFINE x == LR!Printed(b, values')
             d == counted[b] - seen[b]
  <2>1. /\ now[b] \in 0 .. Modulus - 1 /\ before[b] \in 0 .. Modulus - 1
        /\ d % Modulus = before[b] /\ d \in Int
        /\ counted[b] \in Nat /\ seen[b] \in Nat
    BY <1>2, <1>3, <1>4 DEF BytesCounted
  <2>2. /\ (before[b] + LR!Minus(now[b], before[b])) % Modulus = now[b]
        /\ (before[b] + 0) % Modulus = before[b]
        /\ LR!Minus(now[b], before[b]) \in 0 .. Modulus - 1
    BY <2>1, Telescope DEF PM!Minus, LR!Minus
  <2>5. x \in Nat
    BY <1>19
  <2>3. CASE b \in up_to
    <3>1. x = LR!Minus(now[b], before[b])
      BY <1>19, <2>3
    <3>2. counted'[b] = counted[b] + x /\ seen'[b] = seen[b]
      BY <1>1, <2>3
    <3> HIDE DEF x
    <3>3. counted'[b] - seen'[b] = d + x
      BY <2>1, <2>5, <3>2
    <3> HIDE DEF d
    <3>4. (d + x) % Modulus = (before[b] + x) % Modulus
      <4>1. (d + x) % Modulus = ((d % Modulus) + x) % Modulus
        BY <2>1, <2>5, ModPlus
      <4> QED
        BY <2>1, <4>1
    <3> QED
      BY <1>11, <2>1, <2>2, <2>3, <3>1, <3>3, <3>4
  <2>4. CASE b \notin up_to
    <3>1. b \in readable => LR!Minus(now[b], before[b]) = 0
      BY <1>5, <2>2, <2>4
    <3>2. b \in readable => now[b] = before[b]
      BY <2>2, <3>1
    <3>3. counted'[b] = counted[b] + x /\ seen'[b] = seen[b] + x
      BY <1>1, <2>4
    <3> HIDE DEF x
    <3>4. counted'[b] - seen'[b] = d
      BY <2>1, <2>5, <3>3
    <3> HIDE DEF d
    <3> QED
      BY <1>11, <2>1, <2>4, <3>2, <3>4
  <2> QED
    BY <2>3, <2>4
<1>13. LR!TypeOK'
  <2>1. counted' \in [LR!Bytes -> Nat]
    <3>1. \A b \in LR!Bytes : counted[b] + LR!Printed(b, values') \in Nat
      BY <1>2, <1>19
    <3> QED
      BY <1>1, <3>1
  <2>2. seen' \in [LR!Bytes -> Nat]
    <3>1. \A b \in LR!Bytes : seen[b] \in Nat /\ seen[b] + LR!Printed(b, values') \in Nat
      BY <1>2, <1>19
    <3> QED
      BY <1>1, <3>1
  <2>3. LR!ProcType' /\ samples' \in 0 .. MaxSamples
    BY <1>1, <1>2 DEF LR!TypeOK, LR!ProcType
  <2>4. fine' \in SUBSET LR!Bytes
    BY <1>1, <1>2
  <2> QED
    BY <1>1, <1>2, <1>4, <1>10, <1>11, <2>1, <2>2, <2>3, <2>4 DEF LR!TypeOK
<1>14. TicksInOrder'
  <2>1. now.total <= before'.total
    <3>1. "CPU" \in readable => "CPU" \in flag
      OBVIOUS
    <3>2. "CPU" \notin readable => now.total <= before.total
      BY <1>3, <1>4 DEF TicksInOrder
    <3> QED
      BY <1>2, <1>4, <1>5, <1>11, <3>1, <3>2
  <2>2. CASE "CPU" \in up_to
    BY <1>1, <1>2, <1>3, <1>4, <1>7, <1>11, <2>1, <2>2 DEF TicksInOrder
  <2>3. CASE "CPU" \notin up_to
    BY <1>1, <1>2, <1>3, <1>11, <2>1, <2>3 DEF TicksInOrder
  <2> QED
    BY <2>2, <2>3
<1>15. BytesCounted'
  BY <1>1, <1>4, <1>12 DEF BytesCounted
<1>16. LR!FiguresInTheirSlots'
  <2> SUFFICES ASSUME NEW i \in DOMAIN values, values'[i] # Unset
               PROVE  values'[i].of = events[i]
    BY <1>1, <1>10 DEF LR!FiguresInTheirSlots
  <2>1. values[i] # Unset => values[i].of = events[i]
    BY DEF ResourcesInv, LR!FiguresInTheirSlots
  <2> QED
    BY <1>8, <1>9, <2>1
<1>18. LR!CpuRateIsPercentage'
  <2> SUFFICES ASSUME NEW i \in DOMAIN values, values'[i] # Unset, events[i] = "CPU"
               PROVE  values'[i].amount <= values'[i].per
    BY <1>1, <1>10 DEF LR!CpuRateIsPercentage
  <2>1. values[i] # Unset => values[i].amount <= values[i].per
    BY DEF ResourcesInv, LR!CpuRateIsPercentage
  <2> QED
    BY <1>8, <1>9, <2>1
<1> QED
  BY <1>1, <1>3, <1>13, <1>14, <1>15, <1>16, <1>18 DEF ResourcesInv

\* The inductive step, action by action.
LEMMA ResourcesStep ==
    ASSUME LR!ResourcesAssumption
    PROVE  ResourcesInv /\ [LR!Next]_(LR!vars) => ResourcesInv'
<1> SUFFICES ASSUME ResourcesInv, [LR!Next]_(LR!vars) PROVE ResourcesInv'
  OBVIOUS
<1> DEFINE rest == <<up, flag, events, values, before, after, counted, seen, fine, samples>>
<1>1. ASSUME UNCHANGED rest, LR!ProcType',
             \/ /\ proc'.busy \in {proc.busy, proc.busy + 1}
                /\ proc'.idle \in {proc.idle, proc.idle + 1}
                /\ proc'.busy = proc.busy \/ proc'.idle = proc.idle
                /\ proc'.other = proc.other
                /\ moves' = moves + 1
             \/ UNCHANGED <<proc, moves>>
      PROVE  ResourcesInv'
  <2>1. /\ TicksInOrder /\ proc.busy \in Nat /\ proc.other \in Nat /\ proc.idle \in Nat
        /\ moves \in Nat /\ before.total \in Nat /\ before.idle \in Nat
    BY DEF ResourcesInv, LR!TypeOK, LR!ProcType, LR!Stats
  <2>2. TicksInOrder'
    BY <1>1, <2>1 DEF TicksInOrder
  <2>3. LR!TypeOK'
    BY <1>1 DEF ResourcesInv, LR!TypeOK
  <2> QED
    BY <1>1, <2>2, <2>3 DEF ResourcesInv, BytesCounted, LR!FiguresInTheirSlots,
        LR!CpuRateIsPercentage
<1>2. CASE UNCHANGED LR!vars
  <2>1. LR!ProcType' /\ UNCHANGED <<proc, moves>>
    BY <1>2 DEF LR!vars, LR!procVars, ResourcesInv, LR!TypeOK, LR!ProcType
  <2> QED
    BY <1>1, <1>2, <2>1 DEF LR!vars
<1>3. CASE /\ LR!ProcMoves(\/ LR!Run(FALSE) \/ LR!Rest \/ LR!MemoryChanges
                           \/ \E i \in LR!Interface : LR!Traffic(i)
                           \/ \E p \in Process : LR!DiskIo(p) \/ LR!ProcessEnds(p))
           /\ UNCHANGED rest
  <2>1. ProcType
    BY DEF ResourcesInv, LR!TypeOK, ProcType, LR!ProcType, LR!MemTotal, MemTotal,
        LR!Interface, Interface
  <2>2. moves < MaxMoves /\ moves' = moves + 1
    BY <1>3 DEF LR!ProcMoves
  <2>3. \/ Run(FALSE) \/ Rest \/ MemoryChanges
        \/ \E i \in Interface : Traffic(i)
        \/ \E p \in Process : DiskIo(p) \/ ProcessEnds(p)
    BY <1>3 DEF LR!ProcMoves, LR!Run, Run, LR!Rest, Rest, LR!MemoryChanges, MemoryChanges,
        LR!MemTotal, MemTotal, LR!Traffic, Traffic, LR!DiskIo, DiskIo, LR!ProcessEnds,
        ProcessEnds, LR!Interface, Interface
  <2>4. /\ ProcType'
        /\ proc'.busy \in {proc.busy, proc.busy + 1}
        /\ proc'.idle \in {proc.idle, proc.idle + 1}
        /\ proc'.busy = proc.busy \/ proc'.idle = proc.idle
        /\ proc'.other = proc.other
    BY <2>1, <2>2, <2>3, ProcMovesType
  <2>5. LR!ProcType'
    BY <2>4 DEF ProcType, LR!ProcType, LR!MemTotal, MemTotal, LR!Interface, Interface
  <2> QED
    BY <1>1, <1>3, <2>2, <2>4, <2>5
<1>4. CASE UNCHANGED LR!procVars /\ LR!InitFails
  <2>1. /\ ResourcesInv /\ up' = "refused" /\ up = "loaded"
        /\ UNCHANGED <<flag, events, values, before, after, counted, seen, fine, samples>>
        /\ UNCHANGED <<proc, moves>> /\ LR!ProcType'
    BY <1>4 DEF LR!InitFails, ResourcesInv, LR!TypeOK, LR!ProcType, LR!procVars
  <2>2. LR!TypeOK' /\ TicksInOrder' /\ BytesCounted'
    BY <2>1 DEF ResourcesInv, LR!TypeOK, TicksInOrder, BytesCounted
  <2> QED
    BY <2>1, <2>2 DEF ResourcesInv, LR!FiguresInTheirSlots, LR!CpuRateIsPercentage
<1> QED
  BY <1>2, <1>3, <1>4, ResourcesInitSucceeds, ResourcesSample DEF LR!Next

\* Of a counter that could be read the new figures add up to the last reading.
LEMMA ResourcesTraffic ==
    ASSUME ResourcesInv
    PROVE  LR!TrafficCountedOnce
  BY DEF ResourcesInv, LR!TypeOK, BytesCounted, LR!TrafficCountedOnce

-----------------------------------------------------------------------------
(* Sequences of sequences *)

\* FlattenSeq(), with its recursive function under a name of its own.
FlattenStep(ss, g, i) == IF i = 1 THEN ss[i] ELSE g[i - 1] \o ss[i]
Flattened(ss) == CHOOSE g : g = [i \in 1 .. Len(ss) |-> FlattenStep(ss, g, i)]
Flat(ss) == IF Len(ss) = 0 THEN ss ELSE Flattened(ss)[Len(ss)]

\* There is a function that puts the first n sequences one after the other.
FlattensUpTo(ss, n) ==
    \E g : g = [i \in 1 .. n |-> FlattenStep(ss, g, i)]

\* That function exists for every n, by the least n for which it would not.
LEMMA FlattenExists ==
    ASSUME NEW ss, NEW n \in Nat
    PROVE  FlattensUpTo(ss, n)
<1> DEFINE Bad == {m \in Nat : ~FlattensUpTo(ss, m)}
<1> SUFFICES ASSUME Bad # {} PROVE FALSE
  OBVIOUS
<1>1. PICK m \in Bad : \A k \in Bad : m <= k
  <2>1. Bad \in SUBSET Nat
    OBVIOUS
  <2> HIDE DEF Bad
  <2> QED
    BY <2>1, LeastNatural
<1>2. CASE m = 0
  <2> DEFINE g == [i \in 1 .. 0 |-> 0]
  <2>1. g = [i \in 1 .. 0 |-> FlattenStep(ss, g, i)]
    OBVIOUS
  <2> HIDE DEF g
  <2> QED
    BY <1>1, <1>2, <2>1 DEF FlattensUpTo
<1>3. CASE m # 0
  <2>1. m \in Nat /\ m - 1 \in Nat /\ FlattensUpTo(ss, m - 1)
    BY <1>1, <1>3
  <2>2. PICK g : g = [i \in 1 .. m - 1 |-> FlattenStep(ss, g, i)]
    BY <2>1 DEF FlattensUpTo
  <2> DEFINE h == [i \in 1 .. m |-> FlattenStep(ss, g, i)]
  <2>3. ASSUME NEW i \in 1 .. m
        PROVE  h[i] = FlattenStep(ss, h, i)
    <3>1. h[i] = FlattenStep(ss, g, i)
      OBVIOUS
    <3>2. i # 1 => i - 1 \in 1 .. m - 1 /\ i - 1 \in 1 .. m
      BY <2>1
    <3>3. i # 1 => h[i - 1] = FlattenStep(ss, g, i - 1)
      BY <3>2
    <3>4. i # 1 => g[i - 1] = FlattenStep(ss, g, i - 1)
      BY <2>2, <3>2
    <3> HIDE DEF h
    <3> QED
      BY <3>1, <3>3, <3>4 DEF FlattenStep
  <2>4. h = [i \in 1 .. m |-> FlattenStep(ss, h, i)]
    <3>1. h = [i \in 1 .. m |-> h[i]]
      OBVIOUS
    <3> HIDE DEF h
    <3> QED
      BY <2>3, <3>1
  <2> HIDE DEF h
  <2> QED
    BY <1>1, <2>4 DEF FlattensUpTo
<1> QED
  BY <1>2, <1>3

\* The flat sequence holds what the sequences hold.
LEMMA FlattenNames ==
    ASSUME NEW T, NEW ss \in Seq(Seq(T))
    PROVE  /\ Flat(ss) \in Seq(T)
           /\ \A x : x \in Names(Flat(ss)) <=> \E i \in DOMAIN ss : x \in Names(ss[i])
<1> DEFINE n == Len(ss)
           g == Flattened(ss)
<1>1. n \in Nat /\ DOMAIN ss = 1 .. n /\ \A i \in 1 .. n : ss[i] \in Seq(T)
  OBVIOUS
<1>2. CASE n = 0
  <2>1. Flat(ss) = <<>> /\ ss = <<>>
    BY <1>1, <1>2 DEF Flat
  <2> QED
    BY <2>1 DEF Names
<1>3. CASE n # 0
  <2>1. g = [i \in 1 .. n |-> FlattenStep(ss, g, i)]
    <3>1. FlattensUpTo(ss, n)
      <4> HIDE DEF n
      <4> QED
        BY <1>1, FlattenExists
    <3> QED
      BY <3>1 DEF FlattensUpTo, Flattened
  <2>2. Flat(ss) = g[n]
    BY <1>3 DEF Flat
  <2> HIDE DEF g, n
  <2>3. \A i \in 1 .. n : g[i] = FlattenStep(ss, g, i)
    BY <2>1
  <2> DEFINE Holds(i) ==
                /\ g[i] \in Seq(T)
                /\ \A x : x \in Names(g[i]) <=> \E j \in 1 .. i : x \in Names(ss[j])
             Bad == {i \in 1 .. n : ~Holds(i)}
  <2>4. Bad = {}
    <3> SUFFICES ASSUME Bad # {} PROVE FALSE
      OBVIOUS
    <3>1. PICK i \in Bad : \A j \in Bad : i <= j
      <4>1. Bad \in SUBSET Nat
        BY <1>1
      <4> HIDE DEF Bad
      <4> QED
        BY <4>1, LeastNatural
    <3>2. i \in 1 .. n /\ ~Holds(i) /\ (\A j \in 1 .. n : j < i => Holds(j))
      <4> HIDE DEF Holds
      <4> QED
        BY <1>1, <3>1
    <3>3. CASE i = 1
      <4>1. g[i] = ss[i]
        BY <2>3, <3>2, <3>3 DEF FlattenStep
      <4>2. \A j \in 1 .. i : j = 1
        BY <3>3
      <4> QED
        BY <1>1, <3>2, <3>3, <4>1, <4>2
    <3>4. CASE i # 1
      <4>1. i - 1 \in 1 .. n /\ i - 1 < i /\ \A j : j \in 1 .. i <=> j \in 1 .. i - 1 \/ j = i
        BY <1>1, <3>2, <3>4
      <4>2. g[i] = g[i - 1] \o ss[i]
        BY <2>3, <3>2, <3>4 DEF FlattenStep
      <4>3. Holds(i - 1)
        BY <3>2, <4>1
      <4>4. g[i] \in Seq(T) /\ Names(g[i]) = Names(g[i - 1]) \cup Names(ss[i])
        BY <1>1, <3>2, <4>2, <4>3, NamesConcat
      <4> QED
        BY <3>2, <4>1, <4>3, <4>4
    <3> QED
      BY <3>3, <3>4
  <2>5. n \in 1 .. n
    BY <1>1, <1>3
  <2>6. Holds(n)
    BY <2>4, <2>5
  <2> QED
    BY <1>1, <2>2, <2>6
<1> QED
  BY <1>2, <1>3

-----------------------------------------------------------------------------
(* CPU_temperature *)

\* The lists of mf_CPU_temperature_init() are side by side, and hold sensors of
\* the machine that are switched on under the name they are reported by.
TemperatureInv ==
    /\ CT!TypeOK
    /\ up # "running" => samples = 0
    /\ \A i \in DOMAIN at : events[i] = CT!Label(at[i])
    /\ CT!TemperaturesAreOwn

\* What the two nested loops keep: sensors of this machine, and those whose names
\* are switched on.
LEMMA TemperatureListed ==
    ASSUME CT!TemperatureAssumption, machine \in Chips, NEW wanted
    PROVE  /\ CT!Listed(wanted) \in Seq(CT!Sensor)
           /\ \A s : s \in Names(CT!Listed(wanted)) <=>
                 s \in CT!Sensor /\ s \in Names(CT!IfWanted(s, wanted))
<1> DEFINE cores(c) == [k \in DOMAIN machine[c].cores |-> CT!IfWanted(<<c, k>>, wanted)]
           chips == [c \in DOMAIN machine |-> CT!FlattenSeq(cores(c))]
<1>1. /\ machine \in Seq([coretemp : BOOLEAN, id : STRING, cores : Seq(STRING)])
      /\ Len(machine) \in Nat /\ DOMAIN machine = 1 .. Len(machine)
      /\ \A c \in DOMAIN machine :
            /\ machine[c].cores \in Seq(STRING) /\ Len(machine[c].cores) \in Nat
            /\ DOMAIN machine[c].cores = 1 .. Len(machine[c].cores)
  <2>1. machine \in Seq([coretemp : BOOLEAN, id : STRING, cores : Seq(STRING)])
    BY DEF CT!TemperatureAssumption
  <2>2. ASSUME NEW c \in DOMAIN machine PROVE machine[c].cores \in Seq(STRING)
    <3>1. machine[c] \in [coretemp : BOOLEAN, id : STRING, cores : Seq(STRING)]
      <4> DEFINE R == [coretemp : BOOLEAN, id : STRING, cores : Seq(STRING)]
      <4>1. machine \in Seq(R)
        BY <2>1
      <4> HIDE DEF R
      <4>2. machine[c] \in R
        BY <4>1
      <4> QED
        BY <4>2 DEF R
    <3> QED
      BY <3>1
  <2> QED
    BY <2>1, <2>2
<1>2. \A ss : CT!FlattenSeq(ss) = Flat(ss)
  BY DEF CT!FlattenSeq, Flat, Flattened, FlattenStep
<1>3. ASSUME NEW c \in DOMAIN machine
      PROVE  /\ CT!FlattenSeq(cores(c)) \in Seq(CT!Sensor)
             /\ \A s : s \in Names(CT!FlattenSeq(cores(c))) <=>
                   \E k \in DOMAIN machine[c].cores :
                      s = <<c, k>> /\ s \in Names(CT!IfWanted(s, wanted))
  <2>1. ASSUME NEW k \in DOMAIN machine[c].cores
        PROVE  /\ <<c, k>> \in CT!Sensor
               /\ CT!IfWanted(<<c, k>>, wanted) \in Seq(CT!Sensor)
               /\ \A s : s \in Names(CT!IfWanted(<<c, k>>, wanted)) => s = <<c, k>>
    <3>1. <<c, k>> \in CT!Sensor
      BY <1>1 DEF CT!Sensor
    <3> QED
      BY <3>1 DEF CT!IfWanted, Names
  <2>2. cores(c) \in Seq(Seq(CT!Sensor)) /\ DOMAIN cores(c) = DOMAIN machine[c].cores
    <3> DEFINE n == Len(machine[c].cores)
    <3>1. n \in Nat /\ DOMAIN machine[c].cores = 1 .. n
      BY <1>1
    <3> HIDE DEF n
    <3>2. cores(c) = [k \in 1 .. n |-> CT!IfWanted(<<c, k>>, wanted)]
      BY <3>1
    <3> HIDE DEF cores
    <3> QED
      BY <2>1, <3>1, <3>2
  <2>3. \A k \in DOMAIN cores(c) : cores(c)[k] = CT!IfWanted(<<c, k>>, wanted)
    OBVIOUS
  <2> HIDE DEF cores
  <2>4. /\ Flat(cores(c)) \in Seq(CT!Sensor)
        /\ \A s : s \in Names(Flat(cores(c))) <=>
              \E k \in DOMAIN cores(c) : s \in Names(cores(c)[k])
    BY <2>2, FlattenNames
  <2> QED
    BY <1>2, <2>1, <2>2, <2>3, <2>4
<1>4. chips \in Seq(Seq(CT!Sensor)) /\ DOMAIN chips = DOMAIN machine
      /\ \A c \in DOMAIN machine : chips[c] = CT!FlattenSeq(cores(c))
  <2> HIDE DEF cores
  <2> QED
    BY <1>1, <1>3
<1>5. CT!Listed(wanted) = Flat(chips)
  BY <1>2 DEF CT!Listed
<1> HIDE DEF chips, cores
<1>6. /\ Flat(chips) \in Seq(CT!Sensor)
      /\ \A s : s \in Names(Flat(chips)) <=> \E c \in DOMAIN chips : s \in Names(chips[c])
  BY <1>4, FlattenNames
<1>7. \A s : s \in CT!Sensor <=>
         \E c \in DOMAIN machine : \E k \in DOMAIN machine[c].cores : s = <<c, k>>
  BY <1>1 DEF CT!Sensor
<1>8. \A s : (\E c \in DOMAIN chips : s \in Names(chips[c])) <=>
         \E c \in DOMAIN machine : \E k \in DOMAIN machine[c].cores :
            s = <<c, k>> /\ s \in Names(CT!IfWanted(s, wanted))
  BY <1>3, <1>4
<1>9. \A s : (\E c \in DOMAIN machine : \E k \in DOMAIN machine[c].cores :
                 s = <<c, k>> /\ s \in Names(CT!IfWanted(s, wanted))) <=>
             s \in CT!Sensor /\ s \in Names(CT!IfWanted(s, wanted))
  BY <1>7
<1> QED
  BY <1>5, <1>6, <1>8, <1>9

\* Before the initialisation the lists are empty.
LEMMA TemperatureInitInv ==
    ASSUME CT!TemperatureAssumption
    PROVE  CT!Init => TemperatureInv
<1> SUFFICES ASSUME CT!Init PROVE TemperatureInv
  OBVIOUS
<1>1. CT!TypeOK
  <2>1. samples \in 0 .. MaxSamples
    BY DEF CT!Init, CT!TemperatureAssumption
  <2> QED
    BY <2>1 DEF CT!Init, CT!TypeOK
<1> QED
  BY <1>1 DEF CT!Init, TemperatureInv, CT!TemperaturesAreOwn

\* mf_CPU_temperature_init() puts chip, subfeature and name into the same places.
LEMMA TemperatureInitSucceeds ==
    ASSUME CT!TemperatureAssumption, TemperatureInv, NEW wanted \in TemperatureWanted,
           CT!InitSucceeds(wanted)
    PROVE  TemperatureInv'
<1>1. /\ up = "loaded" /\ up' = "running" /\ at' = CT!Listed(wanted)
      /\ events' = [i \in DOMAIN at' |-> CT!Label(at'[i])]
      /\ values' = [i \in DOMAIN at' |-> CT!NoReading]
      /\ UNCHANGED <<machine, fine, samples>>
  BY DEF CT!InitSucceeds
<1>2. /\ machine \in Chips /\ samples = 0 /\ fine \in SUBSET CT!Sensor
      /\ CT!Sensor' = CT!Sensor
      /\ machine \in Seq([coretemp : BOOLEAN, id : STRING, cores : Seq(STRING)])
  BY <1>1 DEF TemperatureInv, CT!TypeOK, CT!Sensor, CT!TemperatureAssumption
<1>3. at' \in Seq(CT!Sensor) /\ DOMAIN at' = 1 .. Len(at')
      /\ Len(at') \in Nat
  BY <1>1, <1>2, TemperatureListed
<1>4. ASSUME NEW s \in CT!Sensor PROVE CT!Label(s) \in CT!Name
  <2>1. s[1] \in DOMAIN machine /\ s[2] \in 1 .. Len(machine[s[1]].cores)
    BY DEF CT!Sensor
  <2>2. machine[s[1]] \in [coretemp : BOOLEAN, id : STRING, cores : Seq(STRING)]
    <3> DEFINE R == [coretemp : BOOLEAN, id : STRING, cores : Seq(STRING)]
    <3>1. machine \in Seq(R)
      BY <1>2
    <3> HIDE DEF R
    <3>2. machine[s[1]] \in R
      BY <2>1, <3>1
    <3> QED
      BY <3>2 DEF R
  <2>3. machine[s[1]].id \in STRING /\ machine[s[1]].cores[s[2]] \in STRING
    BY <2>1, <2>2
  <2> QED
    BY <1>1, <2>3 DEF CT!Label, CT!Name, CT!CoreOf
<1>5. /\ events' \in Seq(CT!Name) /\ Len(events') = Len(at')
      /\ DOMAIN events' = DOMAIN at'
      /\ \A i \in DOMAIN at' : events'[i] = CT!Label(at'[i])
  <2>1. \A i \in DOMAIN at' : at'[i] \in CT!Sensor
    BY <1>3
  <2>2. \A i \in DOMAIN at' : CT!Label(at'[i]) \in CT!Name
    BY <1>4, <2>1
  <2>3. \A i \in DOMAIN at' : events'[i] = CT!Label(at'[i])
    BY <1>1 DEF CT!Label, CT!CoreOf
  <2> QED
    BY <1>1, <1>3, <2>2, <2>3
<1>6. Len(values') = Len(at') /\ DOMAIN values' = DOMAIN at'
      /\ \A i \in DOMAIN values' : values'[i] = CT!NoReading
  BY <1>1, <1>3
<1>7. CT!TypeOK'
  BY <1>1, <1>2, <1>3, <1>5, <1>6 DEF TemperatureInv, CT!TypeOK, CT!NoReading
<1>8. CT!TemperaturesAreOwn'
  BY <1>1, <1>2, <1>5 DEF CT!TemperaturesAreOwn, CT!Label, CT!CoreOf
<1>9. \A i \in DOMAIN at' : events'[i] = CT!Label(at[i])'
  BY <1>1, <1>5 DEF CT!Label, CT!CoreOf
<1> QED
  BY <1>1, <1>7, <1>8, <1>9 DEF TemperatureInv

\* mf_CPU_temperature_sample() goes through the lists: the last sensor that could be
\* read is this one, if it could be read.
LEMMA TemperatureSample ==
    ASSUME CT!TemperatureAssumption, TemperatureInv,
           NEW failed \in SUBSET CT!Range(at), CT!Sample(failed)
    PROVE  TemperatureInv'
<1>1. /\ up = "running" /\ samples < MaxSamples /\ samples' = samples + 1
      /\ fine' = failed /\ values' = [i \in DOMAIN values |-> CT!Value(i, failed)]
      /\ UNCHANGED <<up, machine, at, events>>
  BY DEF CT!Sample
<1>2. /\ at \in Seq(CT!Sensor) /\ Len(at) \in Nat
      /\ DOMAIN at = 1 .. Len(at)
      /\ DOMAIN events = DOMAIN at /\ Len(events) = Len(at)
      /\ Len(values) = Len(events) /\ samples \in 0 .. MaxSamples /\ MaxSamples \in Nat
  BY DEF TemperatureInv, CT!TypeOK, CT!TemperatureAssumption
<1>3. /\ values \in Seq([of : CT!Sensor, sample : 1 .. MaxSamples] \cup {CT!NoReading})
      /\ DOMAIN values = DOMAIN at /\ failed \in SUBSET CT!Sensor
  <2>1. CT!Range(at) \subseteq CT!Sensor
    BY <1>2 DEF CT!Range
  <2> QED
    BY <1>2, <2>1 DEF TemperatureInv, CT!TypeOK
<1>4. ASSUME NEW i \in DOMAIN at
      PROVE  /\ CT!Value(i, failed)
                   \in [of : CT!Sensor, sample : 1 .. MaxSamples] \cup {CT!NoReading}
             /\ at[i] \notin failed =>
                   CT!Value(i, failed) = [of |-> at[i], sample |-> samples']
  <2> DEFINE read == {j \in 1 .. i : at[j] \notin failed}
             last == CT!Max(read)
  <2>1. CT!Value(i, failed) = IF read = {} THEN CT!NoReading
                              ELSE [of |-> at[last], sample |-> samples']
    BY DEF CT!Value
  <2>2. read \subseteq 1 .. i /\ i \in Nat /\ read \subseteq DOMAIN at
    BY <1>2
  <2>3. ASSUME read # {}
        PROVE  last \in read /\ \A j \in read : last >= j
    <3> DEFINE above == {i - j : j \in read}
    <3>1. above \in SUBSET Nat /\ above # {}
      BY <2>2, <2>3
    <3>2. PICK d \in above : \A e \in above : d <= e
      <4> HIDE DEF above
      <4> QED
        BY <3>1, LeastNatural
    <3>3. PICK k \in read : d = i - k
      BY <3>2
    <3>4. ASSUME NEW j \in read PROVE k >= j
      <4>1. i - j \in above
        OBVIOUS
      <4>2. d <= i - j
        BY <3>2, <4>1
      <4>3. i \in Nat /\ j \in Nat /\ k \in Nat
        BY <2>2
      <4> QED
        BY <3>3, <4>2, <4>3
    <3> HIDE DEF read
    <3> QED
      BY <3>4 DEF CT!Max
  <2>4. at[i] \notin failed => i \in read
    BY <1>2
  <2>5. at[i] \notin failed => last = i
    BY <2>2, <2>3, <2>4
  <2>6. samples' \in 1 .. MaxSamples
    BY <1>1, <1>2
  <2> HIDE DEF last, read
  <2>7. read # {} => at[last] \in CT!Sensor
    <3>1. read # {} => last \in DOMAIN at
      BY <2>2, <2>3
    <3>2. \A j \in DOMAIN at : at[j] \in CT!Sensor
      BY <1>2
    <3> QED
      BY <3>1, <3>2
  <2> QED
    BY <2>1, <2>4, <2>5, <2>6, <2>7
<1>5. /\ values' \in Seq([of : CT!Sensor, sample : 1 .. MaxSamples] \cup {CT!NoReading})
      /\ Len(values') = Len(events') /\ DOMAIN values' = DOMAIN at
  BY <1>1, <1>2, <1>3, <1>4
<1>6. CT!Sensor' = CT!Sensor
  BY <1>1 DEF CT!Sensor
<1>7. CT!TypeOK'
  BY <1>1, <1>2, <1>3, <1>5, <1>6 DEF TemperatureInv, CT!TypeOK, CT!NoReading
<1>8. CT!TemperaturesAreOwn'
  <2>1. \A i \in DOMAIN at :
           at[i] \notin failed => values'[i] = [of |-> at[i], sample |-> samples']
    BY <1>1, <1>3, <1>4
  <2> QED
    BY <1>1, <1>2, <2>1 DEF TemperatureInv, CT!TemperaturesAreOwn, CT!CoreOf
<1>9. \A i \in DOMAIN at' : events'[i] = CT!Label(at[i])'
  BY <1>1 DEF TemperatureInv, CT!Label, CT!CoreOf
<1> QED
  BY <1>1, <1>7, <1>8, <1>9 DEF TemperatureInv

\* The inductive step, action by action.
LEMMA TemperatureStep ==
    ASSUME CT!TemperatureAssumption
    PROVE  TemperatureInv /\ [CT!Next]_(CT!vars) => TemperatureInv'
<1> SUFFICES ASSUME TemperatureInv, [CT!Next]_(CT!vars) PROVE TemperatureInv'
  OBVIOUS
<1>1. ASSUME UNCHANGED <<machine, at, events, values, fine, samples>>,
             up' \in {up, "refused"}, up' = "refused" => samples = 0
      PROVE  TemperatureInv'
  <2>1. CT!TypeOK'
    BY <1>1 DEF TemperatureInv, CT!TypeOK, CT!Sensor
  <2>2. CT!TemperaturesAreOwn'
    BY <1>1 DEF TemperatureInv, CT!TemperaturesAreOwn, CT!CoreOf
  <2>3. (\A i \in DOMAIN at : events[i] = CT!Label(at[i]))'
    BY <1>1 DEF TemperatureInv, CT!Label, CT!CoreOf
  <2> QED
    BY <1>1, <2>1, <2>2, <2>3 DEF TemperatureInv
<1>2. CASE UNCHANGED CT!vars
  <2>1. up = "refused" => samples = 0
    BY DEF TemperatureInv
  <2> QED
    BY <1>1, <1>2, <2>1 DEF CT!vars
<1>3. CASE CT!InitFails
  <2>1. up = "loaded" /\ samples = 0 /\ up' = "refused"
        /\ UNCHANGED <<machine, at, events, values, fine, samples>>
    BY <1>3 DEF CT!InitFails, TemperatureInv
  <2> QED
    BY <1>1, <2>1
<1> QED
  BY <1>2, <1>3, TemperatureInitSucceeds, TemperatureSample DEF CT!Next

-----------------------------------------------------------------------------
(* NVML *)

\* The name in element i of data->events: the metrics GPU by GPU.
Gpu(i) == ((i - 1) \div 7) + 1
Place(i) == ((i - 1) % 7) + 1
EventAt(i) == <<Gpu(i), NV!NVML_metrics[Place(i)]>>

\* The query that a name's figure comes from.
QueryAt(i) == <<Gpu(i), NV!QueryOf(NV!NVML_metrics[Place(i)])>>

NvmlInv ==
    /\ NV!TypeOK
    /\ up # "running" => samples = 0
    /\ up = "running" => events = [i \in 1 .. 7 * Gpus |-> EventAt(i)]
    /\ samples > 0 => \A i \in 1 .. 7 * Gpus :
          values[i] = [of |-> EventAt(i), sample |-> samples, valid |-> QueryAt(i) \notin fine]
    /\ NV!ReportsWhatSucceeded

\* What a query stores, and where.
LEMMA NvmlTable ==
    /\ NV!Query = {"utilization", "memory", "send", "receive", "temperature", "power"}
    /\ \A q \in NV!Query : q # "utilization" => DOMAIN NV!Stored[q].metrics = {1}
    /\ DOMAIN NV!Stored["utilization"].metrics = {1, 2}
    /\ NV!Stored["utilization"].at = 1 /\ NV!Stored["memory"].at = 3
    /\ NV!Stored["send"].at = 4 /\ NV!Stored["receive"].at = 5
    /\ NV!Stored["temperature"].at = 6 /\ NV!Stored["power"].at = 7
    /\ NV!Stored["utilization"].metrics[1] = "gpu_usage_rate"
    /\ NV!Stored["utilization"].metrics[2] = "mem_usage_rate"
    /\ NV!Stored["memory"].metrics[1] = "mem_allocated"
    /\ NV!Stored["send"].metrics[1] = "PCIe_snd_throughput"
    /\ NV!Stored["receive"].metrics[1] = "PCIe_rcv_throughput"
    /\ NV!Stored["temperature"].metrics[1] = "temperature"
    /\ NV!Stored["power"].metrics[1] = "power"
  BY DEF NV!Query, NV!Stored

\* The names in the order of the code's table.
LEMMA NvmlMetrics ==
    /\ NV!NVML_metrics[1] = "gpu_usage_rate" /\ NV!NVML_metrics[2] = "mem_usage_rate"
    /\ NV!NVML_metrics[3] = "mem_allocated" /\ NV!NVML_metrics[4] = "PCIe_snd_throughput"
    /\ NV!NVML_metrics[5] = "PCIe_rcv_throughput" /\ NV!NVML_metrics[6] = "temperature"
    /\ NV!NVML_metrics[7] = "power"
    /\ DOMAIN NV!NVML_metrics = 1 .. 7
  BY DEF NV!NVML_metrics

\* A query stores its figures where the names of its metrics are.
LEMMA NvmlStored ==
    /\ \A q \in NV!Query : \A k \in DOMAIN NV!Stored[q].metrics :
          /\ k \in 1 .. 2
          /\ NV!Stored[q].at + k - 1 \in 1 .. 7
          /\ NV!NVML_metrics[NV!Stored[q].at + k - 1] = NV!Stored[q].metrics[k]
          /\ NV!QueryOf(NV!Stored[q].metrics[k]) = q
    /\ \A j \in 1 .. 7 : \E q \in NV!Query : \E k \in DOMAIN NV!Stored[q].metrics :
          NV!Stored[q].at + k - 1 = j
<1>1. ASSUME NEW q \in NV!Query, NEW k \in DOMAIN NV!Stored[q].metrics
      PROVE  /\ k \in 1 .. 2
             /\ NV!Stored[q].at + k - 1 \in 1 .. 7
             /\ NV!NVML_metrics[NV!Stored[q].at + k - 1] = NV!Stored[q].metrics[k]
  BY NvmlTable, NvmlMetrics
<1>2. ASSUME NEW q \in NV!Query, NEW k \in DOMAIN NV!Stored[q].metrics
      PROVE  NV!QueryOf(NV!Stored[q].metrics[k]) = q
  <2> DEFINE m == NV!Stored[q].metrics[k]
  <2>1. m \in NV!Range(NV!Stored[q].metrics)
    BY DEF NV!Range
  <2>2. ASSUME NEW p \in NV!Query, m \in NV!Range(NV!Stored[p].metrics)
        PROVE  p = q
    <3>1. PICK l \in DOMAIN NV!Stored[p].metrics : NV!Stored[p].metrics[l] = m
      BY <2>2 DEF NV!Range
    <3> QED
      BY <3>1, NvmlTable
  <2> HIDE DEF m
  <2> QED
    BY <2>1, <2>2 DEF m, NV!QueryOf
<1>3. ASSUME NEW j \in 1 .. 7
      PROVE  \E q \in NV!Query : \E k \in DOMAIN NV!Stored[q].metrics :
                NV!Stored[q].at + k - 1 = j
  <2> DEFINE At(q, k) == q \in NV!Query /\ k \in DOMAIN NV!Stored[q].metrics
                         /\ NV!Stored[q].at + k - 1 = j
  <2>1. \/ At("utilization", 1) \/ At("utilization", 2) \/ At("memory", 1) \/ At("send", 1)
        \/ At("receive", 1) \/ At("temperature", 1) \/ At("power", 1)
    BY NvmlTable
  <2> QED
    BY <2>1
<1> QED
  BY <1>1, <1>2, <1>3

\* The elements of the array are the metrics of the GPUs, each once.
LEMMA NvmlPlaces ==
    ASSUME NV!NvmlAssumption
    PROVE  /\ \A i \in 1 .. 7 * Gpus :
                 /\ Gpu(i) \in 1 .. Gpus /\ Place(i) \in 1 .. 7
                 /\ i = 7 * (Gpu(i) - 1) + Place(i)
           /\ \A g \in 1 .. Gpus, j \in 1 .. 7 :
                 /\ 7 * (g - 1) + j \in 1 .. 7 * Gpus
                 /\ Gpu(7 * (g - 1) + j) = g /\ Place(7 * (g - 1) + j) = j
<1>1. Gpus \in Nat
  BY DEF NV!NvmlAssumption
<1>2. \A i \in 1 .. 7 * Gpus :
         /\ Gpu(i) \in 1 .. Gpus /\ Place(i) \in 1 .. 7
         /\ i = 7 * (Gpu(i) - 1) + Place(i)
  BY <1>1 DEF Gpu, Place
<1>3. \A g \in 1 .. Gpus, j \in 1 .. 7 :
         /\ 7 * (g - 1) + j \in 1 .. 7 * Gpus
         /\ Gpu(7 * (g - 1) + j) = g /\ Place(7 * (g - 1) + j) = j
  BY <1>1 DEF Gpu, Place
<1> QED
  BY <1>2, <1>3

\* Every element has a name of its own, and every name an element.
LEMMA NvmlEvents ==
    ASSUME NV!NvmlAssumption
    PROVE  /\ \A i \in 1 .. 7 * Gpus : EventAt(i) \in NV!Event
           /\ \A e \in NV!Event : \E i \in 1 .. 7 * Gpus : EventAt(i) = e
<1>1. ASSUME NEW i \in 1 .. 7 * Gpus PROVE EventAt(i) \in NV!Event
  <2>1. Gpu(i) \in 1 .. Gpus /\ Place(i) \in 1 .. 7
    BY NvmlPlaces
  <2>2. NV!NVML_metrics[Place(i)] \in NV!Range(NV!NVML_metrics)
    BY <2>1, NvmlMetrics DEF NV!Range
  <2> QED
    BY <2>1, <2>2 DEF EventAt, NV!Event
<1>2. ASSUME NEW e \in NV!Event PROVE \E i \in 1 .. 7 * Gpus : EventAt(i) = e
  <2>1. PICK g \in 1 .. Gpus, m \in NV!Range(NV!NVML_metrics) : e = <<g, m>>
    BY DEF NV!Event
  <2>2. PICK j \in 1 .. 7 : m = NV!NVML_metrics[j]
    BY NvmlMetrics DEF NV!Range
  <2>3. EventAt(7 * (g - 1) + j) = e /\ 7 * (g - 1) + j \in 1 .. 7 * Gpus
    BY <2>1, <2>2, NvmlPlaces DEF EventAt
  <2> QED
    BY <2>3
<1> QED
  BY <1>1, <1>2

\* mf_NVML_to_json(): the entries are those of the elements whose metric is asked for
\* and whose figure is valid.
LEMMA NvmlToJson ==
    ASSUME NEW N \in Nat, NEW now, flag \in Seq(STRING),
           events = [i \in 1 .. N |-> EventAt(i)],
           \A i \in 1 .. N : EventAt(i) \in NV!Event /\ now[i] \in NV!Figure
    PROVE  /\ NV!ToJson(now) \in Seq([name : NV!Event, figure : NV!Figure])
           /\ \A x : x \in NV!Range(NV!ToJson(now)) <=>
                 \E i \in 1 .. N : /\ x = [name |-> EventAt(i), figure |-> now[i]]
                                   /\ now[i].valid
                                   /\ EventAt(i)[2] \in NV!Range(flag)
<1> DEFINE Entry == [name : NV!Event, figure : NV!Figure]
           entry(i) == [name |-> events[i], figure |-> now[i]]
           found(w, i) == IF events[i][2] = flag[w] /\ now[i].valid THEN <<entry(i)>> ELSE <<>>
           row(w) == [i \in DOMAIN events |-> found(w, i)]
           rows == [w \in DOMAIN flag |-> NV!FlattenSeq(row(w))]
<1>1. \A ss : NV!FlattenSeq(ss) = Flat(ss)
  BY DEF NV!FlattenSeq, Flat, Flattened, FlattenStep
<1>2. NV!ToJson(now) = Flat(rows)
  BY <1>1 DEF NV!ToJson
<1>3. DOMAIN events = 1 .. N /\ \A i \in 1 .. N : events[i] = EventAt(i)
  OBVIOUS
<1>4. ASSUME NEW i \in 1 .. N PROVE entry(i) \in Entry
  BY <1>3
<1> HIDE DEF Entry, entry
<1>5. ASSUME NEW w \in DOMAIN flag
      PROVE  /\ NV!FlattenSeq(row(w)) \in Seq(Entry)
             /\ \A x : x \in Names(NV!FlattenSeq(row(w))) <=>
                   \E i \in 1 .. N : /\ x = entry(i)
                                     /\ events[i][2] = flag[w] /\ now[i].valid
  <2>1. ASSUME NEW i \in 1 .. N
        PROVE  /\ found(w, i) \in Seq(Entry)
               /\ \A x : x \in Names(found(w, i)) <=>
                     x = entry(i) /\ events[i][2] = flag[w] /\ now[i].valid
    BY <1>4 DEF Names
  <2> HIDE DEF found
  <2>2. row(w) = [i \in 1 .. N |-> found(w, i)]
    BY <1>3
  <2> HIDE DEF row
  <2>3. /\ row(w) \in Seq(Seq(Entry)) /\ DOMAIN row(w) = 1 .. N
        /\ \A i \in 1 .. N : row(w)[i] = found(w, i)
    BY <2>1, <2>2
  <2>4. /\ Flat(row(w)) \in Seq(Entry)
        /\ \A x : x \in Names(Flat(row(w))) <=>
              \E i \in DOMAIN row(w) : x \in Names(row(w)[i])
    BY <2>3, FlattenNames
  <2>5. \A x : (\E i \in DOMAIN row(w) : x \in Names(row(w)[i])) <=>
               \E i \in 1 .. N : x = entry(i) /\ events[i][2] = flag[w] /\ now[i].valid
    BY <2>1, <2>3
  <2>6. NV!FlattenSeq(row(w)) = Flat(row(w))
    BY <1>1
  <2> QED
    BY <2>4, <2>5, <2>6
<1>6. /\ rows \in Seq(Seq(Entry)) /\ DOMAIN rows = DOMAIN flag
      /\ \A w \in DOMAIN flag : rows[w] = NV!FlattenSeq(row(w))
  <2> HIDE DEF row
  <2> QED
    BY <1>5
<1> HIDE DEF rows, row
<1>7. /\ Flat(rows) \in Seq(Entry)
      /\ \A x : x \in Names(Flat(rows)) <=> \E w \in DOMAIN rows : x \in Names(rows[w])
  BY <1>6, FlattenNames
<1>8. ASSUME NEW x
      PROVE  (\E w \in DOMAIN rows : x \in Names(rows[w])) <=>
             \E i \in 1 .. N : /\ x = entry(i) /\ now[i].valid
                               /\ \E w \in DOMAIN flag : events[i][2] = flag[w]
  <2>1. \A w \in DOMAIN flag :
           x \in Names(rows[w]) <=>
           \E i \in 1 .. N : x = entry(i) /\ events[i][2] = flag[w] /\ now[i].valid
    BY <1>5, <1>6
  <2> QED
    BY <1>6, <2>1
<1>9. /\ \A i \in 1 .. N : (\E w \in DOMAIN flag : events[i][2] = flag[w]) <=>
                              EventAt(i)[2] \in NV!Range(flag)
      /\ NV!Range(NV!ToJson(now)) = Names(Flat(rows))
  BY <1>2, <1>3 DEF NV!Range, Names
<1>10. \A i \in 1 .. N : entry(i) = [name |-> EventAt(i), figure |-> now[i]]
  BY <1>3 DEF entry
<1>11. NV!ToJson(now) \in Seq([name : NV!Event, figure : NV!Figure])
  BY <1>2, <1>7 DEF Entry
<1>12. ASSUME NEW x
       PROVE  x \in NV!Range(NV!ToJson(now)) <=>
              \E i \in 1 .. N : /\ x = [name |-> EventAt(i), figure |-> now[i]]
                                /\ now[i].valid
                                /\ EventAt(i)[2] \in NV!Range(flag)
  <2>1. x \in NV!Range(NV!ToJson(now)) <=>
        \E i \in 1 .. N : /\ x = entry(i) /\ now[i].valid
                          /\ \E w \in DOMAIN flag : events[i][2] = flag[w]
    BY <1>7, <1>8, <1>9
  <2> QED
    BY <1>9, <1>10, <2>1
<1> QED
  BY <1>11, <1>12

\* Before the initialisation nothing is named, stored or reported.
LEMMA NvmlInitInv ==
    ASSUME NV!NvmlAssumption
    PROVE  NV!Init => NvmlInv
<1> SUFFICES ASSUME NV!Init PROVE NvmlInv
  OBVIOUS
<1>1. samples \in 0 .. MaxSamples /\ Gpus \in Nat
  BY DEF NV!Init, NV!NvmlAssumption
<1>2. NV!TypeOK
  BY <1>1 DEF NV!Init, NV!TypeOK
<1> QED
  BY <1>2 DEF NV!Init, NvmlInv, NV!ReportsWhatSucceeded

\* mf_NVML_init() names all seven figures of every GPU.
LEMMA NvmlInitSucceeds ==
    ASSUME NV!NvmlAssumption, NvmlInv, NEW wanted \in NvmlWanted, NV!InitSucceeds(wanted)
    PROVE  NvmlInv'
<1>1. /\ up' = "running" /\ flag' = wanted /\ samples = 0 /\ Gpus \in Nat
      /\ events' = [i \in 1 .. 7 * Gpus |-> EventAt(i)]
      /\ UNCHANGED <<values, line, fine, samples>>
  BY DEF NV!InitSucceeds, NvmlInv, EventAt, Gpu, Place, NV!NvmlAssumption
<1>2. events' \in Seq(NV!Event) /\ Len(events') = 7 * Gpus
  BY <1>1, NvmlEvents
<1>3. flag' \in Seq(STRING)
  BY <1>1 DEF NV!NvmlAssumption
<1>4. NV!TypeOK'
  BY <1>1, <1>2, <1>3 DEF NvmlInv, NV!TypeOK
<1> QED
  BY <1>1, <1>4 DEF NvmlInv, NV!ReportsWhatSucceeded

\* mf_NVML_sample(): an element is written by one query, the one whose metric it is
\* named after.
LEMMA NvmlSample ==
    ASSUME NV!NvmlAssumption, NvmlInv, NEW failed \in SUBSET NV!GpuQuery, NV!Sample(failed)
    PROVE  NvmlInv'
<1> DEFINE writers(i) == {c \in NV!GpuQuery \X (1 .. 2) :
                             /\ c[2] \in DOMAIN NV!Stored[c[1][2]].metrics
                             /\ NV!Slot(c[1][1], c[1][2], c[2]) = i}
           of(c) == [of |-> <<c[1][1], NV!Stored[c[1][2]].metrics[c[2]]>>,
                     sample |-> samples', valid |-> c[1] \notin failed]
<1>1. /\ up = "running" /\ samples < MaxSamples /\ samples' = samples + 1
      /\ fine' = failed
      /\ values' = [i \in DOMAIN values |->
            IF writers(i) = {} THEN values[i] ELSE of(CHOOSE c \in writers(i) : TRUE)]
      /\ line' = NV!ToJson(values') /\ UNCHANGED <<up, flag, events>>
  BY DEF NV!Sample
<1>2. /\ Gpus \in Nat /\ samples \in 0 .. MaxSamples /\ MaxSamples \in Nat
      /\ DOMAIN values = 1 .. 7 * Gpus /\ flag \in Seq(STRING)
      /\ events = [i \in 1 .. 7 * Gpus |-> EventAt(i)]
      /\ samples' \in 1 .. MaxSamples
  <2>1. Gpus \in Nat /\ samples \in 0 .. MaxSamples /\ MaxSamples \in Nat
    BY DEF NvmlInv, NV!TypeOK, NV!NvmlAssumption
  <2>2. DOMAIN values = 1 .. 7 * Gpus /\ flag \in Seq(STRING)
    BY DEF NvmlInv, NV!TypeOK
  <2>3. events = [i \in 1 .. 7 * Gpus |-> EventAt(i)]
    BY <1>1 DEF NvmlInv
  <2>4. samples' \in 1 .. MaxSamples
    <3>1. samples' = samples + 1 /\ samples < MaxSamples
      BY <1>1
    <3> QED
      BY <2>1, <3>1
  <2> QED
    BY <2>1, <2>2, <2>3, <2>4
<1>3. ASSUME NEW i \in 1 .. 7 * Gpus, NEW c \in writers(i)
      PROVE  of(c) = [of |-> EventAt(i), sample |-> samples',
                      valid |-> QueryAt(i) \notin failed]
  <2>1. PICK g \in 1 .. Gpus, q \in NV!Query, k \in 1 .. 2 :
            /\ k \in DOMAIN NV!Stored[q].metrics
            /\ c = <<<<g, q>>, k>> /\ 7 * (g - 1) + NV!Stored[q].at + k - 1 = i
    BY DEF NV!GpuQuery, NV!Slot
  <2> DEFINE j == NV!Stored[q].at + k - 1
  <2>2. /\ j \in 1 .. 7 /\ NV!NVML_metrics[j] = NV!Stored[q].metrics[k]
        /\ NV!QueryOf(NV!Stored[q].metrics[k]) = q
    BY <2>1, NvmlStored
  <2>3. 7 * (g - 1) + j = i
    <3>1. NV!Stored[q].at \in Int /\ k \in Int
      BY NvmlTable
    <3> QED
      BY <1>2, <2>1, <3>1
  <2> HIDE DEF j
  <2>4. Gpu(i) = g /\ Place(i) = j
    BY <2>2, <2>3, NvmlPlaces
  <2>5. EventAt(i) = <<g, NV!Stored[q].metrics[k]>> /\ QueryAt(i) = <<g, q>>
    BY <2>2, <2>4 DEF EventAt, QueryAt
  <2> QED
    BY <2>1, <2>5
<1>4. ASSUME NEW i \in 1 .. 7 * Gpus PROVE writers(i) # {}
  <2>1. /\ Gpu(i) \in 1 .. Gpus /\ Place(i) \in 1 .. 7
        /\ i = 7 * (Gpu(i) - 1) + Place(i)
    BY NvmlPlaces
  <2>2. PICK q \in NV!Query, k \in 1 .. 2 :
            k \in DOMAIN NV!Stored[q].metrics /\ NV!Stored[q].at + k - 1 = Place(i)
    BY <2>1, NvmlStored
  <2>3. k \in 1 .. 2 /\ NV!Stored[q].at \in Int
    BY NvmlTable
  <2>4. NV!Slot(Gpu(i), q, k) = i
    BY <1>2, <2>1, <2>2, <2>3 DEF NV!Slot
  <2>5. <<<<Gpu(i), q>>, k>> \in writers(i)
    BY <2>1, <2>2, <2>3, <2>4 DEF NV!GpuQuery
  <2> QED
    BY <2>5
<1> HIDE DEF writers, of
<1>5. \A i \in 1 .. 7 * Gpus :
         values'[i] = [of |-> EventAt(i), sample |-> samples',
                       valid |-> QueryAt(i) \notin failed]
  <2> TAKE i \in 1 .. 7 * Gpus
  <2>1. (CHOOSE c \in writers(i) : TRUE) \in writers(i)
    BY <1>4
  <2>2. values'[i] = of(CHOOSE c \in writers(i) : TRUE)
    BY <1>1, <1>2, <1>4
  <2> QED
    BY <1>3, <2>1, <2>2
<1>6. ASSUME NEW i \in 1 .. 7 * Gpus
      PROVE  /\ EventAt(i) \in NV!Event /\ values'[i] \in NV!Figure
             /\ values'[i].valid <=> QueryAt(i) \notin failed
  <2> DEFINE answered == QueryAt(i) \notin failed
  <2>1. answered \in BOOLEAN
    OBVIOUS
  <2>2. values'[i] = [of |-> EventAt(i), sample |-> samples', valid |-> answered]
    BY <1>5
  <2> HIDE DEF answered
  <2>3. EventAt(i) \in NV!Event
    BY NvmlEvents
  <2>4. values'[i] \in NV!Figure /\ values'[i].valid = answered
    BY <1>2, <2>1, <2>2, <2>3 DEF NV!Figure
  <2> QED
    BY <2>3, <2>4 DEF answered
<1>7. 7 * Gpus \in Nat
  BY <1>2
<1>8. /\ line' \in Seq([name : NV!Event, figure : NV!Figure])
      /\ \A x : x \in NV!Range(line') <=>
            \E i \in 1 .. 7 * Gpus : /\ x = [name |-> EventAt(i), figure |-> values'[i]]
                                     /\ values'[i].valid
                                     /\ EventAt(i)[2] \in NV!Range(flag)
  BY <1>1, <1>2, <1>6, <1>7, NvmlToJson
<1>9. NV!TypeOK'
  <2>1. DOMAIN values' = 1 .. 7 * Gpus
    BY <1>1, <1>2
  <2> QED
    BY <1>1, <1>2, <1>6, <1>8, <2>1 DEF NvmlInv, NV!TypeOK
<1>10. NV!ReportsWhatSucceeded'
  <2> DEFINE whole(e) ==
          [name |-> e, figure |-> [of |-> e, sample |-> samples', valid |-> TRUE]]
             good == {e \in NV!Event : /\ e[2] \in NV!Range(flag)
                                       /\ <<e[1], NV!QueryOf(e[2])>> \notin failed}
  <2>1. \A i \in 1 .. 7 * Gpus : QueryAt(i) = <<EventAt(i)[1], NV!QueryOf(EventAt(i)[2])>>
    BY DEF QueryAt, EventAt
  <2>2. ASSUME NEW x \in NV!Range(line') PROVE \E e \in good : x = whole(e)
    <3>1. PICK i \in 1 .. 7 * Gpus : /\ x = [name |-> EventAt(i), figure |-> values'[i]]
                                     /\ values'[i].valid
                                     /\ EventAt(i)[2] \in NV!Range(flag)
      BY <1>8
    <3>2. QueryAt(i) \notin failed /\ x = whole(EventAt(i))
      <4>1. QueryAt(i) \notin failed
        BY <1>6, <3>1
      <4>2. (QueryAt(i) \notin failed) = TRUE
        BY <4>1
      <4> QED
        BY <1>5, <3>1, <4>1, <4>2
    <3>3. EventAt(i) \in good
      BY <1>6, <2>1, <3>1, <3>2
    <3> QED
      BY <3>2, <3>3
  <2>3. ASSUME NEW e \in good PROVE whole(e) \in NV!Range(line')
    <3>1. PICK i \in 1 .. 7 * Gpus : EventAt(i) = e
      BY NvmlEvents
    <3>2. QueryAt(i) \notin failed
      BY <2>1, <3>1
    <3>3. values'[i] = [of |-> e, sample |-> samples', valid |-> TRUE]
      BY <1>5, <3>1, <3>2
    <3>4. /\ whole(e) = [name |-> EventAt(i), figure |-> values'[i]]
          /\ values'[i].valid /\ EventAt(i)[2] \in NV!Range(flag)
      BY <3>1, <3>3
    <3> QED
      BY <1>8, <3>4
  <2>4. NV!Range(line') = {whole(e) : e \in good}
    BY <2>2, <2>3
  <2> HIDE DEF whole
  <2>5. /\ flag' = flag /\ fine' = failed
        /\ \A e : whole(e) = [name |-> e, figure |-> [of |-> e, sample |-> samples',
                                                      valid |-> TRUE]]
    BY <1>1 DEF whole
  <2>6. NV!Range(line)' = {whole(e) : e \in good} /\ NV!Range(flag)' = NV!Range(flag)
    BY <2>4, <2>5 DEF NV!Range
  <2> QED
    BY <2>5, <2>6 DEF NV!ReportsWhatSucceeded
<1>11. up' = "running" /\ events' = [i \in 1 .. 7 * Gpus |-> EventAt(i)]
  BY <1>1, <1>2
<1> QED
  BY <1>1, <1>5, <1>9, <1>10, <1>11 DEF NvmlInv

\* The inductive step, action by action.
LEMMA NvmlStepInv ==
    ASSUME NV!NvmlAssumption
    PROVE  NvmlInv /\ [NV!Next]_(NV!vars) => NvmlInv'
<1> SUFFICES ASSUME NvmlInv, [NV!Next]_(NV!vars) PROVE NvmlInv'
  OBVIOUS
<1>1. CASE UNCHANGED NV!vars
  BY <1>1 DEF NV!vars, NvmlInv, NV!TypeOK, NV!ReportsWhatSucceeded
<1>2. CASE NV!InitFails
  <2>1. /\ up = "loaded" /\ up' = "refused"
        /\ UNCHANGED <<flag, events, values, line, fine, samples>>
    BY <1>2 DEF NV!InitFails
  <2> QED
    BY <2>1 DEF NvmlInv, NV!TypeOK, NV!ReportsWhatSucceeded
<1>3. CASE \E n \in 0 .. MaxFailing : \E failed \in NV!kSubset(n, NV!GpuQuery) :
              NV!Sample(failed)
  <2>1. PICK n \in 0 .. MaxFailing :
            \E failed \in NV!kSubset(n, NV!GpuQuery) : NV!Sample(failed)
    BY <1>3
  <2>2. PICK failed \in SUBSET NV!GpuQuery : NV!Sample(failed)
    BY <2>1 DEF NV!kSubset
  <2> QED
    BY <2>1, <2>2, NvmlSample
<1> QED
  BY <1>1, <1>2, <1>3, NvmlInitSucceeds DEF NV!Next

-----------------------------------------------------------------------------
(* Functions that go on step by step *)

\* A set of numbers that has 0 and with every number the next has all of them.
LEMMA UpFromZero ==
    ASSUME NEW H \in SUBSET Nat, NEW N \in Nat, 0 \in H,
           \A n \in 1 .. N : n - 1 \in H => n \in H
    PROVE  \A n \in 0 .. N : n \in H
<1> DEFINE Bad == {n \in 0 .. N : n \notin H}
<1> SUFFICES ASSUME Bad # {} PROVE FALSE
  OBVIOUS
<1>1. PICK n \in Bad : \A m \in Bad : n <= m
  <2>1. Bad \in SUBSET Nat
    OBVIOUS
  <2> HIDE DEF Bad
  <2> QED
    BY <2>1, LeastNatural
<1>2. n \in 1 .. N /\ n - 1 \in 0 .. N /\ n - 1 \notin Bad
  BY <1>1
<1> QED
  BY <1>1, <1>2

\* A function that starts with x and goes on by the steps given, for N steps.
Steps(T, x, N, step) ==
    \E g \in [0 .. N -> T] :
        g[0] = x /\ \A n \in 1 .. N : g[n] = step[<<g[n - 1], n>>]

\* It exists.
LEMMA StepsExist ==
    ASSUME NEW T, NEW x \in T, NEW N \in Nat, NEW step \in [T \X (1 .. N) -> T]
    PROVE  Steps(T, x, N, step)
<1> DEFINE Fits(g, m) == g = [n \in 0 .. m |-> IF n = 0 THEN x ELSE step[<<g[n - 1], n>>]]
           H == {m \in 0 .. N : \E g \in [0 .. m -> T] : Fits(g, m)}
<1>1. 0 \in H
  <2> DEFINE g == [n \in 0 .. 0 |-> x]
  <2>1. g \in [0 .. 0 -> T] /\ Fits(g, 0)
    OBVIOUS
  <2> HIDE DEF g, Fits
  <2> QED
    BY <2>1
<1>2. ASSUME NEW m \in 1 .. N, m - 1 \in H PROVE m \in H
  <2>1. PICK g \in [0 .. m - 1 -> T] : Fits(g, m - 1)
    BY <1>2
  <2> DEFINE h == [n \in 0 .. m |-> IF n = 0 THEN x ELSE step[<<g[n - 1], n>>]]
  <2>2. ASSUME NEW n \in 0 .. m PROVE h[n] \in T
    <3>1. n # 0 => n - 1 \in 0 .. m - 1 /\ n \in 1 .. N
      OBVIOUS
    <3>2. n # 0 => <<g[n - 1], n>> \in T \X (1 .. N)
      BY <3>1
    <3>3. n # 0 => step[<<g[n - 1], n>>] \in T
      BY <3>2
    <3> QED
      BY <3>3
  <2>3. ASSUME NEW n \in 0 .. m - 1 PROVE g[n] = h[n]
    <3>1. n \in 0 .. m
      OBVIOUS
    <3>2. g[n] = IF n = 0 THEN x ELSE step[<<g[n - 1], n>>]
      BY <2>1
    <3> QED
      BY <3>1, <3>2
  <2>4. h = [n \in 0 .. m |-> IF n = 0 THEN x ELSE step[<<h[n - 1], n>>]]
    <3>1. ASSUME NEW n \in 0 .. m, n # 0 PROVE g[n - 1] = h[n - 1]
      <4>1. n - 1 \in 0 .. m - 1
        BY <3>1
      <4> HIDE DEF h
      <4> QED
        BY <2>3, <4>1
    <3> QED
      BY <3>1
  <2>5. h \in [0 .. m -> T] /\ Fits(h, m)
    <3>1. h \in [0 .. m -> T]
      BY <2>2
    <3> HIDE DEF h
    <3> QED
      BY <2>4, <3>1
  <2> HIDE DEF h, Fits
  <2> QED
    BY <2>5
<1>3. H \in SUBSET Nat
  <2> HIDE DEF Fits
  <2> QED
    OBVIOUS
<1> HIDE DEF H
<1>4. N \in H
  BY <1>1, <1>2, <1>3, UpFromZero
<1>5. PICK g \in [0 .. N -> T] : Fits(g, N)
  BY <1>4 DEF H
<1>6. g[0] = x /\ \A n \in 1 .. N : g[n] = step[<<g[n - 1], n>>]
  BY <1>5
<1> QED
  BY <1>6 DEF Steps

\* There is no other.
LEMMA StepsUnique ==
    ASSUME NEW N \in Nat, NEW f, NEW g, f[0] = g[0],
           \A n \in 1 .. N : f[n - 1] = g[n - 1] => f[n] = g[n]
    PROVE  \A n \in 0 .. N : f[n] = g[n]
<1> DEFINE H == {n \in 0 .. N : f[n] = g[n]}
<1>1. 0 \in H /\ H \in SUBSET Nat /\ \A n \in 1 .. N : n - 1 \in H => n \in H
  OBVIOUS
<1>2. \A n \in 0 .. N : n \in H
  <2> HIDE DEF H
  <2> QED
    BY <1>1, UpFromZero
<1> QED
  BY <1>2

-----------------------------------------------------------------------------
(* Sums *)

\* What SumOf() adds up, step by step.
ReadingStep(s, g, n) == IF n = 0 THEN 0 ELSE g[n - 1] + s[n]
SumTo(s) == CHOOSE g : g = [n \in 0 .. Len(s) |-> ReadingStep(s, g, n)]

\* It adds up the readings one by one, and SumOf() gives the last of the sums.
LEMMA SumToType ==
    ASSUME NEW s \in Seq(Nat)
    PROVE  /\ SumTo(s) \in [0 .. Len(s) -> Nat]
           /\ \A n \in 0 .. Len(s) : SumTo(s)[n] = ReadingStep(s, SumTo(s), n)
           /\ BP!SumOf(s) = SumTo(s)[Len(s)]
<1> DEFINE step == [p \in Nat \X (1 .. Len(s)) |-> p[1] + s[p[2]]]
<1>1. Len(s) \in Nat /\ \A n \in 1 .. Len(s) : s[n] \in Nat
  OBVIOUS
<1>2. step \in [Nat \X (1 .. Len(s)) -> Nat]
  BY <1>1
<1>3. PICK g \in [0 .. Len(s) -> Nat] :
            g[0] = 0 /\ \A n \in 1 .. Len(s) : g[n] = step[<<g[n - 1], n>>]
  <2> DEFINE T == Nat
             x == 0
             N == Len(s)
  <2>1. x \in T /\ N \in Nat /\ step \in [T \X (1 .. N) -> T]
    BY <1>1, <1>2
  <2> HIDE DEF step, T, x, N
  <2>2. Steps(T, x, N, step)
    BY <2>1, StepsExist
  <2> QED
    BY <2>2 DEF Steps, T, x, N
<1>4. g = [n \in 0 .. Len(s) |-> ReadingStep(s, g, n)]
  <2>1. ASSUME NEW n \in 0 .. Len(s)
        PROVE  g[n] = ReadingStep(s, g, n)
    <3>1. n # 0 => n \in 1 .. Len(s) /\ n - 1 \in 0 .. Len(s)
      BY <1>1
    <3>2. n # 0 => <<g[n - 1], n>> \in Nat \X (1 .. Len(s))
      BY <3>1
    <3>3. n # 0 => step[<<g[n - 1], n>>] = g[n - 1] + s[n]
      BY <3>2
    <3> HIDE DEF step
    <3> QED
      BY <1>3, <3>1, <3>3 DEF ReadingStep
  <2>2. g = [n \in 0 .. Len(s) |-> g[n]]
    OBVIOUS
  <2> QED
    BY <2>1, <2>2
<1>5. SumTo(s) = [n \in 0 .. Len(s) |-> ReadingStep(s, SumTo(s), n)]
  BY <1>4 DEF SumTo
<1>6. \A n \in 0 .. Len(s) : SumTo(s)[n] = g[n]
  <2>1. SumTo(s)[0] = g[0]
    BY <1>1, <1>4, <1>5 DEF ReadingStep
  <2>2. ASSUME NEW n \in 1 .. Len(s), SumTo(s)[n - 1] = g[n - 1]
        PROVE  SumTo(s)[n] = g[n]
    BY <1>1, <1>4, <1>5, <2>2 DEF ReadingStep
  <2> QED
    BY <1>1, <2>1, <2>2, StepsUnique
<1>7. SumTo(s) = g
  BY <1>3, <1>5, <1>6
<1>8. BP!SumOf(s) = SumTo(s)[Len(s)]
  BY DEF BP!SumOf, SumTo, ReadingStep
<1> QED
  BY <1>5, <1>7, <1>8

\* One reading more.
LEMMA SumAppend ==
    ASSUME NEW s \in Seq(Nat), NEW t \in Seq(Nat), Len(t) = Len(s) + 1,
           \A n \in 1 .. Len(s) : t[n] = s[n]
    PROVE  BP!SumOf(s) \in Nat /\ BP!SumOf(t) = BP!SumOf(s) + t[Len(t)]
<1> DEFINE f == SumTo(s)
           g == SumTo(t)
<1>1. Len(s) \in Nat /\ Len(t) \in Nat
  OBVIOUS
<1>2. /\ f \in [0 .. Len(s) -> Nat] /\ BP!SumOf(s) = f[Len(s)]
      /\ \A n \in 0 .. Len(s) : f[n] = IF n = 0 THEN 0 ELSE f[n - 1] + s[n]
  BY SumToType DEF ReadingStep
<1>3. /\ BP!SumOf(t) = g[Len(t)]
      /\ \A n \in 0 .. Len(t) : g[n] = IF n = 0 THEN 0 ELSE g[n - 1] + t[n]
  BY SumToType DEF ReadingStep
<1> HIDE DEF f, g
<1>4. f[0] = g[0]
  BY <1>1, <1>2, <1>3
<1>5. ASSUME NEW n \in 1 .. Len(s), f[n - 1] = g[n - 1]
      PROVE  f[n] = g[n]
  <2>1. n \in 0 .. Len(s) /\ n \in 0 .. Len(t) /\ n # 0 /\ t[n] = s[n]
    BY <1>1
  <2> QED
    BY <1>2, <1>3, <1>5, <2>1
<1>6. \A n \in 0 .. Len(s) : f[n] = g[n]
  <2>1. \A n \in 1 .. Len(s) : f[n - 1] = g[n - 1] => f[n] = g[n]
    BY <1>5
  <2> DEFINE H == {n \in 0 .. Len(s) : f[n] = g[n]}
  <2>2. 0 \in H /\ H \in SUBSET Nat
    BY <1>1, <1>4
  <2>3. \A n \in 1 .. Len(s) : n - 1 \in H => n \in H
    BY <1>1, <2>1
  <2>4. \A n \in 0 .. Len(s) : n \in H
    <3> HIDE DEF H
    <3> QED
      BY <1>1, <2>2, <2>3, UpFromZero
  <2> QED
    BY <2>4
<1>7. f[Len(s)] = g[Len(s)] /\ f[Len(s)] \in Nat
  BY <1>1, <1>2, <1>6
<1>8. g[Len(t)] = g[Len(s)] + t[Len(t)]
  BY <1>1, <1>3
<1> QED
  BY <1>2, <1>3, <1>7, <1>8

\* No readings add up to 0.
LEMMA SumEmpty ==
    ASSUME NEW s \in Seq(Nat), Len(s) = 0
    PROVE  BP!SumOf(s) = 0
<1>1. 0 \in 0 .. Len(s)
  OBVIOUS
<1>2. SumTo(s)[0] = ReadingStep(s, SumTo(s), 0)
  BY <1>1, SumToType
<1> QED
  BY <1>2, SumToType DEF ReadingStep
-----------------------------------------------------------------------------
(* Arithmetic of averages *)

\* Division without a rest.
LEMMA DivisionIsExact ==
    ASSUME NEW d \in Nat \ {0}, NEW k \in Int
    PROVE  (k * d) \div d = k
OBVIOUS

\* A remainder of 0 makes a multiple.
LEMMA Multiple ==
    ASSUME NEW p \in Nat, NEW d \in Nat \ {0}, p % d = 0
    PROVE  \E q \in Nat : p = q * d
<1>1. p \div d \in Nat /\ p = (p \div d) * d
  OBVIOUS
<1> QED
  BY <1>1

\* Equal products with one factor in common.
LEMMA Cancel ==
    ASSUME NEW n \in Nat \ {0}, NEW k \in Int, NEW m \in Int, k * n = m * n
    PROVE  k = m
OBVIOUS

\* In p-ths, m is the average of n readings that add up to sum.
IsAverage(m, n, p, sum) == m \in Nat /\ m * n = p * sum /\ (n = 0 => sum = 0)
Moved(m, n, p, x) == m + ((p * x - m) \div (n + 1))

\* print_sample() moves the average of n readings to that of one more, x: as long as
\* both can be expressed in p-ths no digit is lost.
LEMMA AverageMoves ==
    ASSUME NEW n \in Nat, NEW sum \in Nat, NEW x \in Nat, NEW m, NEW p \in Nat,
           IsAverage(m, n, p, sum),
           n # 0 => p % (n * (n + 1)) = 0
    PROVE  IsAverage(Moved(m, n, p, x), n + 1, p, sum + x)
<1> DEFINE moved == m + ((p * x - m) \div (n + 1))
<1> SUFFICES moved \in Nat /\ moved * (n + 1) = p * (sum + x)
  BY DEF IsAverage, Moved
<1> USE DEF IsAverage
<1>1. CASE n = 0
  <2>1. (p * x - m) \div (n + 1) = p * x - m
    <3>1. p * x - m \in Int
      OBVIOUS
    <3>2. (p * x - m) \div 1 = p * x - m
      BY <3>1
    <3> QED
      BY <1>1, <3>2
  <2>2. p * x \in Nat /\ m + (p * x - m) = p * x /\ (p * x) * (n + 1) = p * (sum + x)
    BY <1>1
  <2> QED
    BY <2>1, <2>2
<1>2. CASE n # 0
  <2>1. n * (n + 1) \in Nat \ {0}
    BY <1>2
  <2>2. PICK q \in Nat : p = q * (n * (n + 1))
    BY <1>2, <2>1, Multiple
  <2>3. m = (q * (n + 1)) * sum
    <3>1. p * sum = ((q * (n + 1)) * sum) * n
      BY <2>2
    <3>2. (q * (n + 1)) * sum \in Nat
      OBVIOUS
    <3> QED
      BY <1>2, <3>1, <3>2, Cancel
  <2> DEFINE k == (q * n) * x - q * sum
  <2>4. k \in Int /\ n + 1 \in Nat \ {0}
    OBVIOUS
  <2>5. p * x - m = k * (n + 1)
    BY <2>2, <2>3
  <2>6. m + k = (q * n) * (sum + x) /\ ((q * n) * (sum + x)) * (n + 1) = p * (sum + x)
    BY <2>2, <2>3
  <2>7. (q * n) * (sum + x) \in Nat
    OBVIOUS
  <2> HIDE DEF k
  <2>8. (p * x - m) \div (n + 1) = k
    BY <2>4, <2>5, DivisionIsExact
  <2> QED
    BY <2>6, <2>7, <2>8
<1> QED
  BY <1>1, <1>2

\* How many readings there can be after one more sample.
LEMMA RowsFit ==
    ASSUME NEW s \in Nat, NEW max \in Nat, NEW rows \in Nat, NEW n \in Nat, NEW l \in Nat,
           s < max, n <= s * rows, l <= rows
    PROVE  n + l <= (s + 1) * rows /\ n + l <= max * rows
<1>1. (s + 1) * rows = s * rows + rows
  OBVIOUS
<1>2. (s + 1) * rows <= max * rows
  OBVIOUS
<1> QED
  BY <1>1, <1>2

-----------------------------------------------------------------------------
(* Board_power *)

\* The count and the averages of a device while its buffer is gone through.
BoardDevice == [n : Nat, mean : [1 .. Channels -> Int]]

\* The average after one reading more.
Averaged(dev, row, c) ==
    dev.mean[c] + (Parts * BP!Abs(row[c]) - dev.mean[c]) \div (dev.n + 1)

\* The channels of a row, as ForeachChannel() goes through them.
RowStep(dev, row, g, c) == IF c = 0 THEN dev ELSE BP!PrintSample(g[c - 1], c, row[c])
RowOf(dev, row) == CHOOSE g : g = [c \in 0 .. Channels |-> RowStep(dev, row, g, c)]

\* A device when the callback has seen channels 1 to c of a row.
RowAt(dev, row, c) ==
    [n |-> IF c = 0 THEN dev.n ELSE dev.n + 1,
     mean |-> [k \in 1 .. Channels |-> IF k <= c THEN Averaged(dev, row, k) ELSE dev.mean[k]]]

\* print_sample() turns a reading's sign.
LEMMA AbsNatural ==
    ASSUME NEW x \in Int
    PROVE  BP!Abs(x) \in Nat
BY DEF BP!Abs

\* The callback print_sample() leads from one channel of a row to the next.
LEMMA RowAtMoves ==
    ASSUME BP!BoardAssumption, NEW dev \in BoardDevice, NEW row \in [1 .. Channels -> Int],
           NEW c \in 1 .. Channels
    PROVE  BP!PrintSample(RowAt(dev, row, c - 1), c, row[c]) = RowAt(dev, row, c)
<1> DEFINE old == RowAt(dev, row, c - 1)
           n == IF c = 1 THEN old.n + 1 ELSE old.n
<1>1. Channels \in Nat /\ c \in Int /\ dev.n \in Nat /\ dev.mean \in [1 .. Channels -> Int]
  BY DEF BP!BoardAssumption, BoardDevice
<1>2. n = dev.n + 1
  BY <1>1 DEF RowAt
<1>3. old.mean = [k \in 1 .. Channels |->
                     IF k <= c - 1 THEN Averaged(dev, row, k) ELSE dev.mean[k]]
  BY DEF RowAt
<1>4. old.mean[c] = dev.mean[c]
  BY <1>1, <1>3
<1>5. [old.mean EXCEPT ![c] = @ + (Parts * BP!Abs(row[c]) - @) \div n] =
      [k \in 1 .. Channels |-> IF k <= c THEN Averaged(dev, row, k) ELSE dev.mean[k]]
  <2>1. ASSUME NEW k \in 1 .. Channels
        PROVE  (IF k = c THEN old.mean[c] + (Parts * BP!Abs(row[c]) - old.mean[c]) \div n
                         ELSE old.mean[k]) =
               (IF k <= c THEN Averaged(dev, row, k) ELSE dev.mean[k])
    <3>1. CASE k = c
      BY <1>2, <1>4, <3>1 DEF Averaged
    <3>2. CASE k # c
      <4>1. k <= c - 1 <=> k <= c
        BY <1>1, <3>2
      <4> QED
        BY <1>3, <3>2, <4>1
    <3> QED
      BY <3>1, <3>2
  <2>2. DOMAIN old.mean = 1 .. Channels
    BY <1>3
  <2> HIDE DEF old, n
  <2> QED
    BY <2>1, <2>2
<1>6. BP!PrintSample(old, c, row[c]) =
      [n |-> n, mean |-> [old.mean EXCEPT ![c] = @ + (Parts * BP!Abs(row[c]) - @) \div n]]
  BY DEF BP!PrintSample
<1>7. RowAt(dev, row, c) =
      [n |-> dev.n + 1,
       mean |-> [k \in 1 .. Channels |-> IF k <= c THEN Averaged(dev, row, k) ELSE dev.mean[k]]]
  <2>1. c # 0
    BY <1>1
  <2> QED
    BY <2>1 DEF RowAt
<1> HIDE DEF old, n
<1>8. BP!PrintSample(old, c, row[c]) = RowAt(dev, row, c)
  BY <1>2, <1>5, <1>6, <1>7
<1> QED
  BY <1>8 DEF old

\* A row moves the count by one and every average by its reading.
LEMMA RowMoves ==
    ASSUME BP!BoardAssumption, NEW dev \in BoardDevice, NEW row \in [1 .. Channels -> Int]
    PROVE  /\ BP!ForeachChannel(dev, row) \in BoardDevice
           /\ BP!ForeachChannel(dev, row).n = dev.n + 1
           /\ \A c \in 1 .. Channels :
                 BP!ForeachChannel(dev, row).mean[c] = Averaged(dev, row, c)
<1> DEFINE h == [c \in 0 .. Channels |-> RowAt(dev, row, c)]
           g == RowOf(dev, row)
           H == {c \in 0 .. Channels : g[c] = RowAt(dev, row, c)}
<1>1. /\ Channels \in Nat \ {0} /\ Parts \in Nat
      /\ dev.n \in Nat /\ dev.mean \in [1 .. Channels -> Int]
      /\ dev = [n |-> dev.n, mean |-> dev.mean]
  BY DEF BP!BoardAssumption, BoardDevice
<1>2. RowAt(dev, row, 0) = dev
  <2>1. [k \in 1 .. Channels |-> IF k <= 0 THEN Averaged(dev, row, k) ELSE dev.mean[k]] =
        dev.mean
    BY <1>1
  <2> QED
    BY <1>1, <2>1 DEF RowAt
<1>3. \A c \in 1 .. Channels :
         BP!PrintSample(RowAt(dev, row, c - 1), c, row[c]) = RowAt(dev, row, c)
  BY RowAtMoves
<1>4. h = [c \in 0 .. Channels |-> RowStep(dev, row, h, c)]
  <2>1. ASSUME NEW c \in 0 .. Channels
        PROVE  h[c] = RowStep(dev, row, h, c)
    <3>1. h[c] = RowAt(dev, row, c)
      OBVIOUS
    <3>2. c # 0 => c \in 1 .. Channels /\ c - 1 \in 0 .. Channels
      BY <1>1
    <3>3. c # 0 => h[c - 1] = RowAt(dev, row, c - 1)
      BY <3>2
    <3> HIDE DEF h
    <3> QED
      BY <1>2, <1>3, <3>1, <3>2, <3>3 DEF RowStep
  <2>2. h = [c \in 0 .. Channels |-> h[c]]
    OBVIOUS
  <2> HIDE DEF h
  <2> QED
    BY <2>1, <2>2
<1>5. g = [c \in 0 .. Channels |-> RowStep(dev, row, g, c)]
  <2> HIDE DEF h
  <2> QED
    BY <1>4 DEF RowOf
<1> HIDE DEF h, g
<1>6. 0 \in H /\ H \in SUBSET Nat
  <2>1. g[0] = dev
    BY <1>1, <1>5 DEF RowStep
  <2> QED
    BY <1>1, <1>2, <2>1
<1>7. ASSUME NEW c \in 1 .. Channels, c - 1 \in H PROVE c \in H
  <2>1. c \in 0 .. Channels /\ c # 0 /\ g[c - 1] = RowAt(dev, row, c - 1)
    BY <1>1, <1>7
  <2>2. g[c] = BP!PrintSample(RowAt(dev, row, c - 1), c, row[c])
    BY <1>5, <2>1 DEF RowStep
  <2> QED
    BY <1>3, <2>1, <2>2
<1> HIDE DEF H
<1>8. Channels \in H
  BY <1>1, <1>6, <1>7, UpFromZero
<1>9. BP!ForeachChannel(dev, row) = RowAt(dev, row, Channels)
  <2>1. BP!ForeachChannel(dev, row) = g[Channels]
    BY DEF BP!ForeachChannel, g, RowOf, RowStep
  <2> QED
    BY <1>8, <2>1 DEF H
<1>10. ASSUME NEW c \in 1 .. Channels PROVE Averaged(dev, row, c) \in Int
  <2>1. BP!Abs(row[c]) \in Nat
    BY DEF BP!Abs
  <2>2. Parts * BP!Abs(row[c]) - dev.mean[c] \in Int /\ dev.mean[c] \in Int
    BY <1>1, <2>1
  <2>3. dev.n + 1 \in Nat \ {0}
    BY <1>1
  <2> QED
    BY <2>2, <2>3 DEF Averaged
<1>11. RowAt(dev, row, Channels) =
          [n |-> dev.n + 1, mean |-> [c \in 1 .. Channels |-> Averaged(dev, row, c)]]
  BY <1>1 DEF RowAt
<1>12. [c \in 1 .. Channels |-> Averaged(dev, row, c)] \in [1 .. Channels -> Int]
  BY <1>10
<1> QED
  BY <1>1, <1>9, <1>11, <1>12 DEF BoardDevice

\* The rows of a buffer, as ForeachSample() goes through them.
BufferStep(dev, buffer, g, r) ==
    IF r = 0 THEN dev ELSE BP!ForeachChannel(g[r - 1], buffer[r])
BufferOf(dev, buffer) ==
    CHOOSE g : g = [r \in 0 .. Len(buffer) |-> BufferStep(dev, buffer, g, r)]

\* A buffer is gone through row by row, each leading from one device to the next.
LEMMA BufferRows ==
    ASSUME BP!BoardAssumption, NEW dev \in BoardDevice,
           NEW buffer \in Seq([1 .. Channels -> Int])
    PROVE  /\ BufferOf(dev, buffer) \in [0 .. Len(buffer) -> BoardDevice]
           /\ BufferOf(dev, buffer)[0] = dev
           /\ \A r \in 1 .. Len(buffer) :
                 BufferOf(dev, buffer)[r] =
                    BP!ForeachChannel(BufferOf(dev, buffer)[r - 1], buffer[r])
<1> DEFINE N == Len(buffer)
           step == [p \in BoardDevice \X (1 .. N) |-> BP!ForeachChannel(p[1], buffer[p[2]])]
           b == BufferOf(dev, buffer)
<1>1. N \in Nat /\ \A r \in 1 .. N : buffer[r] \in [1 .. Channels -> Int]
  OBVIOUS
<1>2. step \in [BoardDevice \X (1 .. N) -> BoardDevice]
  BY <1>1, RowMoves
<1>3. PICK g \in [0 .. N -> BoardDevice] :
         g[0] = dev /\ \A r \in 1 .. N : g[r] = step[<<g[r - 1], r>>]
  <2> HIDE DEF step, N
  <2>1. Steps(BoardDevice, dev, N, step)
    BY <1>1, <1>2, StepsExist
  <2> QED
    BY <2>1 DEF Steps
<1>4. ASSUME NEW r \in 1 .. N
      PROVE  g[r] = BP!ForeachChannel(g[r - 1], buffer[r])
  <2>1. r - 1 \in 0 .. N
    BY <1>1
  <2>2. <<g[r - 1], r>> \in BoardDevice \X (1 .. N)
    BY <2>1
  <2> QED
    BY <1>3, <2>2
<1> HIDE DEF step
<1>5. g = [r \in 0 .. N |-> BufferStep(dev, buffer, g, r)]
  <2>1. ASSUME NEW r \in 0 .. N
        PROVE  g[r] = BufferStep(dev, buffer, g, r)
    <3>1. r # 0 => r \in 1 .. N
      BY <1>1
    <3> QED
      BY <1>3, <1>4, <3>1 DEF BufferStep
  <2>2. g = [r \in 0 .. N |-> g[r]]
    OBVIOUS
  <2> QED
    BY <2>1, <2>2
<1>6. b = [r \in 0 .. N |-> BufferStep(dev, buffer, b, r)]
  BY <1>5 DEF BufferOf
<1> HIDE DEF b
<1> DEFINE H == {r \in 0 .. N : b[r] = g[r]}
<1>7. 0 \in H /\ H \in SUBSET Nat
  <2>1. b[0] = dev
    BY <1>1, <1>6 DEF BufferStep
  <2> QED
    BY <1>1, <1>3, <2>1
<1>8. ASSUME NEW r \in 1 .. N, r - 1 \in H PROVE r \in H
  <2>1. r \in 0 .. N /\ r # 0 /\ b[r - 1] = g[r - 1]
    BY <1>1, <1>8
  <2>2. b[r] = BP!ForeachChannel(b[r - 1], buffer[r])
    BY <1>6, <2>1 DEF BufferStep
  <2> QED
    BY <1>4, <2>1, <2>2
<1>9. \A r \in 0 .. N : b[r] = g[r]
  <2>1. \A r \in 0 .. N : r \in H
    <3> HIDE DEF H, N
    <3> QED
      BY <1>1, <1>7, <1>8, UpFromZero
  <2> QED
    BY <2>1
<1>10. b = g
  BY <1>6, <1>9
<1> QED
  BY <1>3, <1>4, <1>10 DEF b

\* The readings of a channel after r rows of a buffer.
ReadUpTo(c, buffer, r) == counted[c] \o [k \in 1 .. r |-> BP!Abs(buffer[k][c[2]])]

\* One row adds one reading to those of a channel, and its amount to their sum.
LEMMA ReadUpToGrows ==
    ASSUME NEW c, counted[c] \in Seq(Nat), NEW k, c[2] = k, k \in 1 .. Channels,
           NEW buffer \in Seq([1 .. Channels -> Int]),
           NEW r \in 1 .. Len(buffer)
    PROVE  /\ ReadUpTo(c, buffer, r - 1) \in Seq(Nat)
           /\ Len(ReadUpTo(c, buffer, r - 1)) = Len(counted[c]) + r - 1
           /\ BP!SumOf(ReadUpTo(c, buffer, r - 1)) \in Nat
           /\ BP!SumOf(ReadUpTo(c, buffer, r)) =
                 BP!SumOf(ReadUpTo(c, buffer, r - 1)) + BP!Abs(buffer[r][k])
<1> DEFINE s == ReadUpTo(c, buffer, r - 1)
           t == ReadUpTo(c, buffer, r)
           rows(m) == [i \in 1 .. m |-> BP!Abs(buffer[i][k])]
<1>1. Len(buffer) \in Nat /\ \A i \in 1 .. Len(buffer) : buffer[i] \in [1 .. Channels -> Int]
  OBVIOUS
<1>2. \A i \in 1 .. Len(buffer) : BP!Abs(buffer[i][k]) \in Nat
  BY <1>1, AbsNatural
<1>3. ASSUME NEW m \in Nat, m <= Len(buffer)
      PROVE  rows(m) \in Seq(Nat) /\ Len(rows(m)) = m
  <2>1. ASSUME NEW i \in 1 .. m PROVE BP!Abs(buffer[i][k]) \in Nat
    <3>1. i \in 1 .. Len(buffer)
      BY <1>1, <1>3
    <3> QED
      BY <1>2, <3>1
  <2>2. rows(m) \in [1 .. m -> Nat]
    BY <2>1
  <2> HIDE DEF rows
  <2> QED
    BY <1>3, <2>2
<1>4. /\ rows(r) \in Seq(Nat) /\ Len(rows(r)) = r
      /\ rows(r - 1) \in Seq(Nat) /\ Len(rows(r - 1)) = r - 1
  <2>1. r \in Nat /\ r - 1 \in Nat /\ r <= Len(buffer) /\ r - 1 <= Len(buffer)
    BY <1>1
  <2> HIDE DEF rows
  <2> QED
    BY <1>3, <2>1
<1>5. /\ rows(r)[r] = BP!Abs(buffer[r][k]) /\ r \in Nat \ {0}
      /\ \A i \in 1 .. r - 1 : rows(r)[i] = rows(r - 1)[i]
  BY <1>1
<1>6. s = counted[c] \o rows(r - 1) /\ t = counted[c] \o rows(r)
  BY DEF ReadUpTo
<1> HIDE DEF s, t, rows
<1>7. s \in Seq(Nat) /\ t \in Seq(Nat)
  BY <1>4, <1>6, ConcatProperties
<1>8. /\ Len(counted[c]) \in Nat
      /\ Len(s) = Len(counted[c]) + (r - 1) /\ Len(t) = Len(counted[c]) + r
      /\ \A i \in 1 .. Len(s) :
            s[i] = IF i <= Len(counted[c]) THEN counted[c][i]
                                           ELSE rows(r - 1)[i - Len(counted[c])]
      /\ \A i \in 1 .. Len(t) :
            t[i] = IF i <= Len(counted[c]) THEN counted[c][i]
                                           ELSE rows(r)[i - Len(counted[c])]
  <2> DEFINE start == counted[c]
             old == rows(r - 1)
             new == rows(r)
             q == r - 1
  <2>1. /\ old \in Seq(Nat) /\ new \in Seq(Nat) /\ start \in Seq(Nat)
        /\ Len(old) = q /\ Len(new) = r /\ q \in Nat
        /\ s = start \o old /\ t = start \o new
    BY <1>4, <1>6
  <2> HIDE DEF start, old, new, q
  <2>2. /\ Len(start) \in Nat
        /\ Len(start \o old) = Len(start) + q
        /\ \A i \in 1 .. Len(start) + q :
              (start \o old)[i] = IF i <= Len(start) THEN start[i] ELSE old[i - Len(start)]
    <3>1. Len(start) \in Nat
      BY <2>1
    <3>2. /\ Len(start \o old) = Len(start) + Len(old)
          /\ \A i \in 1 .. Len(start) + Len(old) :
                (start \o old)[i] =
                   IF i <= Len(start) THEN start[i] ELSE old[i - Len(start)]
      BY <2>1, ConcatProperties
    <3> QED
      BY <2>1, <3>1, <3>2
  <2>3. /\ Len(start \o new) = Len(start) + r
        /\ \A i \in 1 .. Len(start) + r :
              (start \o new)[i] = IF i <= Len(start) THEN start[i] ELSE new[i - Len(start)]
    BY <2>1, ConcatProperties
  <2>4. /\ Len(s) = Len(start) + q /\ Len(t) = Len(start) + r
        /\ \A i \in 1 .. Len(s) :
              s[i] = IF i <= Len(start) THEN start[i] ELSE old[i - Len(start)]
        /\ \A i \in 1 .. Len(t) :
              t[i] = IF i <= Len(start) THEN start[i] ELSE new[i - Len(start)]
    BY <2>1, <2>2, <2>3
  <2> QED
    BY <2>2, <2>4 DEF start, old, new, q
<1>9. t[Len(t)] = BP!Abs(buffer[r][k])
  <2>1. /\ Len(t) \in 1 .. Len(t) /\ ~(Len(t) <= Len(counted[c]))
        /\ Len(t) - Len(counted[c]) = r
    BY <1>5, <1>8
  <2> QED
    BY <1>5, <1>8, <2>1
<1>10. ASSUME NEW i \in 1 .. Len(s) PROVE t[i] = s[i]
  <2>1. i \in 1 .. Len(t) /\ (~(i <= Len(counted[c])) => i - Len(counted[c]) \in 1 .. r - 1)
    BY <1>5, <1>8
  <2> QED
    BY <1>5, <1>8, <2>1
<1>11. Len(t) = Len(s) + 1
  BY <1>5, <1>8
<1>12. BP!SumOf(s) \in Nat /\ BP!SumOf(t) = BP!SumOf(s) + t[Len(t)]
  BY <1>7, <1>10, <1>11, SumAppend
<1> QED
  BY <1>5, <1>7, <1>8, <1>9, <1>12 DEF s, t

\* The figures of a device are the averages of what has been read since the last report.
DeviceAverages(d, dev) ==
    \A k \in 1 .. Channels :
        /\ counted[<<d, k>>] \in Seq(Nat) /\ Len(counted[<<d, k>>]) = dev.n
        /\ dev.mean[k] \in Nat
        /\ dev.mean[k] * dev.n = Parts * BP!SumOf(counted[<<d, k>>])

BufferRead(d, dev, buffer, last) ==
    /\ last.n = dev.n + Len(buffer)
    /\ \A k \in 1 .. Channels :
          /\ last.mean[k] \in Nat
          /\ last.mean[k] * (dev.n + Len(buffer)) =
                Parts * BP!SumOf(ReadUpTo(<<d, k>>, buffer, Len(buffer)))

\* A buffer takes a device from the averages of what has been read since the last
\* report to those of this and the buffer.
LEMMA BufferAverages ==
    ASSUME BP!BoardAssumption, NEW d, NEW dev \in BoardDevice,
           NEW buffer \in Seq([1 .. Channels -> Int]),
           dev.n + Len(buffer) <= MaxSamples * MaxRows, DeviceAverages(d, dev),
           NEW last, last = BufferOf(dev, buffer)[Len(buffer)]
    PROVE  BufferRead(d, dev, buffer, last)
<1> USE DEF DeviceAverages, BufferRead
<1> DEFINE N == Len(buffer)
           b == BufferOf(dev, buffer)
           Read(k, r) == ReadUpTo(<<d, k>>, buffer, r)
           Average(k, r) ==
               b[r].mean[k] \in Nat
               /\ b[r].mean[k] * (dev.n + r) = Parts * BP!SumOf(Read(k, r))
           H == {r \in 0 .. N : b[r].n = dev.n + r /\ \A k \in 1 .. Channels : Average(k, r)}
<1>1. /\ N \in Nat /\ \A r \in 1 .. N : buffer[r] \in [1 .. Channels -> Int]
      /\ dev.n \in Nat /\ Parts \in Nat /\ MaxSamples \in Nat /\ MaxRows \in Nat
  BY DEF BoardDevice, BP!BoardAssumption
<1>2. /\ b \in [0 .. N -> BoardDevice] /\ b[0] = dev
      /\ \A r \in 1 .. N : b[r] = BP!ForeachChannel(b[r - 1], buffer[r])
  BY BufferRows
<1> HIDE DEF b
<1>3. 0 \in H
  <2>1. ASSUME NEW k \in 1 .. Channels PROVE Read(k, 0) = counted[<<d, k>>]
    <3>1. [i \in 1 .. 0 |-> BP!Abs(buffer[i][k])] = << >>
      OBVIOUS
    <3>2. counted[<<d, k>>] \o << >> = counted[<<d, k>>]
      OBVIOUS
    <3> QED
      BY <3>1, <3>2 DEF ReadUpTo
  <2> HIDE DEF Read
  <2>2. ASSUME NEW k \in 1 .. Channels PROVE Average(k, 0)
    <3>1. b[0].mean[k] = dev.mean[k] /\ dev.n + 0 = dev.n
      BY <1>1, <1>2
    <3>2. /\ dev.mean[k] \in Nat
          /\ dev.mean[k] * dev.n = Parts * BP!SumOf(counted[<<d, k>>])
      OBVIOUS
    <3>3. Parts * BP!SumOf(Read(k, 0)) = Parts * BP!SumOf(counted[<<d, k>>])
      BY <2>1
    <3> QED
      BY <3>1, <3>2, <3>3
  <2> HIDE DEF Average
  <2> QED
    BY <1>1, <1>2, <2>2
<1>4. ASSUME NEW r \in 1 .. N, r - 1 \in H PROVE r \in H
  <2>1. r - 1 \in 0 .. N /\ r \in 0 .. N /\ r \in Nat
    BY <1>1
  <2> DEFINE n == dev.n + (r - 1)
             old == b[r - 1]
  <2>2. /\ old \in BoardDevice /\ old.n = n
        /\ \A k \in 1 .. Channels : Average(k, r - 1)
    BY <1>2, <1>4, <2>1
  <2>3. n \in Nat /\ n + 1 = dev.n + r /\ n + 1 <= MaxSamples * MaxRows
    BY <1>1, <2>1
  <2>4. n # 0 => Parts % (n * (n + 1)) = 0
    <3>1. n # 0 => n \in 1 .. MaxSamples * MaxRows - 1
      BY <1>1, <2>3
    <3> HIDE DEF n
    <3> QED
      BY <3>1 DEF BP!BoardAssumption
  <2>5. b[r] = BP!ForeachChannel(old, buffer[r])
    BY <1>2
  <2> HIDE DEF n, old
  <2>6. b[r].n = n + 1 /\ \A k \in 1 .. Channels : b[r].mean[k] = Averaged(old, buffer[r], k)
    BY <1>1, <2>2, <2>5, RowMoves
  <2>7. ASSUME NEW k \in 1 .. Channels PROVE Average(k, r)
    <3> DEFINE sum == BP!SumOf(Read(k, r - 1))
               x == BP!Abs(buffer[r][k])
               m == old.mean[k]
    <3>1. /\ Read(k, r - 1) \in Seq(Nat) /\ Len(Read(k, r - 1)) = n
          /\ sum \in Nat /\ BP!SumOf(Read(k, r)) = sum + x
      <4>1. <<d, k>>[2] = k /\ Len(counted[<<d, k>>]) = dev.n
        OBVIOUS
      <4> DEFINE c == <<d, k>>
      <4>2. c[2] = k /\ counted[c] \in Seq(Nat) /\ Len(counted[c]) = dev.n
        BY <4>1
      <4> HIDE DEF c
      <4>3. /\ ReadUpTo(c, buffer, r - 1) \in Seq(Nat)
            /\ Len(ReadUpTo(c, buffer, r - 1)) = Len(counted[c]) + r - 1
            /\ BP!SumOf(ReadUpTo(c, buffer, r - 1)) \in Nat
            /\ BP!SumOf(ReadUpTo(c, buffer, r)) =
                  BP!SumOf(ReadUpTo(c, buffer, r - 1)) + BP!Abs(buffer[r][k])
        BY <4>2, ReadUpToGrows
      <4>4. Len(counted[c]) + r - 1 = n
        BY <1>1, <4>2 DEF n
      <4> QED
        BY <4>3, <4>4 DEF c
    <3>2. n = 0 => sum = 0
      BY <3>1, SumEmpty
    <3>3. x \in Nat
      <4>1. buffer[r][k] \in Int
        BY <1>1
      <4> QED
        BY <4>1, AbsNatural
    <3>4. m \in Nat /\ m * n = Parts * sum
      BY <2>2 DEF old, n
    <3> DEFINE p == Parts
               moved == b[r].mean[k]
    <3>5. moved = Moved(m, n, p, x)
      BY <2>2, <2>6 DEF Averaged, Moved
    <3> HIDE DEF sum, x, m, p, moved
    <3>6. p \in Nat /\ IsAverage(m, n, p, sum)
      BY <1>1, <3>2, <3>4 DEF p, IsAverage
    <3>7. n # 0 => p % (n * (n + 1)) = 0
      BY <2>4 DEF p
    <3>8. IsAverage(moved, n + 1, p, sum + x)
      BY <2>3, <3>1, <3>3, <3>5, <3>6, <3>7, AverageMoves
    <3> QED
      BY <2>3, <3>1, <3>8 DEF sum, x, p, moved, IsAverage
  <2> QED
    BY <2>1, <2>3, <2>6, <2>7
<1>5. H \in SUBSET Nat
  <2> HIDE DEF Average
  <2> QED
    OBVIOUS
<1>6. N \in H
  <2> HIDE DEF H, N
  <2>1. \A n \in 0 .. N : n \in H
    BY <1>1, <1>3, <1>4, <1>5, UpFromZero
  <2> QED
    BY <1>1, <2>1
<1>7. b[N].n = dev.n + N /\ \A k \in 1 .. Channels : Average(k, N)
  <2> HIDE DEF Average
  <2> QED
    BY <1>6
<1> QED
  BY <1>7 DEF b

\* A count is that of the readings since the last report, an average theirs, and
\* nothing has been read before the connector runs.  (In Connectors the averages,
\* counts, readings and reported readings are before, after, counted and seen.)
BoardAverages ==
    \A c \in BP!Channel :
        /\ Len(counted[c]) = after[c[1]]
        /\ before[c] * after[c[1]] = Parts * BP!SumOf(counted[c])

BoardInv ==
    /\ BP!TypeOK
    /\ BoardAverages
    /\ \A d \in 1 .. Devices : after[d] <= samples * MaxRows
    /\ up \in {"loaded", "enabled"} =>
          samples = 0 /\ ~fine /\ \A c \in BP!Channel : counted[c] = << >>
    /\ BP!AveragesSinceReport

\* Without readings there is nothing to average.
LEMMA NoReadings == BP!SumOf(<< >>) = 0 /\ << >> \in Seq(Nat) /\ Len(<< >>) = 0
<1>1. << >> \in Seq(Nat) /\ Len(<< >>) = 0
  OBVIOUS
<1> QED
  BY <1>1, SumEmpty

\* Before the connector is initialised nothing has been read.
LEMMA BoardInitInv ==
    ASSUME BP!BoardAssumption
    PROVE  BP!Init => BoardInv
<1> SUFFICES ASSUME BP!Init PROVE BoardInv
  OBVIOUS
<1>1. /\ Devices \in Nat /\ Channels \in Nat \ {0} /\ MaxSamples \in Nat /\ MaxRows \in Nat
      /\ Parts \in Nat
  BY DEF BP!BoardAssumption
<1>2. BP!TypeOK
  <2>1. /\ << >> \in Seq(BP!Channel) /\ << >> \in Seq(Nat \cup {Unset})
        /\ 0 \in 0 .. MaxSamples
    BY <1>1
  <2> QED
    BY <2>1, NoReadings DEF BP!Init, BP!TypeOK
<1>3. ASSUME NEW c \in BP!Channel
      PROVE  /\ c[1] \in 1 .. Devices /\ counted[c] = << >>
             /\ before[c] = 0 /\ after[c[1]] = 0
  BY DEF BP!Init, BP!Channel
<1>4. BoardAverages
  BY <1>1, <1>3, NoReadings DEF BoardAverages
<1>5. samples = 0 /\ ~fine /\ \A d \in 1 .. Devices : after[d] = 0
  BY DEF BP!Init
<1>6. \A d \in 1 .. Devices : after[d] <= samples * MaxRows
  BY <1>1, <1>5
<1>7. BP!AveragesSinceReport
  BY <1>5 DEF BP!AveragesSinceReport
<1> QED
  BY <1>2, <1>3, <1>4, <1>5, <1>6, <1>7 DEF BoardInv

\* What a refill of device d makes of its count and averages.
LEMMA BoardRefill ==
    ASSUME BP!BoardAssumption, BoardInv, samples < MaxSamples,
           NEW d \in 1 .. Devices, NEW buffer \in Buffers
    PROVE  /\ BP!ForeachSample(d, buffer).n \in Nat
           /\ BP!ForeachSample(d, buffer).n <= (samples + 1) * MaxRows
           /\ \A k \in 1 .. Channels :
                 LET c == <<d, k>>
                     m == BP!ForeachSample(d, buffer).mean[k]
                 IN /\ m \in Nat
                    /\ BP!Readings(c, buffer) \in Seq(Nat)
                    /\ Len(BP!Readings(c, buffer)) = BP!ForeachSample(d, buffer).n
                    /\ m * BP!ForeachSample(d, buffer).n =
                          Parts * BP!SumOf(BP!Readings(c, buffer))
<1> DEFINE dev == [n |-> after[d], mean |-> [k \in 1 .. Channels |-> before[<<d, k>>]]]
           N == Len(buffer)
           now == BufferOf(dev, buffer)[N]
<1>1. /\ Devices \in Nat /\ Channels \in Nat \ {0} /\ MaxSamples \in Nat /\ MaxRows \in Nat
      /\ buffer \in Seq([1 .. Channels -> Int]) /\ N \in Nat /\ N <= MaxRows
  BY DEF BP!BoardAssumption
<1>2. /\ after \in [1 .. Devices -> Nat] /\ samples \in Nat
      /\ after[d] <= samples * MaxRows
      /\ \A k \in 1 .. Channels :
            /\ before[<<d, k>>] \in Nat /\ counted[<<d, k>>] \in Seq(Nat)
            /\ Len(counted[<<d, k>>]) = after[d]
            /\ before[<<d, k>>] * after[d] = Parts * BP!SumOf(counted[<<d, k>>])
  <2>1. \A k \in 1 .. Channels : <<d, k>> \in BP!Channel /\ <<d, k>>[1] = d
    BY DEF BP!Channel
  <2>2. /\ before \in [BP!Channel -> Nat] /\ counted \in [BP!Channel -> Seq(Nat)]
        /\ after \in [1 .. Devices -> Nat] /\ samples \in 0 .. MaxSamples
    BY DEF BoardInv, BP!TypeOK
  <2>3. /\ after[d] <= samples * MaxRows
        /\ \A k \in 1 .. Channels :
              /\ Len(counted[<<d, k>>]) = after[d]
              /\ before[<<d, k>>] * after[d] = Parts * BP!SumOf(counted[<<d, k>>])
    BY <2>1 DEF BoardInv, BoardAverages
  <2> QED
    BY <1>1, <2>1, <2>2, <2>3
<1>3. /\ dev.n = after[d] /\ \A k \in 1 .. Channels : dev.mean[k] = before[<<d, k>>]
      /\ dev \in BoardDevice
  BY <1>2 DEF BoardDevice
<1>4. /\ after[d] + N <= (samples + 1) * MaxRows
      /\ after[d] + N <= MaxSamples * MaxRows
  BY <1>1, <1>2, RowsFit
<1>5. BP!ForeachSample(d, buffer) = now
  BY DEF BP!ForeachSample, BufferOf, BufferStep
<1> HIDE DEF dev
<1>6. /\ now.n = dev.n + N
      /\ \A k \in 1 .. Channels :
            /\ now.mean[k] \in Nat
            /\ now.mean[k] * (dev.n + N) = Parts * BP!SumOf(ReadUpTo(<<d, k>>, buffer, N))
  <2>1. dev.n + Len(buffer) <= MaxSamples * MaxRows
    BY <1>3, <1>4
  <2>2. DeviceAverages(d, dev)
    BY <1>2, <1>3 DEF DeviceAverages
  <2>3. now = BufferOf(dev, buffer)[Len(buffer)]
    OBVIOUS
  <2> HIDE DEF now
  <2>4. BufferRead(d, dev, buffer, now)
    BY <1>1, <1>3, <2>1, <2>2, <2>3, BufferAverages
  <2> QED
    BY <2>4 DEF BufferRead
<1> HIDE DEF now
<1>7. ASSUME NEW k \in 1 .. Channels
      PROVE  /\ BP!Readings(<<d, k>>, buffer) = ReadUpTo(<<d, k>>, buffer, N)
             /\ BP!Readings(<<d, k>>, buffer) \in Seq(Nat)
             /\ Len(BP!Readings(<<d, k>>, buffer)) = after[d] + N
  <2> DEFINE rows == [i \in 1 .. N |-> BP!Abs(buffer[i][k])]
  <2>1. DOMAIN buffer = 1 .. N /\ \A i \in 1 .. N : buffer[i] \in [1 .. Channels -> Int]
    BY <1>1
  <2>2. \A i \in 1 .. N : BP!Abs(buffer[i][k]) \in Nat
    BY <2>1, AbsNatural
  <2>3. rows \in Seq(Nat) /\ Len(rows) = N
    BY <1>1, <2>2
  <2>4. /\ BP!Readings(<<d, k>>, buffer) = counted[<<d, k>>] \o rows
        /\ ReadUpTo(<<d, k>>, buffer, N) = counted[<<d, k>>] \o rows
    BY <2>1 DEF BP!Readings, ReadUpTo
  <2> HIDE DEF rows
  <2>5. /\ counted[<<d, k>>] \o rows \in Seq(Nat)
        /\ Len(counted[<<d, k>>] \o rows) = Len(counted[<<d, k>>]) + Len(rows)
    BY <1>2, <2>3, ConcatProperties
  <2> QED
    BY <1>2, <2>3, <2>4, <2>5
<1>8. now.n = after[d] + N /\ after[d] + N \in Nat
  BY <1>1, <1>2, <1>3, <1>6
<1> QED
  BY <1>3, <1>4, <1>5, <1>6, <1>7, <1>8

\* A sample that can read every device reports averages of all readings since the
\* report before, and starts again without any.
LEMMA BoardSucceeds ==
    ASSUME BP!BoardAssumption, BoardInv,
           NEW buffers \in [1 .. Devices -> Buffers], BP!SampleSucceeds(buffers)
    PROVE  BoardInv'
<1> DEFINE now(d) == BP!ForeachSample(d, buffers[d])
           read(c) == BP!Readings(c, buffers[c[1]])
<1>1. /\ Devices \in Nat /\ Channels \in Nat \ {0} /\ MaxSamples \in Nat /\ MaxRows \in Nat
      /\ Parts \in Nat
  BY DEF BP!BoardAssumption
<1>2. /\ up = "running" /\ up' = "running" /\ events' = events
      /\ samples < MaxSamples /\ samples' = samples + 1 /\ fine' = TRUE
      /\ before' = [c \in BP!Channel |-> 0] /\ after' = [d \in 1 .. Devices |-> 0]
      /\ counted' = [c \in BP!Channel |-> << >>]
  BY DEF BP!SampleSucceeds, BP!ResetChannels
<1>3. /\ values' = [i \in DOMAIN events |-> now(events[i][1]).mean[events[i][2]]]
      /\ seen' = [c \in BP!Channel |-> read(c)]
  <2>1. \A i \in DOMAIN events : events[i][1] \in 1 .. Devices
    BY DEF BoardInv, BP!TypeOK, BP!Channel
  <2> QED
    BY <2>1 DEF BP!SampleSucceeds
<1>4. ASSUME NEW c \in BP!Channel
      PROVE  /\ read(c) \in Seq(Nat) /\ now(c[1]).mean[c[2]] \in Nat
             /\ now(c[1]).mean[c[2]] * Len(read(c)) = Parts * BP!SumOf(read(c))
  <2>1. PICK d \in 1 .. Devices, k \in 1 .. Channels : c = <<d, k>>
    BY DEF BP!Channel
  <2>2. c[1] = d /\ c[2] = k /\ buffers[d] \in Buffers
    BY <2>1
  <2> QED
    BY <1>2, <2>1, <2>2, BoardRefill
<1> HIDE DEF now, read
<1>5. events \in Seq(BP!Channel) /\ \A i \in DOMAIN events : events[i] \in BP!Channel
  BY DEF BoardInv, BP!TypeOK
<1>6. values' \in Seq(Nat \cup {Unset}) /\ Len(values') = Len(events)
  <2>1. DOMAIN events = 1 .. Len(events) /\ Len(events) \in Nat
    BY <1>5
  <2>2. \A i \in DOMAIN events : now(events[i][1]).mean[events[i][2]] \in Nat
    BY <1>4, <1>5
  <2> QED
    BY <1>3, <2>1, <2>2
<1>7. seen' \in [BP!Channel -> Seq(Nat)]
  BY <1>3, <1>4
<1>8. samples \in 0 .. MaxSamples /\ samples' \in 0 .. MaxSamples
  BY <1>1, <1>2 DEF BoardInv, BP!TypeOK
<1>9. BP!TypeOK'
  BY <1>2, <1>5, <1>6, <1>7, <1>8, NoReadings DEF BP!TypeOK
<1>10. BoardAverages'
  <2>1. ASSUME NEW c \in BP!Channel
        PROVE  /\ before'[c] = 0 /\ counted'[c] = << >>
               /\ c[1] \in 1 .. Devices /\ after'[c[1]] = 0
    BY <1>2 DEF BP!Channel
  <2> QED
    BY <1>1, <2>1, NoReadings DEF BoardAverages
<1>11. \A d \in 1 .. Devices : after'[d] <= samples' * MaxRows
  BY <1>1, <1>2, <1>8
<1>12. BP!AveragesSinceReport'
  <2>1. ASSUME NEW i \in DOMAIN events
        PROVE  values'[i] * Len(seen'[events[i]]) = Parts * BP!SumOf(seen'[events[i]])
    BY <1>3, <1>4, <1>5
  <2> QED
    BY <1>2, <2>1 DEF BP!AveragesSinceReport
<1> QED
  BY <1>2, <1>9, <1>10, <1>11, <1>12 DEF BoardInv

\* A sample that fails at a device leaves the devices before it with counts and
\* averages of the same readings.
LEMMA BoardFails ==
    ASSUME BP!BoardAssumption, BoardInv, NEW read \in 0 .. Devices - 1,
           NEW buffers \in [1 .. Devices -> Buffers], BP!SampleFails(read, buffers)
    PROVE  BoardInv'
<1> DEFINE now(d) == BP!ForeachSample(d, buffers[d])
           all(c) == BP!Readings(c, buffers[c[1]])
<1>1. /\ Devices \in Nat /\ Channels \in Nat \ {0} /\ MaxSamples \in Nat /\ MaxRows \in Nat
      /\ Parts \in Nat
  BY DEF BP!BoardAssumption
<1>2. /\ up = "running" /\ up' = "running"
      /\ events' = events /\ values' = values /\ seen' = seen
      /\ samples < MaxSamples /\ samples' = samples + 1 /\ fine' = FALSE
  BY DEF BP!SampleFails
<1>3. /\ after' = [d \in 1 .. Devices |-> IF d <= read THEN now(d).n ELSE after[d]]
      /\ before' = [c \in BP!Channel |->
                       IF c[1] <= read THEN now(c[1]).mean[c[2]] ELSE before[c]]
      /\ counted' = [c \in BP!Channel |-> IF c[1] <= read THEN all(c) ELSE counted[c]]
  BY DEF BP!SampleFails
<1>4. ASSUME NEW c \in BP!Channel
      PROVE  /\ all(c) \in Seq(Nat) /\ now(c[1]).mean[c[2]] \in Nat
             /\ Len(all(c)) = now(c[1]).n
             /\ now(c[1]).mean[c[2]] * now(c[1]).n = Parts * BP!SumOf(all(c))
  <2>1. PICK d \in 1 .. Devices, k \in 1 .. Channels : c = <<d, k>>
    BY DEF BP!Channel
  <2>2. c[1] = d /\ c[2] = k /\ buffers[d] \in Buffers
    BY <2>1
  <2> QED
    BY <1>2, <2>1, <2>2, BoardRefill
<1>5. ASSUME NEW d \in 1 .. Devices
      PROVE  now(d).n \in Nat /\ now(d).n <= (samples + 1) * MaxRows
  <2>1. buffers[d] \in Buffers
    OBVIOUS
  <2> QED
    BY <1>2, <2>1, BoardRefill
<1> HIDE DEF now, all
<1>6. /\ before \in [BP!Channel -> Nat] /\ counted \in [BP!Channel -> Seq(Nat)]
      /\ after \in [1 .. Devices -> Nat]
      /\ samples \in 0 .. MaxSamples /\ samples' \in 0 .. MaxSamples
  BY <1>1, <1>2 DEF BoardInv, BP!TypeOK
<1>7. /\ before' \in [BP!Channel -> Nat] /\ counted' \in [BP!Channel -> Seq(Nat)]
      /\ after' \in [1 .. Devices -> Nat]
  BY <1>3, <1>4, <1>5, <1>6
<1>8. BP!TypeOK'
  BY <1>2, <1>6, <1>7 DEF BoardInv, BP!TypeOK
<1>9. BoardAverages'
  <2>1. ASSUME NEW c \in BP!Channel
        PROVE  /\ Len(counted'[c]) = after'[c[1]]
               /\ before'[c] * after'[c[1]] = Parts * BP!SumOf(counted'[c])
    <3>1. c[1] \in 1 .. Devices
      BY DEF BP!Channel
    <3>2. CASE c[1] <= read
      BY <1>3, <1>4, <3>1, <3>2
    <3>3. CASE ~(c[1] <= read)
      <4>1. /\ Len(counted[c]) = after[c[1]]
            /\ before[c] * after[c[1]] = Parts * BP!SumOf(counted[c])
        BY DEF BoardInv, BoardAverages
      <4> QED
        BY <1>3, <3>1, <3>3, <4>1
    <3> QED
      BY <3>2, <3>3
  <2> QED
    BY <2>1 DEF BoardAverages
<1>10. ASSUME NEW d \in 1 .. Devices PROVE after'[d] <= samples' * MaxRows
  <2>1. after[d] <= samples * MaxRows /\ after[d] \in Nat
    BY <1>6 DEF BoardInv
  <2>2. samples * MaxRows <= (samples + 1) * MaxRows /\ (samples + 1) * MaxRows \in Nat
    BY <1>1, <1>6
  <2>3. after'[d] \in {now(d).n, after[d]}
    BY <1>3
  <2> QED
    BY <1>1, <1>2, <1>5, <1>6, <2>1, <2>2, <2>3
<1>11. BP!AveragesSinceReport'
  BY <1>2 DEF BP!AveragesSinceReport
<1> QED
  BY <1>2, <1>8, <1>9, <1>10, <1>11 DEF BoardInv

\* The steps of the initialisation, which read nothing.
LEMMA BoardStarts ==
    ASSUME BP!BoardAssumption, BoardInv,
           \/ BP!InitFails \/ BP!InitExits \/ BP!AcmeEnabled
           \/ \E wanted \in BoardWanted : BP!CreateEventSets(wanted)
    PROVE  BoardInv'
<1>1. /\ Devices \in Nat /\ Channels \in Nat \ {0} /\ MaxSamples \in Nat /\ MaxRows \in Nat
      /\ Parts \in Nat /\ BoardWanted \subseteq Seq(BP!Channel)
  BY DEF BP!BoardAssumption
<1>2. /\ up \in {"loaded", "enabled"} /\ samples = 0 /\ ~fine
      /\ \A c \in BP!Channel : counted[c] = << >>
  BY DEF BoardInv, BP!InitFails, BP!InitExits, BP!AcmeEnabled, BP!CreateEventSets
<1>3. /\ counted' = counted /\ fine' = fine /\ seen' = seen /\ samples' = samples
      /\ up' \in {"loaded", "enabled", "running", "refused", "exited"}
  BY DEF BP!InitFails, BP!InitExits, BP!AcmeEnabled, BP!CreateEventSets
<1>4. /\ before' \in {before, [c \in BP!Channel |-> 0]}
      /\ after' \in {after, [d \in 1 .. Devices |-> 0]}
  BY DEF BP!InitFails, BP!InitExits, BP!AcmeEnabled, BP!CreateEventSets
<1>5. /\ before \in [BP!Channel -> Nat] /\ after \in [1 .. Devices -> Nat]
      /\ events \in Seq(BP!Channel)
      /\ values \in Seq(Nat \cup {Unset}) /\ Len(values) = Len(events)
  BY DEF BoardInv, BP!TypeOK
<1>6. /\ events' \in Seq(BP!Channel)
      /\ values' \in Seq(Nat \cup {Unset}) /\ Len(values') = Len(events')
  <2>1. CASE events' = events /\ values' = values
    BY <1>5, <2>1
  <2>2. CASE \E wanted \in BoardWanted : BP!CreateEventSets(wanted)
    <3>1. PICK wanted \in BoardWanted : BP!CreateEventSets(wanted)
      BY <2>2
    <3>2. /\ events' = wanted /\ wanted \in Seq(BP!Channel)
          /\ values' = [i \in DOMAIN wanted |-> Unset]
      BY <1>1, <3>1 DEF BP!CreateEventSets
    <3>3. DOMAIN wanted = 1 .. Len(wanted) /\ Len(wanted) \in Nat
      BY <3>2
    <3> QED
      BY <3>2, <3>3
  <2> QED
    BY <2>1, <2>2 DEF BP!InitFails, BP!InitExits, BP!AcmeEnabled
<1>7. ASSUME NEW d \in 1 .. Devices PROVE after[d] = 0 /\ after'[d] = 0
  <2>1. <<d, 1>> \in BP!Channel /\ <<d, 1>>[1] = d
    BY <1>1 DEF BP!Channel
  <2>2. after[d] = 0
    BY <1>2, <2>1, NoReadings DEF BoardInv, BoardAverages
  <2> QED
    BY <1>4, <2>2
<1>8. before' \in [BP!Channel -> Nat] /\ after' \in [1 .. Devices -> Nat]
  BY <1>4, <1>5
<1>9. BP!TypeOK'
  BY <1>3, <1>6, <1>8 DEF BoardInv, BP!TypeOK
<1>10. ASSUME NEW c \in BP!Channel
       PROVE  /\ Len(counted'[c]) = after'[c[1]]
              /\ before'[c] * after'[c[1]] = Parts * BP!SumOf(counted'[c])
  <2>1. c[1] \in 1 .. Devices
    BY DEF BP!Channel
  <2>2. counted'[c] = << >> /\ after'[c[1]] = 0
    BY <1>2, <1>3, <1>7, <2>1
  <2>3. before'[c] \in Nat
    BY <1>8
  <2> QED
    BY <1>1, <2>2, <2>3, NoReadings
<1>11. BoardAverages'
  BY <1>10 DEF BoardAverages
<1>12. \A d \in 1 .. Devices : after'[d] <= samples' * MaxRows
  BY <1>1, <1>2, <1>3, <1>7
<1>13. samples' = 0 /\ ~fine' /\ \A c \in BP!Channel : counted'[c] = << >>
  BY <1>2, <1>3
<1>14. BP!AveragesSinceReport'
  BY <1>13 DEF BP!AveragesSinceReport
<1> QED
  BY <1>9, <1>11, <1>12, <1>13, <1>14 DEF BoardInv

\* Every step of the connector preserves the invariant.
LEMMA BoardStep ==
    ASSUME BP!BoardAssumption
    PROVE  BoardInv /\ [BP!Next]_(BP!vars) => BoardInv'
<1> SUFFICES ASSUME BoardInv, [BP!Next]_(BP!vars) PROVE BoardInv'
  OBVIOUS
<1>1. CASE \/ BP!InitFails \/ BP!InitExits \/ BP!AcmeEnabled
           \/ \E wanted \in BoardWanted : BP!CreateEventSets(wanted)
  BY <1>1, BoardStarts
<1>2. CASE \E buffers \in [1 .. Devices -> Buffers] : BP!SampleSucceeds(buffers)
  BY <1>2, BoardSucceeds
<1>3. CASE \E buffers \in [1 .. Devices -> Buffers] :
              \E read \in 0 .. Devices - 1 : BP!SampleFails(read, buffers)
  BY <1>3, BoardFails
<1>4. CASE UNCHANGED BP!vars
  BY <1>4 DEF BoardInv, BoardAverages, BP!TypeOK, BP!AveragesSinceReport, BP!vars
<1> QED
  BY <1>1, <1>2, <1>3, <1>4 DEF BP!Next

-----------------------------------------------------------------------------
(* The connectors side by side *)

\* Of the connector that runs its invariant holds.
ConnectorsInv ==
    /\ part \in {"RAPL_power", "CPU_perf", "monitors", "Linux_sys_power", "Linux_resources",
                 "Board_power", "CPU_temperature", "NVML"}
    /\ part = "RAPL_power" => RaplInv
    /\ part = "CPU_perf" => PerfInv
    /\ part = "monitors" => MonitorInv
    /\ part = "Linux_sys_power" => PowerInv
    /\ part = "Linux_resources" => ResourcesInv
    /\ part = "Board_power" => BoardInv
    /\ part = "CPU_temperature" => TemperatureInv
    /\ part = "NVML" => NvmlInv

\* Init chooses one of them.
LEMMA ConnectorsInitInv == Init => ConnectorsInv
<1> SUFFICES ASSUME Init PROVE ConnectorsInv
  OBVIOUS
<1>1. CASE InitRP
  BY <1>1, RaplInitInv, ConnectorAssumption DEF InitRP, ConnectorsInv
<1>2. CASE InitCF
  BY <1>2, PerfInitInv, ConnectorAssumption DEF InitCF, ConnectorsInv
<1>3. CASE InitPM
  BY <1>3, MonitorInitInv, ConnectorAssumption DEF InitPM, ConnectorsInv
<1>4. CASE InitLS
  BY <1>4, PowerInitInv, ConnectorAssumption DEF InitLS, ConnectorsInv
<1>5. CASE InitLR
  BY <1>5, ResourcesInitInv, ConnectorAssumption DEF InitLR, ConnectorsInv
<1>6. CASE InitBP
  BY <1>6, BoardInitInv, ConnectorAssumption DEF InitBP, ConnectorsInv
<1>7. CASE InitCT
  BY <1>7, TemperatureInitInv, ConnectorAssumption DEF InitCT, ConnectorsInv
<1>8. CASE InitNV
  BY <1>8, NvmlInitInv, ConnectorAssumption DEF InitNV, ConnectorsInv
<1> QED
  BY <1>1, <1>2, <1>3, <1>4, <1>5, <1>6, <1>7, <1>8 DEF Init

\* A step is one of the connector that runs; the others' variables are its.
LEMMA ConnectorsStep == ConnectorsInv /\ [Next]_allVars => ConnectorsInv'
<1> SUFFICES ASSUME ConnectorsInv, [Next]_allVars PROVE ConnectorsInv'
  OBVIOUS
<1>1. CASE StepRP
  <2>1. part = "RAPL_power" /\ part' = part /\ RP!Next
    BY <1>1 DEF StepRP
  <2>2. RaplInv'
    BY <2>1, RaplStep, ConnectorAssumption DEF ConnectorsInv
  <2> QED
    BY <2>1, <2>2 DEF ConnectorsInv
<1>2. CASE StepCF
  <2>1. part = "CPU_perf" /\ part' = part /\ CF!Next
    BY <1>2 DEF StepCF
  <2>2. PerfInv'
    BY <2>1, PerfStep, ConnectorAssumption DEF ConnectorsInv
  <2> QED
    BY <2>1, <2>2 DEF ConnectorsInv
<1>3. CASE StepPM
  <2>1. part = "monitors" /\ part' = part /\ PM!Next
    BY <1>3 DEF StepPM
  <2>2. MonitorInv'
    BY <2>1, MonitorStep, ConnectorAssumption DEF ConnectorsInv
  <2> QED
    BY <2>1, <2>2 DEF ConnectorsInv
<1>4. CASE StepLS
  <2>1. part = "Linux_sys_power" /\ part' = part /\ LS!Next
    BY <1>4 DEF StepLS
  <2>2. PowerInv'
    BY <2>1, PowerStep, ConnectorAssumption DEF ConnectorsInv
  <2> QED
    BY <2>1, <2>2 DEF ConnectorsInv
<1>5. CASE StepLR
  <2>1. part = "Linux_resources" /\ part' = part /\ LR!Next
    BY <1>5 DEF StepLR
  <2>2. ResourcesInv'
    BY <2>1, ResourcesStep, ConnectorAssumption DEF ConnectorsInv
  <2> QED
    BY <2>1, <2>2 DEF ConnectorsInv
<1>6. CASE StepBP
  <2>1. part = "Board_power" /\ part' = part /\ BP!Next
    BY <1>6 DEF StepBP
  <2>2. BoardInv'
    BY <2>1, BoardStep, ConnectorAssumption DEF ConnectorsInv
  <2> QED
    BY <2>1, <2>2 DEF ConnectorsInv
<1>7. CASE StepCT
  <2>1. part = "CPU_temperature" /\ part' = part /\ CT!Next
    BY <1>7 DEF StepCT
  <2>2. TemperatureInv'
    BY <2>1, TemperatureStep, ConnectorAssumption DEF ConnectorsInv
  <2> QED
    BY <2>1, <2>2 DEF ConnectorsInv
<1>8. CASE StepNV
  <2>1. part = "NVML" /\ part' = part /\ NV!Next
    BY <1>8 DEF StepNV
  <2>2. NvmlInv'
    BY <2>1, NvmlStepInv, ConnectorAssumption DEF ConnectorsInv
  <2> QED
    BY <2>1, <2>2 DEF ConnectorsInv
<1>9. CASE UNCHANGED allVars
  <2>1. part' = part /\ part \in {"RAPL_power", "CPU_perf", "monitors", "Linux_sys_power",
             "Linux_resources", "Board_power", "CPU_temperature", "NVML"}
    BY <1>9 DEF ConnectorsInv, allVars
  <2>2. CASE part = "RAPL_power"
    <3>1. UNCHANGED RP!vars
      BY <1>9 DEF allVars, RP!vars
    <3>2. RaplInv'
      BY <2>2, <3>1, RaplStep, ConnectorAssumption DEF ConnectorsInv
    <3> QED
      BY <2>1, <2>2, <3>2 DEF ConnectorsInv
  <2>3. CASE part = "CPU_perf"
    <3>1. UNCHANGED CF!vars
      BY <1>9 DEF allVars, CF!vars
    <3>2. PerfInv'
      BY <2>3, <3>1, PerfStep, ConnectorAssumption DEF ConnectorsInv
    <3> QED
      BY <2>1, <2>3, <3>2 DEF ConnectorsInv
  <2>4. CASE part = "monitors"
    <3>1. UNCHANGED PM!vars
      BY <1>9 DEF allVars, PM!vars, procVars, PM!procVars
    <3>2. MonitorInv'
      BY <2>4, <3>1, MonitorStep, ConnectorAssumption DEF ConnectorsInv
    <3> QED
      BY <2>1, <2>4, <3>2 DEF ConnectorsInv
  <2>5. CASE part = "Linux_sys_power"
    <3>1. UNCHANGED LS!vars
      BY <1>9 DEF allVars, LS!vars, procVars, LS!procVars
    <3>2. PowerInv'
      BY <2>5, <3>1, PowerStep, ConnectorAssumption DEF ConnectorsInv
    <3> QED
      BY <2>1, <2>5, <3>2 DEF ConnectorsInv
  <2>6. CASE part = "Linux_resources"
    <3>1. UNCHANGED LR!vars
      BY <1>9 DEF allVars, LR!vars, procVars, LR!procVars
    <3>2. ResourcesInv'
      BY <2>6, <3>1, ResourcesStep, ConnectorAssumption DEF ConnectorsInv
    <3> QED
      BY <2>1, <2>6, <3>2 DEF ConnectorsInv
  <2>7. CASE part = "Board_power"
    <3>1. UNCHANGED BP!vars
      BY <1>9 DEF allVars, BP!vars
    <3>2. BoardInv'
      BY <2>7, <3>1, BoardStep, ConnectorAssumption DEF ConnectorsInv
    <3> QED
      BY <2>1, <2>7, <3>2 DEF ConnectorsInv
  <2>8. CASE part = "CPU_temperature"
    <3>1. UNCHANGED CT!vars
      BY <1>9 DEF allVars, CT!vars
    <3>2. TemperatureInv'
      BY <2>8, <3>1, TemperatureStep, ConnectorAssumption DEF ConnectorsInv
    <3> QED
      BY <2>1, <2>8, <3>2 DEF ConnectorsInv
  <2>9. CASE part = "NVML"
    <3>1. UNCHANGED NV!vars
      BY <1>9 DEF allVars, NV!vars
    <3>2. NvmlInv'
      BY <2>9, <3>1, NvmlStepInv, ConnectorAssumption DEF ConnectorsInv
    <3> QED
      BY <2>1, <2>9, <3>2 DEF ConnectorsInv
  <2> QED
    BY <2>1, <2>2, <2>3, <2>4, <2>5, <2>6, <2>7, <2>8, <2>9
<1> QED
  BY <1>1, <1>2, <1>3, <1>4, <1>5, <1>6, <1>7, <1>8, <1>9 DEF Next

\* The invariant of the connectors holds in every state.
THEOREM ConnectorsInvariant == Spec => []ConnectorsInv
BY ConnectorsInitInv, ConnectorsStep, PTL DEF Spec

\* The variables of the connector that runs have their types.
THEOREM ConnectorsTypeCorrect == Spec => []TypeOK
<1>1. ConnectorsInv => TypeOK
  BY DEF ConnectorsInv, TypeOK, RaplInv, PerfInv, MonitorInv, PowerInv, ResourcesInv, BoardInv,
         TemperatureInv, NvmlInv
<1> QED
  BY <1>1, ConnectorsInvariant, PTL

\* Figures stand in the slots of their names.  Of Linux_resources whatever is switched
\* on; of RAPL_power where memory energy is offered; of CPU_perf where PAPI_add_event()
\* takes all three events on every core, and, where PAPI offers some only, on the first
\* core if it takes those: what other machines do is hazards, not results.
THEOREM FiguresNamed == Spec => []FiguresUnderTheirNames
<1>1. ConnectorsInv => FiguresUnderTheirNames
  BY RaplFigures, PerfFigures, ConnectorAssumption
     DEF ConnectorsInv, FiguresUnderTheirNames, ResourcesInv
<1> QED
  BY <1>1, ConnectorsInvariant, PTL

\* CPU_temperature: what is reported under a sensor's name was read from it.
THEOREM TemperaturesCorrect == Spec => []TemperaturesAreOwn
<1>1. ConnectorsInv => TemperaturesAreOwn
  BY DEF ConnectorsInv, TemperaturesAreOwn, TemperatureInv
<1> QED
  BY <1>1, ConnectorsInvariant, PTL

\* Board_power: print_sample() moves an average and the count it rests on together,
\* whatever the samples that failed at one of the devices in between.
THEOREM AveragesCorrect == Spec => []AveragesSinceReport
<1>1. ConnectorsInv => AveragesSinceReport
  BY DEF ConnectorsInv, AveragesSinceReport, BoardInv
<1> QED
  BY <1>1, ConnectorsInvariant, PTL

\* Linux_resources: the throughput figures drop no byte, and but for those that
\* to_json() prints again from a kept slot they repeat none.
THEOREM TrafficCounted == Spec => []TrafficCountedOnce
<1>1. ConnectorsInv => TrafficCountedOnce
  BY ResourcesTraffic DEF ConnectorsInv, TrafficCountedOnce
<1> QED
  BY <1>1, ConnectorsInvariant, PTL

\* Linux_resources: CPU_usage_rate never leaves 0 .. 100 while no counter goes around.
THEOREM CpuRate == Spec => []CpuRateIsPercentage
<1>1. ConnectorsInv => CpuRateIsPercentage
  BY DEF ConnectorsInv, CpuRateIsPercentage, ResourcesInv
<1> QED
  BY <1>1, ConnectorsInvariant, PTL

\* Linux_sys_power: to_json() writes what is switched on, each under its own name.
THEOREM PowerReports == Spec => []ReportsWhatWasAsked
<1>1. ConnectorsInv => ReportsWhatWasAsked
  BY PowerReport, ConnectorAssumption DEF ConnectorsInv, ReportsWhatWasAsked
<1> QED
  BY <1>1, ConnectorsInvariant, PTL

\* NVML: to_json() writes what is switched on and could be queried.
THEOREM NvmlReports == Spec => []ReportsWhatSucceeded
<1>1. ConnectorsInv => ReportsWhatSucceeded
  BY DEF ConnectorsInv, ReportsWhatSucceeded, NvmlInv
<1> QED
  BY <1>1, ConnectorsInvariant, PTL

\* Linux_sys_power: in either branch of the sampling, and whatever else is switched
\* on, the amounts that a part's figures are computed from add up to the last reading.
THEOREM PowerFiguresAddUp == Spec => []FiguresAddUp
<1>1. ConnectorsInv => FiguresAddUp
  BY PowerAddsUp, ConnectorAssumption DEF ConnectorsInv, FiguresAddUp
<1> QED
  BY <1>1, ConnectorsInvariant, PTL

\* RAPL_power: the figures of an event add up to its last reading.
THEOREM EnergyCounted == Spec => []EnergyCountedOnce
<1>1. ConnectorsInv => EnergyCountedOnce
  BY RaplFigures DEF ConnectorsInv, EnergyCountedOnce
<1> QED
  BY <1>1, ConnectorsInvariant, PTL

\* CPU_perf: PAPI_reset() after PAPI_read() loses no instruction, and the new figures
\* repeat none: the old ones of the cores past a failing PAPI_read(), which the hook
\* prints again, are told from them.
THEOREM InstructionsCounted == Spec => []InstructionsCountedOnce
<1>1. ConnectorsInv => InstructionsCountedOnce
  BY PerfFigures, ConnectorAssumption DEF ConnectorsInv, InstructionsCountedOnce
<1> QED
  BY <1>1, ConnectorsInvariant, PTL

\* The monitors read their process before the system, so that its share is more than
\* the whole by its niced ticks at most, which sys_runtime leaves out.
THEOREM OwnTimeWithinSystem == Spec => []ProcessTimeWithinSystem
<1>1. ConnectorsInv => ProcessTimeWithinSystem
  BY DEF ConnectorsInv, ProcessTimeWithinSystem, MonitorInv, MonitorOrder
<1> QED
  BY <1>1, ConnectorsInvariant, PTL

\* The lines that a monitor writes stand for every change since its first reading.
THEOREM MonitorLinesAddUp == Spec => []LinesAddUp
<1>1. ConnectorsInv => LinesAddUp
  BY DEF ConnectorsInv, LinesAddUp, MonitorInv
<1> QED
  BY <1>1, ConnectorsInvariant, PTL
=============================================================================
