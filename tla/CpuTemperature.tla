--------------------------- MODULE CpuTemperature ---------------------------
(***************************************************************************)
(* The connector CPU_temperature: the core temperatures that lm_sensors    *)
(* offers.  mf_CPU_temperature_init() goes through the chips and keeps     *)
(* three lists side by side: chip and subfeature to read from, and the     *)
(* name to report under.  A sample reads all of them into one local        *)
(* variable, whose value it stores whether the reading has worked or not.  *)
(*                                                                         *)
(* libsensors is external.  A chip is its driver, the number in its        *)
(* "Physical id" feature ("" if it has none: newer kernels name it         *)
(* "Package id") and its cores; a temperature is where it is from and of   *)
(* which sample.                                                           *)
(***************************************************************************)
EXTENDS Integers, SequencesExt

CONSTANTS
    Machines,   \* the sequences of chips that may be found
    Wanted,     \* the sets of names that a configuration may switch on
    MaxSamples  \* bound: samples taken

VARIABLES
    up,         \* "loaded", "running" or "refused"
    machine,    \* the chips that sensors_get_detected_chips() returns
    features,   \* features_list->chip and ->subfeature: <<chip, core>>
    events,     \* data->events
    values,     \* data->values
    failing,    \* history: the sensors that failed in the last sample
    samples

vars == <<up, machine, features, events, values, failing, samples>>

Sensor == UNION {{c} \X (1 .. Len(machine[c].cores)) : c \in DOMAIN machine}
Name == [cpu : STRING, core : STRING]
NoReading == [of |-> <<0, 0>>, sample |-> 0]

\* What the proofs need to know of the constants.
TemperatureAssumption ==
    /\ Machines \subseteq Seq([coretemp : BOOLEAN, id : STRING, cores : Seq(STRING)])
    /\ Wanted \subseteq SUBSET Name
    /\ MaxSamples \in Nat

TypeOK ==
    /\ up \in {"loaded", "running", "refused"}
    /\ machine \in Machines
    /\ features \in Seq(Sensor)
    /\ events \in Seq(Name) /\ Len(events) = Len(features)
    /\ values \in Seq([of : Sensor, sample : 1 .. MaxSamples] \cup {NoReading})
    /\ Len(values) = Len(events)
    /\ failing \in SUBSET Sensor
    /\ samples \in 0 .. MaxSamples

Init ==
    /\ up = "loaded"
    /\ machine \in Machines
    /\ features = <<>> /\ events = <<>> /\ values = <<>>
    /\ failing = {}
    /\ samples = 0

CoreOf(s) == machine[s[1]].cores[s[2]]

\* my_label: "CPU<chipnum>:core<corenum>"; chipnum starts empty for each chip.
Label(s) == [cpu |-> machine[s[1]].id, core |-> CoreOf(s)]

\* A sensor of a core whose name is switched on.
IfWanted(s, wanted) ==
    IF machine[s[1]].coretemp /\ Label(s) \in wanted THEN <<s>> ELSE <<>>

\* The sensors that the two nested loops keep, in the order they come to them.
Listed(wanted) ==
    FlattenSeq([c \in DOMAIN machine |->
        FlattenSeq([k \in DOMAIN machine[c].cores |-> IfWanted(<<c, k>>, wanted)])])

\* No library, or no sensor of a name that is switched on.
InitFails ==
    /\ up = "loaded"
    /\ up' = "refused"
    /\ UNCHANGED <<machine, features, events, values, failing, samples>>

InitSucceeds(wanted) ==
    /\ up = "loaded"
    /\ Listed(wanted) # <<>>
    /\ up' = "running"
    /\ features' = Listed(wanted)
    /\ events' = [i \in DOMAIN features' |-> Label(features'[i])]
    /\ values' = [i \in DOMAIN features' |-> NoReading]
    /\ UNCHANGED <<machine, failing, samples>>

\* What the local variable holds when element i is stored: the last sensor up
\* to i that could be read, or what was on the stack.
\* Fault: the loop ends at the first sensor that fails.
Value_Stops(i, failed) ==
    IF \E j \in 1 .. i : features[j] \in failed
       THEN values[i] ELSE [of |-> features[i], sample |-> samples']

Value(i, failed) ==
    LET read == {j \in 1 .. i : features[j] \notin failed}
    IN IF read = {} THEN NoReading ELSE [of |-> features[Max(read)], sample |-> samples']

Sample(failed) ==
    /\ up = "running" /\ samples < MaxSamples
    /\ samples' = samples + 1
    /\ failing' = failed
    /\ values' = [i \in DOMAIN values |-> Value(i, failed)]
    /\ UNCHANGED <<up, machine, features, events>>

Next ==
    \/ InitFails
    \/ \E wanted \in Wanted : InitSucceeds(wanted)
    \/ \E failed \in SUBSET Range(features) : Sample(failed)

-----------------------------------------------------------------------------
(* Properties *)

\* A sensor that can be read is reported under the number of its own chip and
\* core and with its own temperature of this sample: neither the failing
\* sensors of the sample nor the other chips, numbered or not, change that.
TemperaturesAreOwn ==
    \A i \in DOMAIN events :
        LET s == features[i]
        IN /\ events[i] = [cpu |-> machine[s[1]].id, core |-> CoreOf(s)]
           /\ samples > 0 /\ s \notin failing =>
                 values[i] = [of |-> s, sample |-> samples]
=============================================================================
