----------------------------- MODULE BoardPower -----------------------------
(***************************************************************************)
(* The connector Board_power: an ACME board on the network, read through   *)
(* libiio.  Each sample refills one buffer per device; a callback averages *)
(* what a buffer holds channel by channel, and the averages start again    *)
(* after a sample in which every device could be read.                     *)
(*                                                                         *)
(* libiio is external: a refill fails, or gives the readings of all        *)
(* channels of one device, first channel first.  Averages are in units of  *)
(* 1/Parts, so that those of a few readings are whole numbers; the scale   *)
(* of a channel, a constant factor, is left out.                           *)
(***************************************************************************)
EXTENDS Integers, Sequences

CONSTANTS
    Devices,    \* number of devices, at most the 8 the arrays have room for
    Channels,   \* number of channels of each device, at most 5
    Wanted,     \* the metrics that a configuration may switch on
    Buffers,    \* what a refilled buffer may hold: one row of readings per sample
    MaxRows,    \* bound: the rows of a buffer
    Parts,      \* a multiple of n * (n + 1) while readings may follow n others
    MaxSamples, \* bound: samples taken
    Unset       \* a slot of data->values that was never written

VARIABLES
    up,         \* "loaded", "enabled", "running", "refused" or "exited"
    events,     \* data->events
    values,     \* data->values
    mean,       \* my_chn[][].value
    nb_samples,
    since,      \* history: the readings since the averages were last reported
    fine,       \* history: the last sample could read every device
    reported,   \* history: the readings that the last report stands for
    samples

vars == <<up, events, values, mean, nb_samples, since, fine, reported, samples>>

Channel == (1 .. Devices) \X (1 .. Channels)

\* What the proofs need to know of the constants; averages are exact in Parts.
BoardAssumption ==
    /\ Devices \in Nat /\ Channels \in Nat \ {0}
    /\ Wanted \subseteq Seq(Channel)
    /\ Buffers \subseteq Seq([1 .. Channels -> Int])
    /\ MaxRows \in Nat /\ \A b \in Buffers : Len(b) <= MaxRows
    /\ MaxSamples \in Nat /\ Parts \in Nat
    /\ \A n \in 1 .. MaxSamples * MaxRows - 1 : Parts % (n * (n + 1)) = 0

TypeOK ==
    /\ up \in {"loaded", "enabled", "running", "refused", "exited"}
    /\ events \in Seq(Channel)
    /\ values \in Seq(Nat \cup {Unset}) /\ Len(values) = Len(events)
    /\ mean \in [Channel -> Nat]
    /\ nb_samples \in [1 .. Devices -> Nat]
    /\ since \in [Channel -> Seq(Nat)]
    /\ fine \in BOOLEAN
    /\ reported \in [Channel -> Seq(Nat)]
    /\ samples \in 0 .. MaxSamples

Init ==
    /\ up = "loaded"
    /\ events = <<>> /\ values = <<>>
    /\ mean = [c \in Channel |-> 0]
    /\ nb_samples = [d \in 1 .. Devices |-> 0]
    /\ since = [c \in Channel |-> <<>>]
    /\ fine = FALSE
    /\ reported = [c \in Channel |-> <<>>]
    /\ samples = 0

\* No board, a device, an attribute or a buffer that is missing, too many
\* devices, or (in create_EventSets()) a metric that no channel is labelled with.
InitFails ==
    /\ up \in {"loaded", "enabled"}
    /\ up' = "refused"
    /\ UNCHANGED <<events, values, mean, nb_samples, since, fine, reported, samples>>

\* exit(-1): not an "ina226", or a device with too many channels.
InitExits ==
    /\ up = "loaded"
    /\ up' = "exited"
    /\ UNCHANGED <<events, values, mean, nb_samples, since, fine, reported, samples>>

AcmeEnabled ==
    /\ up = "loaded"
    /\ up' = "enabled"
    /\ mean' = [c \in Channel |-> 0]
    /\ nb_samples' = [d \in 1 .. Devices |-> 0]
    /\ UNCHANGED <<events, values, since, fine, reported, samples>>

CreateEventSets(wanted) ==
    /\ up = "enabled"
    /\ up' = "running"
    /\ events' = wanted
    /\ values' = [i \in DOMAIN wanted |-> Unset]
    /\ UNCHANGED <<mean, nb_samples, since, fine, reported, samples>>

Abs(reading) == IF reading < 0 THEN -reading ELSE reading

\* The callback print_sample(), for one reading of channel c of a device with
\* the averages `dev.mean`.  The first channel of a row moves the count.
PrintSample(dev, c, reading) ==
    LET n == IF c = 1 THEN dev.n + 1 ELSE dev.n
    IN [n |-> n,
        mean |-> [dev.mean EXCEPT ![c] = @ + (Parts * Abs(reading) - @) \div n]]

\* iio_buffer_foreach_sample() for device d: row by row, channel by channel.
ForeachChannel(dev, row) ==
    LET after[c \in 0 .. Channels] ==
            IF c = 0 THEN dev ELSE PrintSample(after[c - 1], c, row[c])
    IN after[Channels]

ForeachSample(d, buffer) ==
    LET after[r \in 0 .. Len(buffer)] ==
            IF r = 0
               THEN [n |-> nb_samples[d], mean |-> [c \in 1 .. Channels |-> mean[<<d, c>>]]]
               ELSE ForeachChannel(after[r - 1], buffer[r])
    IN after[Len(buffer)]

\* The readings of a channel after a buffer has been gone through.
Readings(c, buffer) == since[c] \o [r \in DOMAIN buffer |-> Abs(buffer[r][c[2]])]

\* The refill of the device after the first `read` ones fails: the function
\* returns before anything is reported or set back, and the hook, which ignores
\* the result, formats the previous figures.
SampleFails(read, buffers) ==
    /\ up = "running" /\ samples < MaxSamples
    /\ samples' = samples + 1
    /\ fine' = FALSE
    /\ nb_samples' = [d \in 1 .. Devices |->
            IF d <= read THEN ForeachSample(d, buffers[d]).n ELSE nb_samples[d]]
    /\ mean' = [c \in Channel |->
            IF c[1] <= read THEN ForeachSample(c[1], buffers[c[1]]).mean[c[2]] ELSE mean[c]]
    /\ since' = [c \in Channel |->
            IF c[1] <= read THEN Readings(c, buffers[c[1]]) ELSE since[c]]
    /\ UNCHANGED <<up, events, values, reported>>

\* reset_my_channels_value()
\* Fault: the averages start again, the count does not.
ResetChannels_KeepsCount(counts) ==
    /\ mean' = [c \in Channel |-> 0]
    /\ nb_samples' = counts

ResetChannels(counts) ==
    /\ mean' = [c \in Channel |-> 0]
    /\ nb_samples' = [d \in 1 .. Devices |-> 0]

\* Every device is refilled, then filter() stores the averages asked for.
SampleSucceeds(buffers) ==
    /\ up = "running" /\ samples < MaxSamples
    /\ samples' = samples + 1
    /\ fine' = TRUE
    /\ LET now == [d \in 1 .. Devices |-> ForeachSample(d, buffers[d])]
       IN /\ values' = [i \in DOMAIN events |-> now[events[i][1]].mean[events[i][2]]]
          /\ ResetChannels([d \in 1 .. Devices |-> now[d].n])
    /\ reported' = [c \in Channel |-> Readings(c, buffers[c[1]])]
    /\ since' = [c \in Channel |-> <<>>]
    /\ UNCHANGED <<up, events>>

Next ==
    \/ InitFails \/ InitExits \/ AcmeEnabled
    \/ \E wanted \in Wanted : CreateEventSets(wanted)
    \/ \E buffers \in [1 .. Devices -> Buffers] :
          \/ SampleSucceeds(buffers)
          \/ \E read \in 0 .. Devices - 1 : SampleFails(read, buffers)

-----------------------------------------------------------------------------
(* Properties *)

SumOf(readings) ==
    LET upTo[n \in 0 .. Len(readings)] == IF n = 0 THEN 0 ELSE upTo[n - 1] + readings[n]
    IN upTo[Len(readings)]

\* A figure is the average of all readings of its channel since the report
\* before, those of samples included that failed at another device after this
\* one was read: neither the average nor its count is set back too early, too
\* late or apart from the other.
AveragesSinceReport ==
    fine => \A i \in DOMAIN events :
        LET readings == reported[events[i]]
        IN values[i] * Len(readings) = Parts * SumOf(readings)
=============================================================================
