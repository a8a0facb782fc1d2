-------------------------------- MODULE Nvml --------------------------------
(***************************************************************************)
(* The connector NVML: seven figures of each GPU, from six queries of      *)
(* NVIDIA's library, of which any may fail.  The library is external.      *)
(* Names are made, figures stored and reported in three loops that count   *)
(* on their own; a report holds the figures that the configuration asks    *)
(* for and whose query succeeded.  What the queries return and the factors *)
(* that convert it are left out: a figure is where it is from and of which *)
(* sample.                                                                 *)
(***************************************************************************)
EXTENDS Integers, SequencesExt

CONSTANTS
    Gpus,       \* number of GPUs, for 7 * Gpus <= MAX_EVENTS_NUMBER = 32
    Wanted,     \* the metrics that a configuration may switch on, in its order
    MaxFailing, \* bound: queries that fail in one sample
    MaxSamples  \* bound: samples taken

VARIABLES
    up,         \* "loaded", "running" or "refused"
    flag,       \* the names that are switched on, in the configuration's order
    events,     \* data->events
    values,     \* data->values
    report,     \* what mf_NVML_to_json() has printed
    failing,    \* history: the queries that failed in the last sample
    samples

vars == <<up, flag, events, values, report, failing, samples>>

NVML_metrics == <<"gpu_usage_rate", "mem_usage_rate", "mem_allocated", "PCIe_snd_throughput",
                  "PCIe_rcv_throughput", "temperature", "power">>

Query == {"utilization", "memory", "send", "receive", "temperature", "power"}
GpuQuery == (1 .. Gpus) \X Query
Event == (1 .. Gpus) \X Range(NVML_metrics)

\* What a query leaves in values[], from the element `at`: its metrics.
Stored == [utilization |-> [at |-> 1, metrics |-> <<"gpu_usage_rate", "mem_usage_rate">>],
           memory      |-> [at |-> 3, metrics |-> <<"mem_allocated">>],
           send        |-> [at |-> 4, metrics |-> <<"PCIe_snd_throughput">>],
           receive     |-> [at |-> 5, metrics |-> <<"PCIe_rcv_throughput">>],
           temperature |-> [at |-> 6, metrics |-> <<"temperature">>],
           power       |-> [at |-> 7, metrics |-> <<"power">>]]

\* A figure, -1.0 after a query that failed, or memory that was not written.
Figure == [of : Event, sample : 1 .. MaxSamples, valid : BOOLEAN]
Unwritten == [of |-> <<0, "none">>, sample |-> 0, valid |-> FALSE]

\* What the proofs need to know of the constants; a fifth GPU has no room.
NvmlAssumption ==
    /\ Gpus \in Nat /\ 7 * Gpus <= 32
    /\ Wanted \subseteq Seq(STRING)
    /\ MaxSamples \in Nat

TypeOK ==
    /\ up \in {"loaded", "running", "refused"}
    /\ flag \in Seq(STRING)
    /\ events \in Seq(Event) /\ Len(events) <= 7 * Gpus
    /\ DOMAIN values = 1 .. 7 * Gpus
    /\ \A i \in DOMAIN values : values[i] \in Figure \cup {Unwritten}
    /\ report \in Seq([name : Event, figure : Figure])
    /\ failing \in SUBSET GpuQuery
    /\ samples \in 0 .. MaxSamples

Init ==
    /\ up = "loaded"
    /\ flag = <<>> /\ events = <<>> /\ report = <<>>
    /\ values = [i \in 1 .. 7 * Gpus |-> Unwritten]
    /\ failing = {}
    /\ samples = 0

\* Only unknown metrics, no library, or a GPU that cannot be counted or opened.
InitFails ==
    /\ up = "loaded"
    /\ up' = "refused"
    /\ UNCHANGED <<flag, events, values, report, failing, samples>>

\* The names of all seven metrics, GPU by GPU, whichever are asked for.
InitSucceeds(wanted) ==
    /\ up = "loaded"
    /\ Range(wanted) \cap Range(NVML_metrics) # {}
    /\ up' = "running"
    /\ flag' = wanted
    /\ events' = [i \in 1 .. 7 * Gpus |->
                    <<((i - 1) \div 7) + 1, NVML_metrics[((i - 1) % 7) + 1]>>]
    /\ UNCHANGED <<values, report, failing, samples>>

\* The element of values[] for the k-th figure of a query of GPU g.
\* Fault: a GPU takes one element per query.
Slot_PerQuery(g, q, k) == 6 * (g - 1) + Stored[q].at + k - 1

Slot(g, q, k) == 7 * (g - 1) + Stored[q].at + k - 1

\* mf_NVML_to_json(): names are compared behind their "GPU<n>:".
ToJson(now) ==
    FlattenSeq([w \in DOMAIN flag |->
        FlattenSeq([i \in DOMAIN events |->
            IF events[i][2] = flag[w] /\ now[i].valid
               THEN <<[name |-> events[i], figure |-> now[i]]>> ELSE <<>>])])

\* The hook: all GPUs are queried, then the report is made.
Sample(failed) ==
    /\ up = "running" /\ samples < MaxSamples
    /\ samples' = samples + 1
    /\ failing' = failed
    /\ values' = [i \in DOMAIN values |->
          LET writers == {c \in GpuQuery \X (1 .. 2) :
                             /\ c[2] \in DOMAIN Stored[c[1][2]].metrics
                             /\ Slot(c[1][1], c[1][2], c[2]) = i}
              of(c) == [of |-> <<c[1][1], Stored[c[1][2]].metrics[c[2]]>>,
                        sample |-> samples', valid |-> c[1] \notin failed]
          IN IF writers = {} THEN values[i] ELSE of(CHOOSE c \in writers : TRUE)]
    /\ report' = ToJson(values')
    /\ UNCHANGED <<up, flag, events>>

Next ==
    \/ InitFails
    \/ \E wanted \in Wanted : InitSucceeds(wanted)
    \/ \E n \in 0 .. MaxFailing : \E failed \in kSubset(n, GpuQuery) : Sample(failed)

-----------------------------------------------------------------------------
(* Properties *)

QueryOf(metric) == CHOOSE q \in Query : metric \in Range(Stored[q].metrics)

\* A report holds exactly the metrics asked for of the GPUs whose query for them
\* has succeeded, each with its own figure of this sample: a query that fails
\* for one GPU takes away its own figures and no others.
ReportsWhatSucceeded ==
    samples > 0 =>
        Range(report) =
            {[name |-> e, figure |-> [of |-> e, sample |-> samples, valid |-> TRUE]] :
                e \in {e \in Event : /\ e[2] \in Range(flag)
                                     /\ <<e[1], QueryOf(e[2])>> \notin failing}}
=============================================================================
