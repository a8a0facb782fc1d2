---------------------------- MODULE MCConnectors ----------------------------
(***************************************************************************)
(* The instance of Connectors for TLC.                                     *)
(***************************************************************************)
EXTENDS Connectors, TLC

Symmetry == Permutations(Process)

MCResourcesAsked == {{"RAM", "net", "io"}, {"CPU", "swap"}}

MCPowerAsked ==
    {{"estimated_total_power", "estimated_CPU_power", "estimated_wifi_power",
      "estimated_memory_power", "estimated_disk_power"},
     {"estimated_total_power", "estimated_memory_power"},
     {"estimated_CPU_power", "estimated_wifi_power"},
     {"estimated_disk_power"}}

MCRequests ==
    {<<"total_power", "dram_power">>, <<"dram_power", "total_power">>, <<"total_power">>}

\* Two cores on which all works, and one; two events offered and added; three
\* offered, of which one core does not take the first.
AllThree == {"MFLIPS", "MFLOPS", "MIPS"}
CoreEvents(cores, offered) == (1 .. cores) \X offered
Machine(cores, offered, refused) ==
    [cores |-> cores, offered |-> offered, added |-> CoreEvents(cores, offered) \ refused]

MCProcessors ==
    {Machine(2, AllThree, {}), Machine(1, AllThree, {}),
     Machine(2, {"MFLOPS", "MIPS"}, {}),
     Machine(2, AllThree, {<<2, "MFLIPS">>})}

\* Two devices with two channels; buffers of one or two samples.
MCBoardWanted == {<<<<1, 1>>, <<2, 2>>>>, <<<<2, 1>>, <<1, 2>>>>}
MCBuffers == {<<<<1, -2>>>>, <<<<-3, 1>>, <<4, 3>>>>}

\* Two processors with and without numbers, and a chip that is none.
Processor(id, cores) == [coretemp |-> TRUE, id |-> id, cores |-> cores]
Other == [coretemp |-> FALSE, id |-> "", cores |-> <<"0">>]
CoreName(cpu, core) == [cpu |-> cpu, core |-> core]

MCChips ==
    {<<Other, Processor("0", <<"0", "1">>), Processor("1", <<"0", "1">>)>>,
     <<Processor("1", <<"0", "1">>), Processor("", <<"0", "2">>)>>}
MCTemperatureWanted ==
    {{CoreName("0", "1"), CoreName("1", "0"), CoreName("1", "1")},
     {CoreName("1", "0"), CoreName("", "0"), CoreName("", "2")}}

MCNvmlWanted ==
    {<<"power", "gpu_usage_rate", "PCIe_rcv_throughput">>,
     <<"mem_usage_rate", "fan", "mem_allocated", "temperature">>,
     <<"fan">>}
=============================================================================
