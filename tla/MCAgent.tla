------------------------------- MODULE MCAgent -------------------------------
(* Instances of AgentThreads: plug-ins "A" and "B", a second of 2 "ns".     *)
EXTENDS AgentThreads

Timing(name) == <<"timings", name>>
Timings == SectionLine("timings")

MCNames == [t \in Thread |-> IF t = 0 THEN "A" ELSE "B"]
MCKeys == {DefaultKey, UpdateKey, Timing("A"), Timing("B")}

\* A second for both plug-ins, or two and a half for A after a line that the
\* parser cannot use and one that is overruled; B is then not named.
SecondForBoth ==
    <<Timings, Assignment("update_configuration", 3), Assignment("A", 2), Assignment("B", 2)>>
SlowForA ==
    <<Timings, Assignment("A", 3), Malformed, Assignment("update_configuration", 3),
      Assignment("A", 5)>>
OnlyDefault == <<Timings, Assignment("update_configuration", 3), Assignment("default", 2)>>

OneFile == {SecondForBoth}
TwoFiles == {SecondForBoth, SlowForA}
DefaultFile == {OnlyDefault}
=============================================================================
