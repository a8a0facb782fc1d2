--------------------------- MODULE SampleDelivery ---------------------------
(***************************************************************************)
(* What the agent promises about samples, without threads, buffers or      *)
(* signals.  The samples of a plug-in are numbered in the order in which   *)
(* they are taken.  From time to time all samples not yet dealt with are   *)
(* settled together: the server gets all of them, in order and after the   *)
(* earlier ones, or none of them, for good.  An agent that closes down has *)
(* settled every sample it took.                                           *)
(***************************************************************************)
EXTENDS Naturals, Sequences

CONSTANT Source     \* the plug-ins

VARIABLES
    taken,      \* samples taken from each source
    settled,    \* how many of them have been handed over
    stored,     \* the samples the server has, in the order it got them
    closed      \* sampling is over

vars == <<taken, settled, stored, closed>>

Run(from, to) == [k \in 1 .. to - from |-> from + k]

Init ==
    /\ taken = [s \in Source |-> 0]
    /\ settled = [s \in Source |-> 0]
    /\ stored = [s \in Source |-> << >>]
    /\ closed = FALSE

Take(s) ==
    /\ ~closed
    /\ taken' = [taken EXCEPT ![s] = @ + 1]
    /\ UNCHANGED <<settled, stored, closed>>

Settle(s) ==
    /\ ~closed
    /\ settled[s] < taken[s]
    /\ settled' = [settled EXCEPT ![s] = taken[s]]
    /\ \/ stored' = [stored EXCEPT ![s] = @ \o Run(settled[s], taken[s])]
       \/ UNCHANGED stored
    /\ UNCHANGED <<taken, closed>>

Close ==
    /\ ~closed
    /\ settled = taken
    /\ closed' = TRUE
    /\ UNCHANGED <<taken, settled, stored>>

Next == Close \/ \E s \in Source : Take(s) \/ Settle(s)

Spec == Init /\ [][Next]_vars
=============================================================================
