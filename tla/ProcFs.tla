------------------------------- MODULE ProcFs -------------------------------
(***************************************************************************)
(* What the kernel counts and shows in /proc and /sys, as far as the       *)
(* connectors and the monitors of the client library read it.  External:   *)
(* the counters only grow, except that a process takes its disk traffic    *)
(* with it when it ends and that free memory goes up and down.             *)
(***************************************************************************)
EXTENDS Integers, FiniteSets, FiniteSetsExt

CONSTANTS
    Modulus,    \* 2^64: the counters are unsigned long long
    Process,
    MaxMoves    \* bound: changes of the counters

ASSUME ProcFsAssumption ==
    /\ Modulus \in Nat \ {0} /\ MaxMoves \in Nat
    /\ IsFiniteSet(Process) /\ Process # {}

VARIABLES
    proc,
    moves

procVars == <<proc, moves>>

Interface == {"eth", "wlan"}
MemTotal == 2

\* The difference of two counters as C computes it.
Minus(a, b) == (a - b) % Modulus

ProcType ==
    /\ proc \in [busy : Nat, other : Nat, idle : Nat, run : Nat, niced : Nat,
                 bytes : Nat, energy : Nat, misses : Nat, free : 0 .. MemTotal,
                 net : [Interface -> Nat], io : [Process -> Nat], live : SUBSET Process]
    /\ moves \in 0 .. MaxMoves

\* The machine has been up for a while when the program starts.
ProcInit ==
    /\ proc = [busy |-> 1, other |-> 0, idle |-> 1, run |-> 0, niced |-> 0,
               bytes |-> 0, energy |-> 1, misses |-> 1, free |-> 1,
               net |-> [i \in Interface |-> 1], io |-> [p \in Process |-> 1],
               live |-> Process]
    /\ moves = 0

\* A tick of the processor in user or system mode, spent by the monitored process
\* or by another.
Run(own) ==
    proc' = [proc EXCEPT !.busy = @ + 1, !.run = @ + (IF own THEN 1 ELSE 0),
                         !.energy = @ + 1, !.misses = @ + 1]

\* A tick of a process that has been made nice, or taken by an interrupt or by
\* another machine.  The process has its niced ticks in its own user time.
RunOther(own) ==
    proc' = [proc EXCEPT !.other = @ + 1, !.run = @ + (IF own THEN 1 ELSE 0),
                         !.niced = @ + (IF own THEN 1 ELSE 0),
                         !.energy = @ + 1, !.misses = @ + 1]

Rest == proc' = [proc EXCEPT !.idle = @ + 1]

Traffic(i) == proc' = [proc EXCEPT !.net[i] = @ + 1]

\* Disk traffic of the monitored process, and of the processes there are.
OwnIo == proc' = [proc EXCEPT !.bytes = @ + 1]

DiskIo(p) == p \in proc.live /\ proc' = [proc EXCEPT !.io[p] = @ + 1]

ProcessEnds(p) == p \in proc.live /\ proc' = [proc EXCEPT !.live = @ \ {p}]

MemoryChanges == \E f \in 0 .. MemTotal : proc' = [proc EXCEPT !.free = f]

\* One change, as far as the bound allows.
ProcMoves(Change) ==
    /\ moves < MaxMoves
    /\ moves' = moves + 1
    /\ Change

\* What sys_IO_stat_read() adds up: the processes that exist when it reads.
IoTotal == FoldSet(LAMBDA p, sum : sum + proc.io[p], 0, proc.live) % Modulus
=============================================================================
