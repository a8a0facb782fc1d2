---------------------------- MODULE ConfigStore ----------------------------
(***************************************************************************)
(* The configuration store of mf_parser.c: the hash table that mfp_parse() *)
(* fills from mf_config.ini, and the APR memory pools behind it.           *)
(*                                                                         *)
(* A line of the file names a section, assigns a value to a key of the     *)
(* section named last, or is one that ini_parse() cannot use: it skips     *)
(* that line, a section line without "]" included, and remembers its       *)
(* number, which mfp_parse() does not take for a failure.  Numbers are     *)
(* values, strtol()/atoi() read the digits in front of a unit.             *)
(***************************************************************************)
EXTENDS Integers, Sequences, FiniteSets

CONSTANTS
    Name,       \* names of sections and keys
    Key,        \* the pairs <<section, name>> in use
    Value,      \* the values given to them
    Files,      \* the contents mf_config.ini may have: sequences of lines
    Missing,    \* no file that fopen() could open
    NoValue,    \* no such key: mfp_get_value() leaves the buffer alone
    PoolCap     \* bound: pools and references are counted up to PoolCap

SectionLine(s) == [kind |-> "section", name |-> s, value |-> NoValue]
Assignment(n, v) == [kind |-> "assignment", name |-> n, value |-> v]
Malformed == [kind |-> "malformed", name |-> NoValue, value |-> NoValue]

Line == {SectionLine(s) : s \in Name} \cup {Assignment(n, v) : n \in Name, v \in Value}
            \cup {Malformed}

ASSUME ConfigAssumption ==
    /\ NoValue \notin Value
    /\ NoValue \notin Name
    /\ Key \subseteq Name \X Name
    /\ Files \subseteq Seq(Line)
    /\ Missing \notin Files
    /\ PoolCap \in Nat \ {0}

VARIABLES
    file,       \* mf_config.ini as it is on disk
    table,      \* contents of ht_config
    pool,       \* mp, the pool ht_config lives in
    stale,      \* live pools that mp pointed to before
    aprRefs,    \* apr_initialize() calls not undone by apr_terminate()
    opened,     \* what the parser reads: the file it opened
    at,         \* lines ini_parse() has consumed
    section     \* the section named last, NoValue for none

store == <<table, pool, stale, aprRefs>>
parser == <<opened, at, section>>

Table == [Key -> Value \cup {NoValue}]
EmptyTable == [k \in Key |-> NoValue]

StoreTypeOK ==
    /\ file \in Files \cup {Missing}
    /\ table \in Table
    /\ pool \in {"none", "live", "destroyed"}
    /\ stale \in 0 .. PoolCap
    /\ aprRefs \in 0 .. PoolCap
    /\ opened \in Files \cup {Missing}
    /\ at \in Nat
    /\ section \in Name \cup {NoValue}

StoreInit ==
    /\ file \in Files \cup {Missing}
    /\ table = EmptyTable
    /\ pool = "none"
    /\ stale = 0
    /\ aprRefs = 0
    /\ opened = Missing
    /\ at = 0
    /\ section = NoValue

-----------------------------------------------------------------------------
(* Operations *)

\* ht_initialized is set by the first parse and never reset.
Initialized == pool # "none"

UpTo(n) == IF n > PoolCap THEN PoolCap ELSE n

\* Fault: the hash table is made once and used again.
ParseBegin_KeepsTable(f) ==
    /\ aprRefs' = UpTo(aprRefs + 1)
    /\ pool' = "live"
    /\ opened' = f
    /\ at' = 0
    /\ section' = NoValue
    /\ UNCHANGED <<file, table, stale>>

\* mfp_parse() up to ini_parse(), whose fopen() finds f: a new pool and an empty
\* table replace the old ones, which nothing releases.
ParseBegin(f) ==
    /\ aprRefs' = UpTo(aprRefs + 1)
    /\ stale' = UpTo(stale + (IF pool = "live" THEN 1 ELSE 0))
    /\ pool' = "live"
    /\ table' = EmptyTable
    /\ opened' = f
    /\ at' = 0
    /\ section' = NoValue
    /\ UNCHANGED file

\* What ini_parse() finds in a file.
Lines(f) == IF f = Missing THEN << >> ELSE f

\* mfp_set_value(): the last assignment to a key wins.
SetValue(k, v) == table' = IF Initialized THEN [table EXCEPT ![k] = v] ELSE table

\* One line: an assignment goes to handler_parser() with the section named last.
\* A malformed line changes nothing; if it was to name a section, the assignments
\* after it go to the section before.
ParseLine ==
    /\ at < Len(Lines(opened))
    /\ at' = at + 1
    /\ LET line == opened[at + 1]
       IN /\ section' = IF line.kind = "section" THEN line.name ELSE section
          /\ IF line.kind = "assignment"
                THEN SetValue(<<section, line.name>>, line.value)
                ELSE UNCHANGED table
    /\ UNCHANGED <<file, pool, stale, aprRefs, opened>>

ParseDone == at = Len(Lines(opened))

\* Fault: the result of ini_parse() is handed on.
ParseResult_Raw == IF opened = Missing THEN -1 ELSE 1

\* The return value of mfp_parse(): only a file that does not open is an error.
ParseResult == IF opened = Missing THEN 0 ELSE 1

\* mfp_get_value(): what the caller's buffer holds afterwards.
GetValue(k, buffer) == IF Initialized /\ table[k] # NoValue THEN table[k] ELSE buffer

\* mfp_get_data_filtered_by_value(): the keys of a section with that value.
KeysWithValue(s, v) ==
    IF Initialized THEN {k[2] : k \in {q \in Key : q[1] = s /\ table[q] = v}} ELSE {}

\* mfp_parse_clean() destroys the current pool and undoes one reference.
ParseClean ==
    /\ IF Initialized
          THEN pool' = "destroyed" /\ aprRefs' = aprRefs - 1
          ELSE UNCHANGED <<pool, aprRefs>>
    /\ UNCHANGED <<file, table, stale, parser>>

\* What a parse of the whole file leaves in the table (reference definition): the
\* section of a line is the one named last before it.
LastOf(lines) == CHOOSE i \in lines : \A j \in lines : j <= i
SectionAt(f, n) ==
    LET named == {i \in 1 .. n : f[i].kind = "section"}
    IN IF named = {} THEN NoValue ELSE f[LastOf(named)].name
Assigns(f, i, k) == f[i].kind = "assignment" /\ <<SectionAt(f, i), f[i].name>> = k

Content(f) ==
    [k \in Key |->
        LET assigned == {i \in 1 .. Len(f) : Assigns(f, i, k)}
        IN IF assigned = {} THEN NoValue
           ELSE f[LastOf(assigned)].value]
=============================================================================
