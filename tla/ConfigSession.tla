--------------------------- MODULE ConfigSession ---------------------------
(***************************************************************************)
(* One client of mf_parser.c on one thread: it parses mf_config.ini, looks *)
(* values up, parses the file again whenever it likes, and cleans up once  *)
(* before it ends.  The file changes at any time.                          *)
(***************************************************************************)
EXTENDS ConfigStore

CONSTANTS
    MaxParses,  \* bound: calls of mfp_parse()
    MaxEdits    \* bound: changes of the file

ASSUME SessionAssumption == MaxParses \in Nat /\ MaxEdits \in Nat

VARIABLES
    client,     \* "ready", "parsing" (inside mfp_parse()) or "cleaned"
    result,     \* what the last mfp_parse() returned
    parses,
    edits

vars == <<file, store, parser, client, result, parses, edits>>

TypeOK ==
    /\ StoreTypeOK
    /\ client \in {"ready", "parsing", "cleaned"}
    /\ result \in {0, 1}
    /\ parses \in 0 .. MaxParses
    /\ edits \in 0 .. MaxEdits

Init ==
    /\ StoreInit
    /\ client = "ready"
    /\ result = 0
    /\ parses = 0
    /\ edits = 0

CallParse ==
    /\ client = "ready"
    /\ parses < MaxParses
    /\ client' = "parsing"
    /\ parses' = parses + 1
    /\ ParseBegin(file)
    /\ UNCHANGED <<result, edits>>

ParseNextLine ==
    /\ client = "parsing"
    /\ ParseLine
    /\ UNCHANGED <<client, result, parses, edits>>

ReturnFromParse ==
    /\ client = "parsing"
    /\ ParseDone
    /\ client' = "ready"
    /\ result' = ParseResult
    /\ UNCHANGED <<file, store, parser, parses, edits>>

Clean ==
    /\ client = "ready"
    /\ client' = "cleaned"
    /\ ParseClean
    /\ UNCHANGED <<result, parses, edits>>

EditFile ==
    /\ edits < MaxEdits
    /\ edits' = edits + 1
    /\ file' \in (Files \cup {Missing}) \ {file}
    /\ UNCHANGED <<store, parser, client, result, parses>>

Next == CallParse \/ ParseNextLine \/ ReturnFromParse \/ Clean \/ EditFile

Spec == Init /\ [][Next]_vars

-----------------------------------------------------------------------------
(* Properties *)

\* After mfp_parse() has returned 1 every lookup answers from the file it
\* opened and from nothing else: no value of an earlier file is left, the last
\* of several assignments counts, an edit during the parse does not show, the
\* keys after a section line that cannot be used are in the section before, and
\* a plug-in that asks for the keys switched on in its section
\* (mfp_get_data_filtered_by_value()) gets none of another section.
LookupsShowFile ==
    client = "ready" /\ result = 1 =>
        LET shown == Content(opened)
        IN /\ \A k \in Key : GetValue(k, NoValue) = shown[k]
           /\ \A k \in Key, v \in Value : k[2] \in KeysWithValue(k[1], v) <=> shown[k] = v
=============================================================================
