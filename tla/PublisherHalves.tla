-------------------------- MODULE PublisherHalves --------------------------
(***************************************************************************)
(* The two halves of publisher.c side by side.  A call of one has nothing  *)
(* in common with a call of the other but the global header list, which is *)
(* set up by the time a file is published: Init chooses which half is      *)
(* looked at.                                                              *)
(***************************************************************************)
EXTENDS Publisher, PublishFile

VARIABLE half   \* "requests" or "file"

HalvesInit ==
    /\ Init /\ FileInit
    /\ half \in {"requests", "file"}
    /\ half = "requests" => lines = << >>

RequestStep == half = "requests" /\ Next /\ UNCHANGED <<half, fileVars>>
FileStep == half = "file" /\ FileNext /\ UNCHANGED <<half, vars>>

HalvesSpec == HalvesInit /\ [][RequestStep \/ FileStep]_<<half, vars, fileVars>>

-----------------------------------------------------------------------------

\* The variables of both halves have their types: a string that query_json() reads
\* is made of whole chunks, and publish_file() stays within the file and the batch.
HalvesTypeOK == TypeOK /\ FileTypeOK
=============================================================================
