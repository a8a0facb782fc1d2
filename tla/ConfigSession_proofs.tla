------------------------ MODULE ConfigSession_proofs ------------------------
(***************************************************************************)
(* Proofs about ConfigSession, for every set of files and any number of    *)
(* parses and edits: the invariant of the store, and what ties the results *)
(* of mfp_parse() to what the table shows.                                 *)
(***************************************************************************)
EXTENDS ConfigSession, ConfigStore_proofs

\* A parse that returned has consumed its file; its result says whether the
\* file could be opened.
ResultMatches ==
    client = "ready" =>
        /\ ParseDone
        /\ result = 1 => opened # Missing /\ pool = "live"

IInv ==
    /\ TypeOK
    /\ StoreInv
    /\ client # "cleaned" => pool # "destroyed"
    /\ client = "parsing" => pool = "live"
    /\ ResultMatches

-----------------------------------------------------------------------------

\* Before the first call nothing is parsed and the pool does not exist.
LEMMA InitInv == Init => IInv
<1> SUFFICES ASSUME Init PROVE IInv
  OBVIOUS
<1>1. StoreInv
  BY StoreInitInv DEF Init
<1>2. TypeOK
  BY <1>1, SessionAssumption DEF Init, TypeOK, StoreInv
<1>3. Len(Lines(opened)) = 0
  BY DEF Init, StoreInit, Lines
<1> QED
  BY <1>1, <1>2, <1>3 DEF IInv, ResultMatches, ParseDone, Init, StoreInit

\* Every call of the client, and every edit of the file, keeps the invariant.
LEMMA NextInv == IInv /\ [Next]_vars => IInv'
<1> SUFFICES ASSUME IInv, [Next]_vars PROVE IInv'
  OBVIOUS
<1>1. CASE CallParse
  <2>1. StoreInv'
    BY <1>1, ParseBeginInv DEF IInv, StoreInv, StoreTypeOK, CallParse
  <2>2. TypeOK'
    BY <1>1, <2>1, SessionAssumption DEF IInv, TypeOK, StoreInv, CallParse
  <2> QED
    BY <1>1, <2>1, <2>2 DEF IInv, ResultMatches, CallParse, ParseBegin
<1>2. CASE ParseNextLine
  <2>1. StoreInv'
    BY <1>2, ParseLineInv DEF IInv, ParseNextLine
  <2>2. TypeOK'
    BY <1>2, <2>1 DEF IInv, TypeOK, StoreInv, ParseNextLine
  <2> QED
    BY <1>2, <2>1, <2>2 DEF IInv, ResultMatches, ParseNextLine, ParseLine
<1>3. CASE ReturnFromParse
  <2>1. StoreInv'
    BY <1>3 DEF IInv, StoreInv, StoreTypeOK, ReturnFromParse, store, parser
  <2>2. TypeOK'
    BY <1>3, <2>1 DEF IInv, TypeOK, StoreInv, ReturnFromParse, ParseResult
  <2>3. ResultMatches'
    BY <1>3 DEF IInv, ResultMatches, ReturnFromParse, ParseResult, ParseDone,
                store, parser
  <2> QED
    BY <1>3, <2>1, <2>2, <2>3 DEF IInv, ReturnFromParse, store
<1>4. CASE Clean
  <2>1. StoreInv'
    BY <1>4, ParseCleanInv DEF IInv, Clean
  <2>2. TypeOK'
    BY <1>4, <2>1 DEF IInv, TypeOK, StoreInv, Clean
  <2> QED
    BY <1>4, <2>1, <2>2 DEF IInv, ResultMatches, Clean
<1>5. CASE EditFile
  <2>1. StoreInv'
    BY <1>5, EditInv DEF IInv, EditFile
  <2>2. TypeOK'
    BY <1>5, <2>1, SessionAssumption DEF IInv, TypeOK, StoreInv, EditFile
  <2> QED
    BY <1>5, <2>1, <2>2 DEF IInv, ResultMatches, ParseDone, EditFile, store, parser
<1>6. CASE UNCHANGED vars
  BY <1>6 DEF IInv, TypeOK, StoreInv, StoreTypeOK, ResultMatches, ParseDone,
              vars, store, parser
<1> QED
  BY <1>1, <1>2, <1>3, <1>4, <1>5, <1>6 DEF Next

\* The inductive invariant of a session.
THEOREM SessionInvariant == Spec => []IInv
<1> QED
  BY InitInv, NextInv, PTL DEF Spec

\* The store of a client that calls mf_parser.c in any order keeps its types,
\* whatever it parses: the pool reference is never undone twice.
THEOREM SessionTypeCorrect == Spec => []TypeOK
<1>1. IInv => TypeOK
  BY DEF IInv
<1> QED
  BY <1>1, SessionInvariant, PTL

\* mfp_get_value() and mfp_get_data_filtered_by_value() answer from the file
\* of the last parse that returned 1, and from nothing else, for every file.
THEOREM LookupsCorrect == Spec => []LookupsShowFile
<1>1. IInv => LookupsShowFile
  <2> SUFFICES ASSUME IInv, client = "ready", result = 1
               PROVE  LET shown == Content(opened)
                      IN /\ \A k \in Key : GetValue(k, NoValue) = shown[k]
                         /\ \A k \in Key, v \in Value :
                                k[2] \in KeysWithValue(k[1], v) <=> shown[k] = v
    BY DEF LookupsShowFile
  <2>1. opened \in Files /\ pool = "live" /\ ParseDone
    BY DEF IInv, ResultMatches, TypeOK, StoreTypeOK
  <2>2. table = Content(opened)
    BY <2>1, ParsedContent DEF IInv
  <2>3. \A k \in Key : GetValue(k, NoValue) = table[k]
    BY <2>1 DEF GetValue, Initialized
  <2>4. ASSUME NEW k \in Key, NEW v \in Value
        PROVE  k[2] \in KeysWithValue(k[1], v) <=> table[k] = v
    <3>1. \A q \in Key : q[1] = k[1] /\ q[2] = k[2] => q = k
      BY ConfigAssumption
    <3> QED
      BY <2>1, <3>1, Zenon DEF KeysWithValue, Initialized
  <2> QED
    BY <2>2, <2>3, <2>4
<1> QED
  BY <1>1, SessionInvariant, PTL
=============================================================================
