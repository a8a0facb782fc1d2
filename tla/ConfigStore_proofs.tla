------------------------- MODULE ConfigStore_proofs -------------------------
(***************************************************************************)
(* Facts about the configuration store that hold for every set of files,   *)
(* whoever parses them: what each operation does to the invariant StoreInv.*)
(***************************************************************************)
EXTENDS ConfigStore, TLAPS

\* What the first n lines of f leave in the table: the last one that assigns
\* to a key counts.
Assigned(f, n, k) == {i \in 1 .. n : Assigns(f, i, k)}
ContentUpTo(f, n) ==
    [k \in Key |->
        IF Assigned(f, n, k) = {} THEN NoValue ELSE f[LastOf(Assigned(f, n, k))].value]

\* The table and the section show the lines consumed so far and nothing else; a
\* pool that is in use accounts for a call of apr_initialize().
StoreInv ==
    /\ StoreTypeOK
    /\ at <= Len(Lines(opened))
    /\ table = ContentUpTo(Lines(opened), at)
    /\ section = SectionAt(Lines(opened), at)
    /\ pool = "none" => opened = Missing
    /\ pool = "live" => aprRefs >= 1

-----------------------------------------------------------------------------

\* What ini_parse() reads is a sequence of lines, none when there is no file.
LEMMA LinesType == ASSUME NEW f \in Files \cup {Missing} PROVE Lines(f) \in Seq(Line)
  BY ConfigAssumption DEF Lines

\* All the lines of a file leave its content.
LEMMA WholeContent == \A f : Content(f) = ContentUpTo(f, Len(f))
  BY DEF Content, ContentUpTo, Assigned, LastOf

\* No line leaves the empty table of mfp_parse() and no section.
LEMMA NoContent == \A f : ContentUpTo(f, 0) = EmptyTable /\ SectionAt(f, 0) = NoValue
<1>1. \A f, k : Assigned(f, 0, k) = {}
  BY DEF Assigned
<1>2. \A f : {i \in 1 .. 0 : f[i].kind = "section"} = {}
  OBVIOUS
<1> QED
  BY <1>1, <1>2 DEF ContentUpTo, EmptyTable, SectionAt

\* What a line has, by its kind.
LEMMA LineFields ==
    ASSUME NEW line \in Line
    PROVE  /\ line.kind = "section" => line.name \in Name
           /\ line.kind = "assignment" => line.name \in Name /\ line.value \in Value
  BY DEF Line, SectionLine, Assignment, Malformed

\* The largest number of a set is its last line.
LEMMA LastIs ==
    ASSUME NEW n \in Nat, NEW lines \in SUBSET (1 .. n + 1), n + 1 \in lines
    PROVE  LastOf(lines) = n + 1
<1>1. \A j \in lines : j \in Int /\ j <= n + 1
  OBVIOUS
<1>2. LastOf(lines) \in lines /\ \A j \in lines : j <= LastOf(lines)
  BY <1>1, Zenon DEF LastOf
<1> DEFINE last == LastOf(lines)
<1>3. last \in Int /\ last <= n + 1 /\ n + 1 <= last
  BY <1>1, <1>2
<1> HIDE DEF last
<1>4. last = n + 1
  BY <1>3
<1> QED
  BY <1>4 DEF last

\* One more line: it names the section, or the section stays.
LEMMA OneMoreSection ==
    ASSUME NEW f \in Seq(Line), NEW n \in Nat, n < Len(f)
    PROVE  SectionAt(f, n + 1) =
               IF f[n + 1].kind = "section" THEN f[n + 1].name ELSE SectionAt(f, n)
<1> DEFINE named(m) == {i \in 1 .. m : f[i].kind = "section"}
<1>1. CASE f[n + 1].kind = "section"
  <2>1. n + 1 \in named(n + 1) /\ named(n + 1) \in SUBSET (1 .. n + 1)
    BY <1>1
  <2>2. LastOf(named(n + 1)) = n + 1 /\ named(n + 1) # {}
    BY <2>1, LastIs
  <2>3. SectionAt(f, n + 1) = f[n + 1].name
    BY <2>2 DEF SectionAt
  <2> QED
    BY <1>1, <2>3
<1>2. CASE f[n + 1].kind # "section"
  <2>1. named(n + 1) = named(n)
    BY <1>2
  <2> QED
    BY <1>2, <2>1 DEF SectionAt
<1> QED
  BY <1>1, <1>2

\* One more line: the key it assigns to has its value, the others keep theirs.
LEMMA OneMoreLine ==
    ASSUME NEW f \in Seq(Line), NEW n \in Nat, n < Len(f)
    PROVE  ContentUpTo(f, n + 1) =
               IF f[n + 1].kind = "assignment"
               THEN [ContentUpTo(f, n) EXCEPT
                        ![<<SectionAt(f, n), f[n + 1].name>>] = f[n + 1].value]
               ELSE ContentUpTo(f, n)
<1> DEFINE line == f[n + 1]
           key == <<SectionAt(f, n), line.name>>
<1>0. line.kind = "assignment" => SectionAt(f, n + 1) = SectionAt(f, n)
  BY OneMoreSection
<1>1. \A k : n + 1 \in Assigned(f, n + 1, k) <=> line.kind = "assignment" /\ key = k
  BY <1>0 DEF Assigned, Assigns
<1>2. \A k : n + 1 \notin Assigned(f, n + 1, k) => Assigned(f, n + 1, k) = Assigned(f, n, k)
  BY DEF Assigned
<1>3. \A k \in Key : ~(line.kind = "assignment" /\ key = k) =>
            ContentUpTo(f, n + 1)[k] = ContentUpTo(f, n)[k]
  BY <1>1, <1>2 DEF ContentUpTo
<1>4. ASSUME line.kind = "assignment", key \in Key
      PROVE  ContentUpTo(f, n + 1)[key] = line.value
  <2>1. n + 1 \in Assigned(f, n + 1, key)
    BY <1>1, <1>4
  <2>2. Assigned(f, n + 1, key) \in SUBSET (1 .. n + 1)
    BY DEF Assigned
  <2>3. LastOf(Assigned(f, n + 1, key)) = n + 1 /\ Assigned(f, n + 1, key) # {}
    BY <2>1, <2>2, LastIs
  <2> QED
    BY <1>4, <2>3, Zenon DEF ContentUpTo
<1> HIDE DEF key, line
<1>5. CASE line.kind # "assignment"
  <2>1. \A k \in Key : ContentUpTo(f, n + 1)[k] = ContentUpTo(f, n)[k]
    BY <1>3, <1>5
  <2>2. ContentUpTo(f, n + 1) = ContentUpTo(f, n)
    BY <2>1 DEF ContentUpTo
  <2> QED
    BY <1>5, <2>2 DEF line, key
<1>6. CASE line.kind = "assignment"
  <2>1. ContentUpTo(f, n + 1) = [ContentUpTo(f, n) EXCEPT ![key] = line.value]
    BY <1>3, <1>4, <1>6 DEF ContentUpTo
  <2> QED
    BY <1>6, <2>1 DEF line, key
<1> QED
  BY <1>5, <1>6
-----------------------------------------------------------------------------

\* Before the first mfp_parse().
LEMMA StoreInitInv == StoreInit => StoreInv
<1> SUFFICES ASSUME StoreInit PROVE StoreInv
  OBVIOUS
<1>1. Lines(opened) = << >>
  BY DEF StoreInit, Lines
<1>2. table = ContentUpTo(Lines(opened), at) /\ section = SectionAt(Lines(opened), at)
  BY NoContent, Zenon DEF StoreInit
<1>3. StoreTypeOK
  BY ConfigAssumption DEF StoreInit, StoreTypeOK, EmptyTable, Table
<1> QED
  BY <1>1, <1>2, <1>3 DEF StoreInv, StoreInit

\* mfp_parse() up to ini_parse(): the new table shows no line.
LEMMA ParseBeginInv ==
    ASSUME StoreInv, NEW f \in Files \cup {Missing}, ParseBegin(f)
    PROVE  StoreInv'
<1>1. StoreTypeOK'
  BY ConfigAssumption DEF StoreInv, StoreTypeOK, ParseBegin, EmptyTable, Table, UpTo
<1>2. at' <= Len(Lines(opened'))
  <2>1. Lines(opened') \in Seq(Line)
    BY LinesType DEF ParseBegin
  <2> QED
    BY <2>1 DEF ParseBegin
<1>3. table' = ContentUpTo(Lines(opened'), at') /\ section' = SectionAt(Lines(opened'), at')
  BY NoContent, Zenon DEF ParseBegin
<1>4. (pool = "none" => opened = Missing)'
  BY DEF ParseBegin
<1>5. (pool = "live" => aprRefs >= 1)'
  BY ConfigAssumption DEF StoreInv, StoreTypeOK, ParseBegin, UpTo
<1>6. (Lines(opened))' = Lines(opened')
  BY DEF Lines
<1> QED
  BY <1>1, <1>2, <1>3, <1>4, <1>5, <1>6 DEF StoreInv, ContentUpTo, Assigned, Assigns, SectionAt

\* One line of the file.
LEMMA ParseLineInv == StoreInv /\ ParseLine => StoreInv'
<1> SUFFICES ASSUME StoreInv, ParseLine PROVE StoreInv'
  OBVIOUS
<1> DEFINE line == opened[at + 1]
<1>1. opened \in Files /\ opened = Lines(opened) /\ pool # "none"
  BY DEF StoreInv, StoreTypeOK, ParseLine, Lines
<1>2. opened \in Seq(Line) /\ at \in Nat /\ at < Len(opened)
  BY <1>1, ConfigAssumption DEF StoreInv, StoreTypeOK, ParseLine
<1>3. line \in Line
  BY <1>2
<1>4. table \in Table /\ table = ContentUpTo(opened, at) /\ section = SectionAt(opened, at)
  BY <1>1, Zenon DEF StoreInv, StoreTypeOK
<1>5. table' \in Table /\ table' = ContentUpTo(opened, at + 1)
  <2>1. CASE line.kind # "assignment"
    BY <1>2, <1>4, <2>1, OneMoreLine DEF ParseLine
  <2>2. CASE line.kind = "assignment"
    <3>1. line.value \in Value
      BY <1>3, <2>2, LineFields
    <3>2. table' = [table EXCEPT ![<<section, line.name>>] = line.value]
      BY <1>1, <2>2 DEF ParseLine, SetValue, Initialized
    <3>3. table' \in Table
      BY <1>4, <3>1, <3>2 DEF Table
    <3>4. table' = ContentUpTo(opened, at + 1)
      BY <1>2, <1>4, <2>2, <3>2, OneMoreLine
    <3> QED
      BY <3>3, <3>4
  <2> QED
    BY <2>1, <2>2
<1>6. /\ section' = SectionAt(opened, at + 1)
      /\ section' \in Name \cup {NoValue}
  <2>1. section' = IF line.kind = "section" THEN line.name ELSE section
    BY DEF ParseLine
  <2>2. section' = SectionAt(opened, at + 1)
    BY <1>2, <1>4, <2>1, OneMoreSection
  <2>3. section \in Name \cup {NoValue}
    BY DEF StoreInv, StoreTypeOK
  <2>4. line.kind = "section" => line.name \in Name
    BY <1>3, LineFields
  <2> QED
    BY <2>1, <2>2, <2>3, <2>4
<1>7. at' = at + 1 /\ UNCHANGED <<file, pool, stale, aprRefs, opened>>
  BY DEF ParseLine
<1>8. StoreTypeOK'
  BY <1>2, <1>5, <1>6, <1>7 DEF StoreInv, StoreTypeOK
<1>9. Lines(opened)' = opened'
  BY <1>1, <1>7 DEF Lines
<1> QED
  BY <1>1, <1>2, <1>5, <1>6, <1>7, <1>8, <1>9 DEF StoreInv

\* mfp_parse_clean(), called before the pool is destroyed.
LEMMA ParseCleanInv == StoreInv /\ pool # "destroyed" /\ ParseClean => StoreInv'
<1> SUFFICES ASSUME StoreInv, pool # "destroyed", ParseClean PROVE StoreInv'
  OBVIOUS
<1>1. UNCHANGED <<file, table, stale, opened, at, section>>
  BY DEF ParseClean, parser
<1>2. StoreTypeOK'
  BY <1>1, ConfigAssumption DEF StoreInv, StoreTypeOK, ParseClean, Initialized
<1> QED
  BY <1>1, <1>2 DEF StoreInv, ParseClean, Initialized

\* An edit of the file changes nothing that has been read.
LEMMA EditInv ==
    StoreInv /\ file' \in Files \cup {Missing} /\ UNCHANGED <<store, parser>> => StoreInv'
  BY DEF StoreInv, StoreTypeOK, store, parser

\* Once all lines are consumed the table is the content of a file that opened,
\* and empty without one.
LEMMA ParsedContent ==
    ASSUME StoreInv, ParseDone
    PROVE  /\ opened \in Files => table = Content(opened)
           /\ opened = Missing => table = EmptyTable
<1>1. table = ContentUpTo(Lines(opened), Len(Lines(opened)))
  BY DEF StoreInv, ParseDone
<1>2. table = Content(Lines(opened))
  BY <1>1, WholeContent
<1>3. opened \in Files => Lines(opened) = opened
  BY ConfigAssumption DEF Lines
<1>4. opened = Missing => table = EmptyTable
  BY <1>1, NoContent DEF Lines
<1> QED
  BY <1>2, <1>3, <1>4
=============================================================================
