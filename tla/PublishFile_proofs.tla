------------------------- MODULE PublishFile_proofs -------------------------
(***************************************************************************)
(* Proofs about PublishFile, for files of any length, any number of lines  *)
(* in a message and any lengths of lines.                                  *)
(***************************************************************************)
EXTENDS PublisherHalves, Publisher_proofs, SequenceTheorems, TLAPS

\* i counts the records in the message, which is full at Batch.
CountInv ==
    /\ i = Len(message)
    /\ where = "call" => i = 0
    /\ where = "read" => i < Batch
    /\ where = "tail" => read = Len(lines)

\* What was sent is a prefix of the file, and the message continues it until the
\* last one has been sent.
SentInv ==
    /\ sent = UpTo(Len(sent))
    /\ where \in {"call", "read", "full", "tail"} => sent \o message = UpTo(read)
    /\ where = "success" => sent = UpTo(Len(lines))

\* A message that the server does not keep costs at most Batch lines.
LossInv == stored <= Len(sent) /\ Len(sent) <= stored + Batch * lost

\* Each of Batch records may use an equal share of what the "]" and the NUL leave.
Fits == \A l \in LineLen : Batch * (StaticLen + l + 5) + 2 <= BufferSize
SpaceInv ==
    Fits => /\ used < BufferSize
            /\ where = "call" => used = 0
            /\ where = "read" => Batch * used <= i * (BufferSize - 2)

FileInv == FileTypeOK /\ CountInv /\ SentInv /\ LossInv /\ SpaceInv

-----------------------------------------------------------------------------
(* Runs of line numbers *)

\* UpTo(n) is a sequence of n numbers.
LEMMA UpToType ==
    ASSUME NEW n \in Nat
    PROVE  UpTo(n) \in Seq(Nat) /\ Len(UpTo(n)) = n
BY DEF UpTo

\* The next line number continues it.
LEMMA UpToAppend ==
    ASSUME NEW n \in Nat
    PROVE  Append(UpTo(n), n + 1) = UpTo(n + 1)
<1>1. UpTo(n) \in Seq(Nat) /\ Len(UpTo(n)) = n
  BY UpToType
<1>2. UpTo(n + 1) \in Seq(Nat) /\ Len(UpTo(n + 1)) = n + 1
  BY UpToType
<1>3. /\ Append(UpTo(n), n + 1) \in Seq(Nat)
      /\ Len(Append(UpTo(n), n + 1)) = n + 1
  BY <1>1
<1>4. ASSUME NEW k \in 1 .. n + 1
      PROVE  Append(UpTo(n), n + 1)[k] = UpTo(n + 1)[k]
  <2>1. UpTo(n + 1)[k] = k
    BY DEF UpTo
  <2>2. CASE k = n + 1
    <3>1. Append(UpTo(n), n + 1)[Len(UpTo(n)) + 1] = n + 1
      BY <1>1, AppendProperties
    <3> QED
      BY <1>1, <2>1, <2>2, <3>1
  <2>3. CASE k \in 1 .. n
    BY <1>1, <2>1, <2>3 DEF UpTo
  <2>4. k = n + 1 \/ k \in 1 .. n
    OBVIOUS
  <2> QED
    BY <2>2, <2>3, <2>4, Zenon
<1> QED
  BY <1>2, <1>3, <1>4, SeqEqual

\* Appending to the message appends to what was read.
LEMMA ConcatAppend ==
    ASSUME NEW s \in Seq(Nat), NEW t \in Seq(Nat), NEW e \in Nat
    PROVE  s \o Append(t, e) = Append(s \o t, e)
BY AppendProperties, ConcatProperties

-----------------------------------------------------------------------------
(* The space a message takes *)

\* One more record takes one more share.
LEMMA Share ==
    ASSUME NEW n \in Nat, NEW u \in Nat, NEW r \in Nat, NEW k \in Nat, NEW b \in Int,
           n * u <= k * b, n * r <= b
    PROVE  n * (u + r) <= (k + 1) * b
<1>1. n * (u + r) = n * u + n * r /\ (k + 1) * b = k * b + b
  OBVIOUS
<1>2. n * u \in Int /\ n * r \in Int /\ k * b \in Int
  OBVIOUS
<1> QED
  BY <1>1, <1>2

\* At most Batch shares are no more than the whole.
LEMMA Shares ==
    ASSUME NEW n \in Nat \ {0}, NEW u \in Nat, NEW k \in 0 .. n, NEW b \in Int,
           k # 0, n * u <= k * b
    PROVE  u <= b
<1>1. 0 <= n * u
  OBVIOUS
<1>2. 0 <= b
  <2> SUFFICES ASSUME b < 0 PROVE FALSE
    OBVIOUS
  <2>1. k * b < 0
    OBVIOUS
  <2> QED
    BY <1>1, <2>1
<1>3. k * b <= n * b
  BY <1>2
<1> SUFFICES ASSUME b + 1 <= u PROVE FALSE
  OBVIOUS
<1>4. n * (b + 1) <= n * u
  OBVIOUS
<1>5. n * (b + 1) = n * b + n
  OBVIOUS
<1>6. n * b \in Int /\ k * b \in Int /\ n * u \in Int
  OBVIOUS
<1> QED
  BY <1>3, <1>4, <1>5, <1>6

-----------------------------------------------------------------------------
(* One lemma for each part of the invariant *)

\* Before the file is opened.
LEMMA FileInitInv == FileInit => FileInv
<1> SUFFICES ASSUME FileInit PROVE FileInv
  OBVIOUS
<1>1. lines \in Seq(LineLen) /\ Len(lines) \in Nat
  <2>1. PICK n \in 0 .. MaxLines : lines \in [1 .. n -> LineLen]
    BY DEF FileInit
  <2>2. n \in Nat
    BY <2>1, FileAssumption
  <2> QED
    BY <2>1, <2>2
<1>2. << >> \in Seq(Nat) /\ UpTo(0) = << >> /\ Len(<< >>) = 0 /\ << >> \o << >> = << >>
  <2>1. UpTo(0) = << >>
    BY UpToType
  <2> QED
    BY <2>1
<1>3. FileTypeOK
  <2>1. 0 \in 0 .. Len(lines) /\ 0 \in 0 .. Batch
    BY <1>1, FileAssumption
  <2> QED
    BY <1>1, <1>2, <2>1 DEF FileInit, FileTypeOK
<1>4. CountInv /\ SentInv /\ LossInv
  <2>1. Batch * 0 = 0
    BY FileAssumption
  <2> QED
    BY <1>2, <2>1, FileAssumption DEF FileInit, CountInv, SentInv, LossInv
<1>5. SpaceInv
  BY FileAssumption DEF FileInit, SpaceInv
<1> QED
  BY <1>3, <1>4, <1>5 DEF FileInv

\* One more message that is lost costs one more share of Batch.
LEMMA OneMoreLost ==
    ASSUME NEW n \in Nat, NEW k \in Nat, NEW l \in Nat, NEW st \in Nat, NEW m \in 0 .. n,
           k <= st + n * l
    PROVE  k + m <= st + n * (l + 1)
<1>1. n * (l + 1) = n * l + n
  OBVIOUS
<1>2. n * l \in Nat
  OBVIOUS
<1> QED
  BY <1>1, <1>2

\* A message given to libcurl makes the lines that were read the lines sent; the
\* server keeps it, or loses one more message.
LEMMA Sent ==
    ASSUME FileInv, where \in {"full", "tail"}, Perform
    PROVE  /\ sent' = UpTo(read) /\ sent' \in Seq(Nat) /\ Len(sent') = read
           /\ stored' \in Nat /\ lost' \in Nat
           /\ LossInv'
<1>1. sent' = UpTo(read) /\ read \in Nat
  BY DEF FileInv, FileTypeOK, SentInv, Perform
<1>2. sent' \in Seq(Nat) /\ Len(sent') = read
  BY <1>1, UpToType
<1>3. /\ sent \in Seq(Nat) /\ message \in Seq(Nat) /\ Len(message) \in 0 .. Batch
      /\ stored \in Nat /\ lost \in Nat /\ Batch \in Nat
  BY FileAssumption DEF FileInv, FileTypeOK, CountInv
<1>4. Len(sent') = Len(sent) + Len(message) /\ Len(sent) \in Nat
  BY <1>3 DEF Perform
<1>5. stored <= Len(sent) /\ Len(sent) <= stored + Batch * lost
  BY DEF FileInv, LossInv
<1>6. CASE stored' = stored + Len(message) /\ lost' = lost
  <2>1. Batch * lost \in Nat
    BY <1>3
  <2> QED
    BY <1>1, <1>2, <1>3, <1>4, <1>5, <1>6, <2>1 DEF LossInv
<1>7. CASE stored' = stored /\ lost' = lost + 1
  <2>1. Len(sent) + Len(message) <= stored + Batch * (lost + 1)
    BY <1>3, <1>4, <1>5, OneMoreLost
  <2>2. stored <= Len(sent) + Len(message)
    BY <1>3, <1>4, <1>5
  <2> QED
    BY <1>1, <1>2, <1>3, <1>4, <1>7, <2>1, <2>2 DEF LossInv
<1> QED
  BY <1>6, <1>7 DEF Perform

\* The record of the next line has a length that is counted for.
LEMMA NextRecord ==
    ASSUME lines \in Seq(LineLen), NEW n \in Nat, n < Len(lines)
    PROVE  /\ RecordLen(n + 1) \in Nat
           /\ \E l \in LineLen : RecordLen(n + 1) = StaticLen + l + 5
<1>1. n + 1 \in 1 .. Len(lines)
  OBVIOUS
<1>2. lines[n + 1] \in LineLen
  BY <1>1
<1>3. lines[n + 1] \in Nat /\ StaticLen \in Nat
  BY <1>2, FileAssumption
<1> QED
  BY <1>2, <1>3 DEF RecordLen

\* A line that is read is the next one of the message.
LEMMA FileTypeStep == FileInv /\ [FileNext]_fileVars => FileTypeOK' /\ CountInv'
<1> SUFFICES ASSUME FileInv, [FileNext]_fileVars PROVE FileTypeOK' /\ CountInv'
  OBVIOUS
<1>0. /\ where \in {"call", "read", "full", "tail", "success", "failed"}
      /\ lines \in Seq(LineLen) /\ Len(lines) \in Nat /\ read \in 0 .. Len(lines)
      /\ i \in 0 .. Batch /\ message \in Seq(Nat) /\ used \in Nat /\ sent \in Seq(Nat)
      /\ stored \in Nat /\ lost \in Nat /\ Batch \in Nat /\ Batch >= 2 /\ CountInv
  BY FileAssumption DEF FileInv, FileTypeOK
<1>b. handle \in BOOLEAN /\ opened \in BOOLEAN
  BY DEF FileInv, FileTypeOK
<1> USE DEF FileTypeOK, CountInv, traffic
<1>1. CASE UNCHANGED fileVars
  BY <1>0, <1>b, <1>1 DEF fileVars
<1>2. CASE Open \/ NoHandle \/ OpenFails
  <2>1. /\ where' \in {"read", "failed"}
        /\ handle' \in {TRUE, handle} /\ opened' \in {TRUE, opened}
        /\ UNCHANGED <<lines, read, i, message, used, traffic>>
    BY <1>2 DEF Open, NoHandle, OpenFails
  <2>2. CountInv'
    <3>1. where = "call" /\ i' = i /\ message' = message
      BY <1>2, <2>1 DEF Open, NoHandle, OpenFails
    <3>2. i' = Len(message') /\ i' = 0 /\ i' < Batch
      BY <1>0, <3>1
    <3> QED
      BY <2>1, <3>2
  <2>3. handle' \in BOOLEAN /\ opened' \in BOOLEAN
    BY <1>b, <2>1
  <2> QED
    BY <1>0, <2>1, <2>2, <2>3
<1>3. CASE CloseTail
  <2>1. /\ where' = "tail" /\ used' = used + 1 /\ read = Len(lines)
        /\ UNCHANGED <<lines, read, i, message, traffic, handle, opened>>
    BY <1>3 DEF CloseTail
  <2>2. CountInv' /\ used' \in Nat
    BY <1>0, <2>1
  <2> QED
    BY <1>0, <1>b, <2>1, <2>2
<1>8. CASE NothingLeft
  BY <1>0, <1>b, <1>8 DEF NothingLeft
<1>4. CASE ReadLine
  <2>1. /\ read' = read + 1 /\ message' = Append(message, read + 1) /\ i' = i + 1
        /\ UNCHANGED <<lines, traffic, handle, opened>>
        /\ where = "read" /\ read < Len(lines) /\ i < Batch
        /\ where' = IF i = Batch - 1 THEN "full" ELSE "read"
    BY <1>0, <1>4 DEF ReadLine
  <2>2. /\ message' \in Seq(Nat) /\ Len(message') = Len(message) + 1
    BY <1>0, <2>1
  <2>3. used' \in Nat
    <3>1. RecordLen(read + 1) \in Nat
      BY <1>0, <2>1, NextRecord
    <3> QED
      BY <1>0, <1>4, <3>1 DEF ReadLine
  <2>4. CountInv' /\ i' \in 0 .. Batch /\ read' \in 0 .. Len(lines')
    BY <1>0, <2>1, <2>2
  <2> QED
    BY <1>0, <1>b, <2>1, <2>2, <2>3, <2>4
<1>5. CASE SendFull
  <2>1. sent' \in Seq(Nat) /\ stored' \in Nat /\ lost' \in Nat
    BY <1>5, Sent DEF SendFull
  <2> QED
    BY <1>0, <1>b, <1>5, <2>1 DEF SendFull
<1>6. CASE SendTail
  <2>1. sent' \in Seq(Nat) /\ stored' \in Nat /\ lost' \in Nat
    BY <1>6, Sent DEF SendTail
  <2> QED
    BY <1>0, <1>b, <1>6, <2>1 DEF SendTail
<1>7. CASE SendFails
  <2>1. sent' \in Seq(Nat) /\ stored' \in Nat /\ lost' \in Nat
    BY <1>7, Sent DEF SendFails
  <2> QED
    BY <1>0, <1>b, <1>7, <2>1 DEF SendFails
<1> QED
  BY <1>1, <1>2, <1>3, <1>4, <1>5, <1>6, <1>7, <1>8 DEF FileNext

\* No line is lost, repeated or swapped where one message ends and the next begins.
LEMMA SentStep == FileInv /\ [FileNext]_fileVars => SentInv'
<1> SUFFICES ASSUME FileInv, [FileNext]_fileVars PROVE SentInv'
  OBVIOUS
<1>0. /\ Len(lines) \in Nat /\ read \in Nat /\ message \in Seq(Nat) /\ sent \in Seq(Nat)
      /\ i = Len(message) /\ (where = "tail" => read = Len(lines))
      /\ SentInv
  BY DEF FileInv, FileTypeOK, CountInv
<1> USE DEF SentInv, traffic
<1>1. CASE UNCHANGED fileVars
  BY <1>0, <1>1 DEF fileVars, UpTo
<1>2. CASE Open \/ NoHandle \/ OpenFails \/ CloseTail
  BY <1>0, <1>2 DEF Open, NoHandle, OpenFails, CloseTail, UpTo
<1>3. CASE ReadLine
  <2>1. /\ where = "read" /\ where' \in {"read", "full"} /\ read' = read + 1
        /\ message' = Append(message, read + 1) /\ UNCHANGED <<lines, sent>>
    BY <1>3 DEF ReadLine
  <2>2. sent \o Append(message, read + 1) = Append(sent \o message, read + 1)
    BY <1>0, ConcatAppend
  <2>3. sent \o message = UpTo(read)
    BY <1>0, <2>1
  <2>4. sent' \o message' = UpTo(read')
    BY <1>0, <2>1, <2>2, <2>3, UpToAppend
  <2>5. sent' = UpTo(Len(sent'))
    BY <1>0, <2>1 DEF UpTo
  <2> QED
    BY <2>1, <2>4, <2>5
<1>4. CASE SendFull
  <2>1. /\ sent' = UpTo(read) /\ sent' \in Seq(Nat) /\ Len(sent') = read
    BY <1>4, Sent DEF SendFull
  <2>2. message' = << >> /\ read' = read /\ where' = "read"
    BY <1>4 DEF SendFull
  <2>3. sent' \o message' = sent'
    BY <2>1, <2>2
  <2> QED
    BY <2>1, <2>2, <2>3
<1>5. CASE SendTail
  <2>1. /\ sent' = UpTo(read) /\ Len(sent') = read
    BY <1>5, Sent DEF SendTail
  <2>2. read = Len(lines') /\ where' = "success"
    BY <1>0, <1>5 DEF SendTail
  <2> QED
    BY <2>1, <2>2
<1>6. CASE NothingLeft
  <2>1. /\ where = "read" /\ where' = "success" /\ read = Len(lines) /\ i = 0
        /\ UNCHANGED <<lines, sent>>
    BY <1>6 DEF NothingLeft
  <2>2. message = << >>
    BY <1>0, <2>1, EmptySeq
  <2>3. sent = UpTo(Len(lines))
    BY <1>0, <2>1, <2>2
  <2>4. sent' = UpTo(Len(sent')) /\ sent' = UpTo(Len(lines'))
    BY <1>0, <2>1, <2>3 DEF UpTo
  <2> QED
    BY <2>1, <2>4
<1>7. CASE SendFails
  <2>1. where' = "failed" /\ where \in {"full", "tail"}
    BY <1>7 DEF SendFails
  <2>2. sent' = UpTo(Len(sent'))
    BY <1>7, Sent DEF SendFails
  <2> QED
    BY <2>1, <2>2
<1> QED
  BY <1>1, <1>2, <1>3, <1>4, <1>5, <1>6, <1>7 DEF FileNext

\* A message that is not kept holds at most Batch lines.
LEMMA LossStep == FileInv /\ [FileNext]_fileVars => LossInv'
<1> SUFFICES ASSUME FileInv, [FileNext]_fileVars PROVE LossInv'
  OBVIOUS
<1>1. CASE UNCHANGED traffic
  BY <1>1 DEF FileInv, LossInv, traffic
<1>2. CASE SendFull \/ SendTail \/ SendFails
  BY <1>2, Sent DEF SendFull, SendTail, SendFails
<1>3. CASE UNCHANGED fileVars
  BY <1>1, <1>3 DEF fileVars
<1> QED
  BY <1>1, <1>2, <1>3
      DEF FileNext, Open, NoHandle, OpenFails, ReadLine, CloseTail, NothingLeft

\* Every record takes at most its share of the message buffer.
LEMMA SpaceStep == FileInv /\ [FileNext]_fileVars => SpaceInv'
<1> SUFFICES ASSUME FileInv, [FileNext]_fileVars, Fits PROVE SpaceInv'
  BY DEF SpaceInv, Fits
<1> DEFINE b == BufferSize - 2
<1>0. /\ lines \in Seq(LineLen) /\ read \in 0 .. Len(lines) /\ Len(lines) \in Nat
      /\ i \in 0 .. Batch /\ used \in Nat
      /\ Batch \in Nat \ {0} /\ BufferSize \in Nat \ {0} /\ b \in Int
      /\ used < BufferSize
      /\ where = "call" => used = 0
      /\ where = "read" => Batch * used <= i * b
      /\ where = "call" => i = 0
      /\ where = "read" => i < Batch
  BY FileAssumption DEF FileInv, FileTypeOK, CountInv, SpaceInv
<1> USE DEF SpaceInv
<1>1. CASE UNCHANGED fileVars
  BY <1>0, <1>1 DEF fileVars
<1>2. CASE Open
  <2>1. i = 0 /\ used = 0 /\ Batch * 0 <= 0 * b
    BY <1>0, <1>2 DEF Open
  <2> QED
    BY <1>0, <1>2, <2>1 DEF Open
<1>3. CASE ReadLine
  <2> DEFINE r == RecordLen(read + 1)
  <2>1. /\ where = "read" /\ read < Len(lines) /\ i' = i + 1
        /\ IF i = Batch - 1 THEN where' = "full" /\ used' = used + r + 1
                            ELSE where' = "read" /\ used' = used + r
    BY <1>3 DEF ReadLine
  <2>2. r \in Nat /\ Batch * r <= b
    <3>1. read \in Nat
      BY <1>0
    <3>2. r \in Nat
      BY <1>0, <2>1, <3>1, NextRecord
    <3>3. PICK l \in LineLen : r = StaticLen + l + 5
      BY <1>0, <2>1, <3>1, NextRecord
    <3>4. Batch * r + 2 <= BufferSize
      BY <3>3 DEF Fits
    <3>5. Batch * r \in Nat
      BY <1>0, <3>2
    <3> QED
      BY <1>0, <3>2, <3>4, <3>5
  <2> HIDE DEF r, b
  <2>3. Batch * (used + r) <= (i + 1) * b
    BY <1>0, <2>1, <2>2, Share
  <2>4. used + r <= b
    <3>1. i + 1 \in 0 .. Batch /\ i + 1 # 0 /\ used + r \in Nat
      BY <1>0, <2>1, <2>2
    <3> QED
      BY <1>0, <2>3, <3>1, Shares
  <2>5. used + r + 1 < BufferSize /\ used + r < BufferSize
    BY <1>0, <2>2, <2>4 DEF b
  <2> QED
    BY <2>1, <2>3, <2>5 DEF b
<1>4. CASE SendFull
  BY <1>0, <1>4 DEF SendFull
<1>5. CASE CloseTail
  <2>1. used <= b
    <3>1. i # 0 /\ Batch * used <= i * b
      BY <1>0, <1>5 DEF CloseTail
    <3> QED
      BY <1>0, <3>1, Shares
  <2>2. used + 1 < BufferSize
    BY <1>0, <2>1
  <2> QED
    BY <2>2, <1>5 DEF CloseTail
<1>6. CASE NoHandle \/ OpenFails \/ SendTail \/ NothingLeft \/ SendFails
  BY <1>0, <1>6 DEF NoHandle, OpenFails, SendTail, NothingLeft, SendFails
<1> QED
  BY <1>1, <1>2, <1>3, <1>4, <1>5, <1>6 DEF FileNext

-----------------------------------------------------------------------------
(* The theorems *)

\* The invariant that the others are parts of.
THEOREM FileInvariant == FileSpec => []FileInv
<1>1. FileInv /\ [FileNext]_fileVars => FileInv'
  BY FileTypeStep, SentStep, LossStep, SpaceStep DEF FileInv
<1> QED
  BY FileInitInv, <1>1, PTL DEF FileSpec

\* Every variable of publish_file() keeps its type.
THEOREM FileTypeCorrect == FileSpec => []FileTypeOK
<1>1. FileInv => FileTypeOK
  BY DEF FileInv
<1> QED
  BY FileInvariant, <1>1, PTL

\* publish_file() sends a prefix of the file, and the whole of it when it reports
\* success, for any file and any number of lines in a message; what the server does
\* not keep of it is at most Batch lines for each message it refused or that failed.
THEOREM SentCorrect == FileSpec => []LinesAreSentOnce
<1>1. FileInv => LinesAreSentOnce
  <2>1. Len(lines) \in Nat /\ FileInv => Len(UpTo(Len(lines))) = Len(lines)
    BY UpToType
  <2>2. FileInv => Len(lines) \in Nat
    BY DEF FileInv, FileTypeOK
  <2> QED
    BY <2>1, <2>2 DEF FileInv, SentInv, LossInv, LinesAreSentOnce
<1> QED
  BY FileInvariant, <1>1, PTL

\* Where one message ends and the next one begins no line falls out.
THEOREM FileIsCutWithoutGaps == FileSpec => []NothingSkipped
<1>1. FileInv => NothingSkipped
  BY DEF FileInv, SentInv, NothingSkipped
<1> QED
  BY FileInvariant, <1>1, PTL

\* Records of at most their share of the message buffer do not overflow it.
THEOREM MessageFits == FileSpec => []RecordsFit
<1>1. FileInv => RecordsFit
  BY DEF FileInv, SpaceInv, RecordsFit, Fits
<1> QED
  BY FileInvariant, <1>1, PTL

-----------------------------------------------------------------------------
(* The two halves of publisher.c *)

\* Either half does what its module says, so that all theorems about the requests
\* and about publish_file() are theorems about the two side by side.
THEOREM HalvesImplement == HalvesSpec => Spec /\ FileSpec
<1>1. HalvesInit => Init /\ FileInit
  BY DEF HalvesInit
<1>2. ASSUME [RequestStep \/ FileStep]_<<half, vars, fileVars>>
      PROVE  [Next]_vars /\ [FileNext]_fileVars
  <2>1. CASE RequestStep
    BY <2>1 DEF RequestStep
  <2>2. CASE FileStep
    BY <2>2 DEF FileStep
  <2>3. CASE UNCHANGED <<half, vars, fileVars>>
    BY <2>3
  <2> QED
    BY <1>2, <2>1, <2>2, <2>3
<1> QED
  BY <1>1, <1>2, PTL DEF HalvesSpec, Spec, FileSpec

\* All variables of publisher.c keep their types, whichever half runs.
THEOREM HalvesTypeCorrect == HalvesSpec => []HalvesTypeOK
<1>1. TypeOK /\ FileTypeOK => HalvesTypeOK
  BY DEF HalvesTypeOK
<1> QED
  BY <1>1, HalvesImplement, PublisherTypeCorrect, FileTypeCorrect, PTL
=============================================================================
