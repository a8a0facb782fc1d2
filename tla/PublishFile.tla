---------------------------- MODULE PublishFile ----------------------------
(***************************************************************************)
(* publish_file() of publisher.c: a local data file is read line by line,  *)
(* ten lines at a time are put together in one message, and every message  *)
(* is sent on one libcurl handle.                                          *)
(*                                                                         *)
(* A line is its number and its length.  What matters of the text is which *)
(* lines a message holds, and how much of the message buffer they fill.    *)
(***************************************************************************)
EXTENDS Naturals, Sequences

CONSTANTS
    Batch,          \* lines of a full message: 10
    BufferSize,     \* size of the message buffer: 10 * 320
    StaticLen,      \* length of static_string, which starts every record
    LineLen,        \* lengths of lines, their newline not counted
    MaxLines        \* bound: lines of the file

ASSUME FileAssumption ==
    /\ Batch \in Nat /\ Batch >= 2
    /\ BufferSize \in Nat \ {0} /\ StaticLen \in Nat /\ MaxLines \in Nat
    /\ LineLen \subseteq Nat

VARIABLES
    where,      \* "call", "read", "full", "tail", "success" or "failed"
    lines,      \* the lengths of the lines of the file
    read,       \* lines fgets() has returned
    i,          \* records in the message, or 0
    message,    \* the numbers of the lines in the message
    used,       \* characters in the message
    sent,       \* the lines of the messages given to libcurl
    stored,     \* how many of them the server keeps
    lost,       \* messages of which it keeps nothing
    handle,     \* the libcurl handle exists
    opened      \* the file is open

traffic == <<sent, stored, lost>>
fileVars == <<where, lines, read, i, message, used, traffic, handle, opened>>

FileTypeOK ==
    /\ where \in {"call", "read", "full", "tail", "success", "failed"}
    /\ lines \in Seq(LineLen)
    /\ read \in 0 .. Len(lines)
    /\ i \in 0 .. Batch
    /\ message \in Seq(Nat)
    /\ used \in Nat
    /\ sent \in Seq(Nat)
    /\ stored \in Nat
    /\ lost \in Nat
    /\ handle \in BOOLEAN
    /\ opened \in BOOLEAN

FileInit ==
    /\ where = "call"
    /\ lines \in UNION {[1 .. n -> LineLen] : n \in 0 .. MaxLines}
    /\ read = 0
    /\ i = 0
    /\ message = << >>
    /\ used = 0
    /\ sent = << >>
    /\ stored = 0
    /\ lost = 0
    /\ handle = FALSE
    /\ opened = FALSE

\* prepare_publish() comes first.
Open ==
    /\ where = "call"
    /\ where' = "read"
    /\ handle' = TRUE
    /\ opened' = TRUE
    /\ UNCHANGED <<lines, read, i, message, used, traffic>>

\* curl_easy_init() returns NULL.
NoHandle ==
    /\ where = "call"
    /\ where' = "failed"
    /\ UNCHANGED <<lines, read, i, message, used, traffic, handle, opened>>

\* fopen() fails; the handle is not cleaned up.
OpenFails ==
    /\ where = "call"
    /\ where' = "failed"
    /\ handle' = TRUE
    /\ UNCHANGED <<lines, read, i, message, used, traffic, opened>>

\* "[{static, line}" for the first record, ",{static, line}" for the others.
RecordLen(n) == StaticLen + lines[n] + 5

\* Fault: the line that fills a message is not put into it.
ReadLine_DropsLast ==
    /\ where = "read"
    /\ read < Len(lines)
    /\ read' = read + 1
    /\ message' = IF i = Batch - 1 THEN message ELSE Append(message, read + 1)
    /\ i' = i + 1
    /\ where' = IF i = Batch - 1 THEN "full" ELSE "read"
    /\ used' = used + RecordLen(read + 1)
    /\ UNCHANGED <<lines, traffic, handle, opened>>

\* One line is appended; the last record of a full message brings the "]".
ReadLine ==
    /\ where = "read"
    /\ read < Len(lines)
    /\ read' = read + 1
    /\ message' = Append(message, read + 1)
    /\ i' = i + 1
    /\ IF i = Batch - 1
          THEN where' = "full" /\ used' = used + RecordLen(read + 1) + 1
          ELSE where' = "read" /\ used' = used + RecordLen(read + 1)
    /\ UNCHANGED <<lines, traffic, handle, opened>>

\* curl_easy_perform(): the server keeps the lines of the message or refuses it.
Perform ==
    /\ sent' = sent \o message
    /\ \/ stored' = stored + Len(message) /\ UNCHANGED lost
       \/ lost' = lost + 1 /\ UNCHANGED stored

\* Fault: i is reset and message is not.
SendFull_KeepsMessage ==
    /\ where = "full"
    /\ Perform
    /\ where' = "read"
    /\ i' = 0
    /\ UNCHANGED <<lines, read, message, used, handle, opened>>

\* CURLE_OK, which is also the result when the server answers with an error
\* status.  The message is cleared for the next lines.
SendFull ==
    /\ where = "full"
    /\ Perform
    /\ where' = "read"
    /\ i' = 0
    /\ message' = << >>
    /\ used' = 0
    /\ UNCHANGED <<lines, read, handle, opened>>

\* The end of the file with lines left over.
CloseTail ==
    /\ where = "read"
    /\ read = Len(lines)
    /\ i > 0
    /\ where' = "tail"
    /\ used' = used + 1
    /\ UNCHANGED <<lines, read, i, message, traffic, handle, opened>>

\* Likewise for the rest, and the function cleans up its handle.
SendTail ==
    /\ where = "tail"
    /\ Perform
    /\ where' = "success"
    /\ handle' = FALSE
    /\ UNCHANGED <<lines, read, i, message, used, opened>>

NothingLeft ==
    /\ where = "read"
    /\ read = Len(lines)
    /\ i = 0
    /\ where' = "success"
    /\ handle' = FALSE
    /\ UNCHANGED <<lines, read, i, message, used, traffic, opened>>

\* The first failed request ends the function; nothing is cleaned up.
SendFails ==
    /\ where \in {"full", "tail"}
    /\ where' = "failed"
    /\ Perform
    /\ UNCHANGED <<lines, read, i, message, used, handle, opened>>

FileNext ==
    \/ Open \/ NoHandle \/ OpenFails \/ ReadLine \/ SendFull \/ CloseTail \/ SendTail
    \/ NothingLeft \/ SendFails

FileSpec == FileInit /\ [][FileNext]_fileVars

-----------------------------------------------------------------------------
(* Properties *)

UpTo(n) == [k \in 1 .. n |-> k]

\* The lines go to the server each once and in the order of the file, all of them
\* when the function reports success, and a message the server does not keep, by
\* an error status that publish_file() takes for success or by a failing request,
\* costs no more than Batch of them.
LinesAreSentOnce ==
    /\ sent = UpTo(Len(sent))
    /\ where = "success" => Len(sent) = Len(lines)
    /\ stored <= Len(sent) /\ Len(sent) <= stored + Batch * lost

\* The messages are cut from the file without gaps: what was read is what has
\* been sent followed by the message under construction.
NothingSkipped ==
    where \in {"read", "full", "tail"} => sent \o message = UpTo(read)

\* A record of at most BufferSize \div Batch characters, the NUL of the message
\* included in the account, never overflows the message buffer.
RecordsFit ==
    (\A l \in LineLen : Batch * (StaticLen + l + 5) + 2 <= BufferSize) => used < BufferSize
=============================================================================
