-------------------------- MODULE Publisher_proofs --------------------------
(***************************************************************************)
(* Proofs about Publisher, for any number of threads and requests, any     *)
(* answers of the server and any size of the caller's buffer.              *)
(***************************************************************************)
EXTENDS Publisher, TLAPS

\* libcurl is not initialised, being initialised by the main thread, or ready.
LibraryInv ==
    \/ headers = 0 /\ inits = 0 /\ at[First] \in {"idle", "init"}
    \/ headers \in 0 .. 2 /\ inits = 1 /\ at[First] = "prepare"
    \/ headers = 3 /\ inits = 1 /\ at[First] \in {"init", "perform", "idle"}

\* The other threads exist once the main thread has made its only request, and
\* find libcurl ready.
OrderInv ==
    /\ buffer[First] # << >> => headers = 3
    /\ \A c \in Caller \ {First} : at[c] # "idle" =>
            /\ calls[c] # 0 /\ at[c] \in {"init", "perform"}
            /\ at[First] = "idle" /\ buffer[First] # << >>

\* A request starts with an empty string in a block of the full size.  While the
\* block does not grow, the string is the last chunk and the block as long as it.
Tame(c) == kind[c] \in ReadsBack /\ NeverGrows(body[c])
Fresh(c) == buffer[c] = << >> /\ room[c] = Capacity
Shows(c, chunk) == buffer[c] = <<chunk>> /\ room[c] = SizeOf[chunk] + 1
AnswerInv ==
    \A c \in Caller :
        /\ at[c] \in {"init", "prepare"} => Fresh(c)
        /\ at[c] = "perform" => got[c] <= Len(body[c])
        /\ at[c] = "perform" /\ Tame(c) =>
              IF got[c] = 0 THEN Fresh(c) ELSE Shows(c, body[c][got[c]])

IInv ==
    /\ TypeOK
    /\ LibraryInv
    /\ OrderInv
    /\ HandlesAreAccountedFor
    /\ AnswerInv
    /\ LastChunkIsReadBack

-----------------------------------------------------------------------------

\* Before the first request.
LEMMA InitInv == Init => IInv
<1> SUFFICES ASSUME Init PROVE IInv
  OBVIOUS
<1>1. TypeOK
  <2>1. << >> \in Seq(Chunk)
    OBVIOUS
  <2> QED
    BY <2>1, PublisherAssumption DEF Init, TypeOK, At, Kind
<1>2. LibraryInv /\ OrderInv /\ HandlesAreAccountedFor
  BY PublisherAssumption DEF Init, LibraryInv, OrderInv, HandlesAreAccountedFor
<1>3. AnswerInv /\ LastChunkIsReadBack
  BY DEF Init, AnswerInv, LastChunkIsReadBack
<1> QED
  BY <1>1, <1>2, <1>3 DEF IInv

\* The chunk that arrives is a piece of the answer.
LEMMA ChunkOfAnswer ==
    ASSUME TypeOK, NEW c \in Caller, got[c] < Len(body[c])
    PROVE  /\ body[c] \in Seq(Chunk) /\ got[c] \in Nat
           /\ got[c] + 1 \in 1 .. Len(body[c])
           /\ body[c][got[c] + 1] \in Chunk
           /\ <<body[c][got[c] + 1]>> \in Seq(Chunk)
           /\ SizeOf[body[c][got[c] + 1]] \in Nat
<1>1. body[c] \in Seq(Chunk) /\ got[c] \in Nat
  BY PublisherAssumption DEF TypeOK, Chunk
<1>2. got[c] + 1 \in 1 .. Len(body[c]) /\ body[c][got[c] + 1] \in Chunk
  BY <1>1
<1>3. SizeOf[body[c][got[c] + 1]] \in Nat
  BY <1>2, PublisherAssumption DEF Chunk
<1> QED
  BY <1>1, <1>2, <1>3

\* What Receive() does to the caller's string and its block.
Writes(c, s, n) == buffer' = [buffer EXCEPT ![c] = s] /\ room' = [room EXCEPT ![c] = n]
LEMMA ReceiveEffect ==
    ASSUME IInv, NEW c \in Caller, Receive(c)
    PROVE  /\ got' = [got EXCEPT ![c] = got[c] + 1]
           /\ UNCHANGED <<at, kind, body, inits, headers, live, outcome, calls, failures>>
           /\ \E s \in Seq(Chunk) \cup {Freed}, n \in Nat : Writes(c, s, n)
           /\ Tame(c) => Writes(c, <<body[c][got[c] + 1]>>, SizeOf[body[c][got[c] + 1]] + 1)
<1>1. /\ at[c] = "perform" /\ got[c] < Len(body[c])
      /\ got' = [got EXCEPT ![c] = got[c] + 1]
      /\ UNCHANGED <<at, kind, body, inits, headers, live, outcome, calls, failures>>
  BY DEF Receive, library, counts
<1> DEFINE chunk == body[c][got[c] + 1]
<1>2. /\ body[c] \in Seq(Chunk) /\ got[c] \in Nat /\ got[c] + 1 \in 1 .. Len(body[c])
      /\ <<chunk>> \in Seq(Chunk) /\ SizeOf[chunk] \in Nat
  BY <1>1, ChunkOfAnswer DEF IInv
<1>3. buffer \in [Caller -> Seq(Chunk) \cup {Freed}] /\ room \in [Caller -> Nat]
  BY DEF IInv, TypeOK
<1>b. buffer[c] \in Seq(Chunk) \cup {Freed} /\ room[c] \in Nat
  BY <1>3
<1>k. Writes(c, buffer[c], room[c]) <=> UNCHANGED <<buffer, room>>
  BY <1>3 DEF Writes
<1>m. Writes(c, Freed, room[c]) <=> Move(c)
  BY <1>3 DEF Writes, Move
<1>4. \/ /\ kind[c] \in ReadsBack /\ buffer[c] # Freed
         /\ Writes(c, <<chunk>>, SizeOf[chunk] + 1)
      \/ /\ kind[c] \in ReadsBack /\ (SizeOf[chunk] + 1 > room[c] \/ buffer[c] = Freed)
         /\ Writes(c, Freed, room[c])
      \/ kind[c] \notin ReadsBack /\ Writes(c, buffer[c], room[c])
  BY <1>k, <1>m DEF Receive, Rewrite, Writes
<1>5. \E s \in Seq(Chunk) \cup {Freed}, n \in Nat : Writes(c, s, n)
  <2>1. SizeOf[chunk] + 1 \in Nat /\ Freed \in Seq(Chunk) \cup {Freed}
    BY <1>2
  <2> HIDE DEF chunk
  <2> QED
    BY <1>4, <2>1, <1>2, <1>b, Zenon
<1>6. ASSUME Tame(c) PROVE Writes(c, <<chunk>>, SizeOf[chunk] + 1)
  <2>1. kind[c] \in ReadsBack
    BY <1>6 DEF Tame
  <2>2. buffer[c] # Freed /\ ~(SizeOf[chunk] + 1 > room[c])
    <3>0. SizeOf[chunk] < IF got[c] + 1 = 1 THEN Capacity ELSE SizeOf[body[c][got[c] + 1 - 1]] + 1
      BY <1>6, <1>2 DEF Tame, NeverGrows
    <3>1. CASE got[c] = 0
      <4>1. buffer[c] = << >> /\ room[c] = Capacity
        BY <1>1, <1>6, <3>1 DEF IInv, AnswerInv, Fresh
      <4>2. << >> \in Seq(DOMAIN SizeOf) /\ Capacity \in Nat
        BY PublisherAssumption
      <4>3. buffer[c] # Freed
        BY <4>1, <4>2, PublisherAssumption
      <4> QED
        BY <1>2, <3>0, <3>1, <4>1, <4>2, <4>3
    <3>2. CASE got[c] # 0
      <4> DEFINE last == body[c][got[c]]
      <4>1. buffer[c] = <<last>> /\ room[c] = SizeOf[last] + 1
        BY <1>1, <1>6, <3>2 DEF IInv, AnswerInv, Shows
      <4>2. got[c] \in 1 .. Len(body[c]) /\ got[c] + 1 - 1 = got[c] /\ got[c] + 1 # 1
        BY <1>2, <3>2
      <4>3. last \in Chunk
        BY <1>2, <4>2
      <4>4. <<last>> \in Seq(DOMAIN SizeOf) /\ SizeOf[last] \in Nat
        BY <4>3, PublisherAssumption DEF Chunk
      <4>5. buffer[c] # Freed
        BY <4>1, <4>4, PublisherAssumption
      <4>6. SizeOf[chunk] < SizeOf[last] + 1
        BY <3>0, <4>2
      <4> HIDE DEF last, chunk
      <4> QED
        BY <1>2, <4>1, <4>4, <4>5, <4>6
    <3> QED
      BY <3>1, <3>2
  <2> HIDE DEF chunk
  <2> QED
    BY <1>4, <2>1, <2>2, Zenon
<1> QED
  BY <1>1, <1>5, <1>6

-----------------------------------------------------------------------------
(* One lemma for each part of the invariant *)

\* The variables of the publisher keep their types through the three requests.
LEMMA TypeStep == IInv /\ [Next]_vars => TypeOK'
<1> SUFFICES ASSUME IInv, [Next]_vars PROVE TypeOK'
  OBVIOUS
<1>0. TypeOK /\ HandlesAreAccountedFor
  BY DEF IInv
<1> USE DEF TypeOK, request, library, counts, NewRequest
<1>1. CASE UNCHANGED vars
  BY <1>0, <1>1 DEF vars
<1>2. ASSUME NEW c \in Caller, Call(c)
      PROVE  TypeOK'
  <2>1. /\ at' \in [Caller -> At]
        /\ kind' \in [Caller -> Kind]
    BY <1>0, <1>2 DEF Call, Step, At, Kind, ReadsBack
  <2>2. calls' \in [Caller -> 0 .. MaxCalls]
    <3>1. calls[c] + 1 \in 0 .. MaxCalls /\ calls' = [calls EXCEPT ![c] = calls[c] + 1]
      BY <1>0, <1>2, PublisherAssumption DEF Call
    <3> QED
      BY <1>0, <3>1
  <2>3. buffer' \in [Caller -> Seq(Chunk) \cup {Freed}] /\ room' \in [Caller -> Nat]
    <3>1. << >> \in Seq(Chunk) \cup {Freed} /\ buffer' = [buffer EXCEPT ![c] = << >>]
      BY <1>2 DEF Call
    <3>2. Capacity \in Nat /\ room' = [room EXCEPT ![c] = Capacity]
      BY <1>2, PublisherAssumption DEF Call
    <3> QED
      BY <1>0, <3>1, <3>2
  <2>4. outcome' \in [Caller -> {"none", "success", "failed"}]
    BY <1>0, <1>2 DEF Call
  <2> QED
    BY <1>0, <1>2, <2>1, <2>2, <2>3, <2>4 DEF Call
<1>3. ASSUME NEW c \in Caller, InitDone(c)
      PROVE  TypeOK'
  <2>1. at' \in [Caller -> At] /\ live' \in [Caller -> Nat] /\ got' \in [Caller -> Nat]
    BY <1>0, <1>3 DEF InitDone, Step, At
  <2>2. body' \in [Caller -> Body \cup {<< >>}]
    <3>1. PICK b \in Body : body' = [body EXCEPT ![c] = b]
      BY <1>3 DEF InitDone
    <3> QED
      BY <1>0, <3>1
  <2> QED
    BY <1>0, <1>3, <2>1, <2>2 DEF InitDone
<1>8. ASSUME NEW c \in Caller, InitFails(c)
      PROVE  TypeOK'
  BY <1>0, <1>8 DEF InitFails, Step, At
<1>4. ASSUME NEW c \in Caller, InitFirst(c) \/ AppendHeader(c)
      PROVE  TypeOK'
  <2>1. at' \in [Caller -> At]
    BY <1>0, <1>4 DEF InitFirst, AppendHeader, Step, At
  <2> QED
    BY <1>0, <1>4, <2>1 DEF InitFirst, AppendHeader
<1>5. ASSUME NEW c \in Caller, Receive(c)
      PROVE  TypeOK'
  <2>1. got' \in [Caller -> Nat]
    <3>1. got' = [got EXCEPT ![c] = got[c] + 1]
      BY <1>5, ReceiveEffect
    <3> QED
      BY <1>0, <3>1
  <2>2. buffer' \in [Caller -> Seq(Chunk) \cup {Freed}] /\ room' \in [Caller -> Nat]
    <3>1. PICK s \in Seq(Chunk) \cup {Freed}, n \in Nat : Writes(c, s, n)
      BY <1>5, ReceiveEffect
    <3>2. buffer \in [Caller -> Seq(Chunk) \cup {Freed}] /\ room \in [Caller -> Nat]
      BY <1>0
    <3> QED
      BY <3>1, <3>2 DEF Writes
  <2> QED
    BY <1>0, <1>5, <2>1, <2>2, ReceiveEffect
<1>6. ASSUME NEW c \in Caller, Succeed(c)
      PROVE  TypeOK'
  <2>1. live' \in [Caller -> Nat]
    <3>1. live[c] \in Nat /\ failures[c] \in Nat /\ at[c] = "perform"
      BY <1>0, <1>6 DEF Succeed, Step
    <3>2. live[c] = failures[c] + 1
      BY <1>0, <3>1 DEF HandlesAreAccountedFor
    <3>3. live[c] - 1 \in Nat /\ live' = [live EXCEPT ![c] = live[c] - 1]
      BY <1>6, <3>1, <3>2 DEF Succeed
    <3> QED
      BY <1>0, <3>3
  <2>2. at' \in [Caller -> At] /\ outcome' \in [Caller -> {"none", "success", "failed"}]
    BY <1>0, <1>6 DEF Succeed, Step, At
  <2> QED
    BY <1>0, <1>6, <2>1, <2>2 DEF Succeed
<1>7. ASSUME NEW c \in Caller, Fail(c)
      PROVE  TypeOK'
  BY <1>0, <1>7 DEF Fail, Step, At
<1> QED
  BY <1>1, <1>2, <1>3, <1>4, <1>5, <1>6, <1>7, <1>8 DEF Next

\* Only the main thread initialises libcurl, and only once.
LEMMA LibraryStep == IInv /\ [Next]_vars => LibraryInv' /\ OrderInv'
<1> SUFFICES ASSUME IInv, [Next]_vars PROVE LibraryInv' /\ OrderInv'
  OBVIOUS
<1>0. /\ at \in [Caller -> At] /\ calls \in [Caller -> 0 .. MaxCalls] /\ First \in Caller
      /\ DOMAIN buffer = Caller /\ LibraryInv /\ OrderInv
  BY PublisherAssumption DEF IInv, TypeOK
<1> USE DEF LibraryInv, OrderInv, request, library, counts
<1>1. CASE UNCHANGED vars
  BY <1>0, <1>1 DEF vars
<1>2. ASSUME NEW c \in Caller, Call(c)
      PROVE  LibraryInv' /\ OrderInv'
  <2>1. /\ at[c] = "idle" /\ at' = [at EXCEPT ![c] = "init"]
        /\ buffer' = [buffer EXCEPT ![c] = << >>] /\ calls' = [calls EXCEPT ![c] = calls[c] + 1]
        /\ calls[c] \in Nat /\ UNCHANGED <<inits, headers>>
    BY <1>0, <1>2 DEF Call, NewRequest, Step
  <2>2. CASE c = First
    <3>1. \A d \in Caller \ {First} : at'[d] = "idle"
      BY <1>0, <1>2, <2>1, <2>2 DEF Call, Prepared
    <3>2. buffer'[First] = << >> /\ at'[First] = "init"
      BY <1>0, <2>1, <2>2
    <3> QED
      BY <1>0, <2>1, <2>2, <3>1, <3>2
  <2>3. CASE c # First
    <3>1. at[First] = "idle" /\ buffer[First] # << >>
      BY <1>2, <2>3 DEF Call, Prepared
    <3>2. /\ at'[First] = "idle" /\ buffer'[First] # << >>
          /\ at'[c] = "init" /\ calls'[c] # 0
      BY <1>0, <2>1, <2>3, <3>1
    <3>3. \A d \in Caller \ {c} : at'[d] = at[d] /\ calls'[d] = calls[d]
      BY <1>0, <2>1
    <3> QED
      BY <1>0, <2>1, <2>3, <3>1, <3>2, <3>3
  <2> QED
    BY <2>2, <2>3
<1>3. ASSUME NEW c \in Caller, InitDone(c)
      PROVE  LibraryInv' /\ OrderInv'
  BY <1>0, <1>3 DEF InitDone, Step
<1>8. ASSUME NEW c \in Caller, InitFails(c)
      PROVE  LibraryInv' /\ OrderInv'
  BY <1>0, <1>8 DEF InitFails, Step
<1>4. ASSUME NEW c \in Caller, InitFirst(c)
      PROVE  LibraryInv' /\ OrderInv'
  BY <1>0, <1>4 DEF InitFirst, Step
<1>5. ASSUME NEW c \in Caller, AppendHeader(c)
      PROVE  LibraryInv' /\ OrderInv'
  BY <1>0, <1>5 DEF AppendHeader, Step
<1>6. ASSUME NEW c \in Caller, Receive(c)
      PROVE  LibraryInv' /\ OrderInv'
  <2>1. at[c] = "perform" /\ UNCHANGED <<at, inits, headers, calls>>
    BY <1>6, ReceiveEffect DEF Receive
  <2>2. PICK s, n : Writes(c, s, n)
    BY <1>6, ReceiveEffect
  <2>3. CASE c = First
    BY <1>0, <2>1, <2>3
  <2>4. CASE c # First
    <3>1. buffer'[First] = buffer[First]
      BY <1>0, <2>2, <2>4 DEF Writes
    <3> QED
      BY <1>0, <2>1, <3>1
  <2> QED
    BY <2>3, <2>4
<1>7. ASSUME NEW c \in Caller, Succeed(c) \/ Fail(c)
      PROVE  LibraryInv' /\ OrderInv'
  <2>1. /\ at[c] = "perform" /\ at' = [at EXCEPT ![c] = "idle"]
        /\ UNCHANGED <<inits, headers, calls, buffer>>
    BY <1>7 DEF Succeed, Fail, Step
  <2>2. CASE c = First
    BY <1>0, <2>1, <2>2
  <2>3. CASE c # First
    BY <1>0, <2>1, <2>3
  <2> QED
    BY <2>2, <2>3
<1> QED
  BY <1>1, <1>2, <1>3, <1>4, <1>5, <1>6, <1>7, <1>8 DEF Next

\* A caller's handle lives as long as its request, and for good where the
\* function returns early without curl_easy_cleanup().
LEMMA HandlesStep == IInv /\ [Next]_vars => HandlesAreAccountedFor'
<1> SUFFICES ASSUME IInv, [Next]_vars PROVE HandlesAreAccountedFor'
  OBVIOUS
<1>0. /\ at \in [Caller -> At] /\ live \in [Caller -> Nat] /\ failures \in [Caller -> Nat]
      /\ HandlesAreAccountedFor
  BY DEF IInv, TypeOK
<1> USE DEF HandlesAreAccountedFor, counts
<1>1. CASE UNCHANGED vars
  BY <1>0, <1>1 DEF vars
<1>2. ASSUME NEW c \in Caller,
             Call(c) \/ InitFails(c) \/ InitFirst(c) \/ AppendHeader(c) \/ Receive(c)
      PROVE  HandlesAreAccountedFor'
  BY <1>0, <1>2 DEF Call, NewRequest, InitFails, InitFirst, AppendHeader, Receive, Step
<1>3. ASSUME NEW c \in Caller, InitDone(c)
      PROVE  HandlesAreAccountedFor'
  BY <1>0, <1>3 DEF InitDone, Step
<1>4. ASSUME NEW c \in Caller, Succeed(c) \/ Fail(c)
      PROVE  HandlesAreAccountedFor'
  BY <1>0, <1>4 DEF Succeed, Fail, Step
<1> QED
  BY <1>1, <1>2, <1>3, <1>4 DEF Next

\* While the block does not grow the caller's string is the last chunk received.
LEMMA AnswerStep == IInv /\ [Next]_vars => AnswerInv'
<1> SUFFICES ASSUME IInv, [Next]_vars PROVE AnswerInv'
  OBVIOUS
<1>0. /\ at \in [Caller -> At] /\ kind \in [Caller -> Kind] /\ got \in [Caller -> Nat]
      /\ DOMAIN body = Caller /\ DOMAIN buffer = Caller /\ DOMAIN room = Caller
      /\ \A b \in Body : Len(b) \in Nat
      /\ AnswerInv
  BY PublisherAssumption DEF IInv, TypeOK
<1> USE DEF AnswerInv, Tame, request, library, counts
<1>1. CASE UNCHANGED vars
  BY <1>0, <1>1 DEF vars, Fresh, Shows
<1>2. ASSUME NEW c \in Caller, Call(c)
      PROVE  AnswerInv'
  <2>1. PICK k : kind' = [kind EXCEPT ![c] = k]
    BY <1>2 DEF Call
  <2>2. /\ at' = [at EXCEPT ![c] = "init"] /\ buffer' = [buffer EXCEPT ![c] = << >>]
        /\ room' = [room EXCEPT ![c] = Capacity] /\ UNCHANGED <<body, got>>
    BY <1>2 DEF Call, NewRequest, Step
  <2>3. at'[c] = "init" /\ Fresh(c)'
    BY <1>0, <2>2 DEF Fresh
  <2>4. ASSUME NEW d \in Caller, d # c
        PROVE  /\ at'[d] = at[d] /\ kind'[d] = kind[d]
               /\ buffer'[d] = buffer[d] /\ room'[d] = room[d]
    BY <1>0, <2>1, <2>2, <2>4
  <2> QED
    BY <1>0, <2>2, <2>3, <2>4 DEF Fresh, Shows
<1>3. ASSUME NEW c \in Caller, InitDone(c)
      PROVE  AnswerInv'
  <2>1. PICK b \in Body : body' = [body EXCEPT ![c] = b]
    BY <1>3 DEF InitDone
  <2>2. /\ at[c] = "init" /\ at' = [at EXCEPT ![c] = "perform"]
        /\ got' = [got EXCEPT ![c] = 0] /\ UNCHANGED <<kind, buffer, room>>
    BY <1>3 DEF InitDone, Step
  <2>3. Fresh(c)' /\ got'[c] = 0 /\ 0 <= Len(body'[c]) /\ at'[c] = "perform"
    BY <1>0, <2>1, <2>2 DEF Fresh
  <2>4. ASSUME NEW d \in Caller, d # c
        PROVE  /\ at'[d] = at[d] /\ kind'[d] = kind[d] /\ got'[d] = got[d]
               /\ body'[d] = body[d] /\ buffer'[d] = buffer[d] /\ room'[d] = room[d]
    BY <1>0, <2>1, <2>2, <2>4
  <2> QED
    BY <1>0, <2>3, <2>4 DEF Fresh, Shows
<1>4. ASSUME NEW c \in Caller,
             InitFails(c) \/ InitFirst(c) \/ AppendHeader(c) \/ Succeed(c) \/ Fail(c)
      PROVE  AnswerInv'
  <2>1. /\ UNCHANGED <<kind, body, got, buffer, room>>
        /\ \/ at[c] = "init" /\ at' = [at EXCEPT ![c] = "prepare"]
           \/ /\ at[c] = "prepare"
              /\ at' \in {[at EXCEPT ![c] = "init"], [at EXCEPT ![c] = "prepare"]}
           \/ at' = [at EXCEPT ![c] = "idle"]
    BY <1>4 DEF InitFails, InitFirst, AppendHeader, Succeed, Fail, Step
  <2> QED
    BY <1>0, <2>1 DEF Fresh, Shows
<1>5. ASSUME NEW c \in Caller, Receive(c)
      PROVE  AnswerInv'
  <2>1. /\ got' = [got EXCEPT ![c] = got[c] + 1] /\ UNCHANGED <<at, kind, body>>
        /\ at[c] = "perform" /\ got[c] < Len(body[c])
    BY <1>5, ReceiveEffect DEF Receive
  <2>2. PICK s, n : Writes(c, s, n)
    BY <1>5, ReceiveEffect
  <2>3. /\ got'[c] <= Len(body[c]) /\ got'[c] # 0
        /\ Tame(c) => Shows(c, body[c][got[c]])'
    <3>2. got'[c] = got[c] + 1 /\ got[c] \in Nat /\ Len(body[c]) \in Nat
      BY <1>0, <1>5, <2>1, ChunkOfAnswer DEF IInv
    <3>1. ASSUME Tame(c) PROVE Shows(c, body[c][got[c]])'
      <4>1. Writes(c, <<body[c][got[c] + 1]>>, SizeOf[body[c][got[c] + 1]] + 1)
        BY <1>5, <3>1, ReceiveEffect
      <4> QED
        BY <1>0, <2>1, <3>2, <4>1 DEF Writes, Shows
    <3> QED
      BY <1>0, <2>1, <3>1, <3>2
  <2>4. ASSUME NEW d \in Caller, d # c
        PROVE  got'[d] = got[d] /\ buffer'[d] = buffer[d] /\ room'[d] = room[d]
    BY <1>0, <2>1, <2>2, <2>4 DEF Writes
  <2> QED
    BY <1>0, <2>1, <2>3, <2>4 DEF Fresh, Shows
<1> QED
  BY <1>1, <1>2, <1>3, <1>4, <1>5 DEF Next

\* A request that succeeds has received the whole answer.
LEMMA LastChunkStep == IInv /\ [Next]_vars => LastChunkIsReadBack'
<1> SUFFICES ASSUME IInv, [Next]_vars PROVE LastChunkIsReadBack'
  OBVIOUS
<1>0. /\ at \in [Caller -> At] /\ DOMAIN outcome = Caller /\ DOMAIN kind = Caller
      /\ DOMAIN body = Caller /\ DOMAIN got = Caller /\ DOMAIN buffer = Caller
      /\ AnswerInv /\ LastChunkIsReadBack
  BY DEF IInv, TypeOK
<1> USE DEF LastChunkIsReadBack, request, library, counts
<1>1. CASE UNCHANGED vars
  BY <1>0, <1>1 DEF vars
<1>2. ASSUME NEW c \in Caller, Call(c)
      PROVE  LastChunkIsReadBack'
  <2>1. PICK k : kind' = [kind EXCEPT ![c] = k]
    BY <1>2 DEF Call
  <2> QED
    BY <1>0, <1>2, <2>1 DEF Call, NewRequest, Step
<1>3. ASSUME NEW c \in Caller, InitDone(c)
      PROVE  LastChunkIsReadBack'
  <2>1. PICK b \in Body : body' = [body EXCEPT ![c] = b]
    BY <1>3 DEF InitDone
  <2> QED
    BY <1>0, <1>3, <2>1 DEF InitDone, Step
<1>4. ASSUME NEW c \in Caller, InitFirst(c)
      PROVE  LastChunkIsReadBack'
  BY <1>0, <1>4 DEF InitFirst, Step
<1>5. ASSUME NEW c \in Caller, AppendHeader(c)
      PROVE  LastChunkIsReadBack'
  <2>1. /\ at[c] = "prepare" /\ UNCHANGED <<kind, body, got, buffer, outcome>>
        /\ at' \in {[at EXCEPT ![c] = "init"], [at EXCEPT ![c] = "prepare"]}
    BY <1>5 DEF AppendHeader, Step
  <2> QED
    BY <1>0, <2>1
<1>6. ASSUME NEW c \in Caller, Receive(c)
      PROVE  LastChunkIsReadBack'
  <2>1. at[c] = "perform" /\ UNCHANGED <<at, kind, body, outcome>>
    BY <1>6, ReceiveEffect DEF Receive
  <2>2. PICK s, n : Writes(c, s, n)
    BY <1>6, ReceiveEffect
  <2> QED
    BY <1>0, <2>1, <2>2 DEF Writes
<1>7. ASSUME NEW c \in Caller, Succeed(c)
      PROVE  LastChunkIsReadBack'
  <2>1. /\ at[c] = "perform" /\ at' = [at EXCEPT ![c] = "idle"] /\ got[c] = Len(body[c])
        /\ outcome' = [outcome EXCEPT ![c] = "success"]
        /\ UNCHANGED <<kind, body, got, buffer>>
    BY <1>7 DEF Succeed, Step
  <2>2. ASSUME Tame(c), body[c] # << >>
        PROVE  buffer[c] = <<body[c][Len(body[c])]>>
    <3>1. body[c] \in Seq(Chunk)
      <4>1. body[c] \in Body \cup {<< >>}
        BY DEF IInv, TypeOK
      <4>2. << >> \in Seq(DOMAIN SizeOf)
        OBVIOUS
      <4>3. body[c] \in Seq(DOMAIN SizeOf)
        BY <4>1, <4>2, PublisherAssumption, Zenon
      <4> QED
        BY <4>3 DEF Chunk
    <3>2. got[c] # 0
      BY <2>1, <2>2, <3>1
    <3> QED
      BY <1>0, <2>1, <2>2, <3>2 DEF AnswerInv, Shows
  <2> QED
    BY <1>0, <2>1, <2>2 DEF Tame
<1>8. ASSUME NEW c \in Caller, Fail(c) \/ InitFails(c)
      PROVE  LastChunkIsReadBack'
  BY <1>0, <1>8 DEF Fail, InitFails, Step
<1> QED
  BY <1>1, <1>2, <1>3, <1>4, <1>5, <1>6, <1>7, <1>8 DEF Next

-----------------------------------------------------------------------------
(* The theorems *)

\* The invariant that the others are parts of.
THEOREM PublisherInvariant == Spec => []IInv
<1>1. IInv /\ [Next]_vars => IInv'
  BY TypeStep, LibraryStep, HandlesStep, AnswerStep, LastChunkStep DEF IInv
<1> QED
  BY InitInv, <1>1, PTL DEF Spec

\* Every variable of the requests keeps its type; in particular a caller's
\* string is made of whole chunks or was freed.
THEOREM PublisherTypeCorrect == Spec => []TypeOK
<1>1. IInv => TypeOK
  BY DEF IInv
<1> QED
  BY PublisherInvariant, <1>1, PTL

\* init_curl() has no lock, and yet any number of threads initialise libcurl once
\* and perform every request with the complete list of headers.
THEOREM CurlOnce == Spec => []CurlInitialisedOnce
<1>1. IInv => CurlInitialisedOnce
  BY DEF IInv, LibraryInv, OrderInv, CurlInitialisedOnce
<1> QED
  BY PublisherInvariant, <1>1, PTL

\* Exactly the failed requests leave a libcurl handle behind.
THEOREM HandlesCorrect == Spec => []HandlesAreAccountedFor
<1>1. IInv => HandlesAreAccountedFor
  BY DEF IInv
<1> QED
  BY PublisherInvariant, <1>1, PTL

\* get_stream_data() leaves the last chunk of an answer in the caller's block, for
\* any number of chunks of any lengths that never make it grow, whatever the other
\* threads do.
THEOREM LastChunkCorrect == Spec => []LastChunkIsReadBack
<1>1. IInv => LastChunkIsReadBack
  BY DEF IInv
<1> QED
  BY PublisherInvariant, <1>1, PTL
=============================================================================
