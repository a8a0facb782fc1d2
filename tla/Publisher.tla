----------------------------- MODULE Publisher -----------------------------
(***************************************************************************)
(* publisher.c: the requests publish_json(), query_json() and              *)
(* create_new_experiment(), the libcurl handle behind each, the global     *)
(* header list, and the callback get_stream_data() that copies the answer  *)
(* into the caller's buffer.                                               *)
(*                                                                         *)
(* The agent's main() makes one request alone (prepare(), main.c); its     *)
(* threads make theirs concurrently, each request on a handle of its own.  *)
(* An application makes all of its requests from one thread (mf_api.c).    *)
(***************************************************************************)
EXTENDS Naturals, Sequences, FiniteSets

CONSTANTS
    Caller,     \* threads that make requests
    First,      \* the main thread of the agent, or the application's one
    Body,       \* answers of the server: sequences of the chunks received
    SizeOf,     \* the length of each chunk
    Capacity,   \* the size of the block a caller allocates for an answer
    Freed,      \* what the caller's pointer shows when its block was freed
    MaxCalls    \* bound: requests of each caller

ASSUME PublisherAssumption ==
    /\ First \in Caller
    /\ Capacity \in Nat \ {0}
    /\ MaxCalls \in Nat
    /\ SizeOf \in [DOMAIN SizeOf -> Nat \ {0}]
    /\ \A b \in Body : b \in Seq(DOMAIN SizeOf)
    /\ Freed \notin Seq(DOMAIN SizeOf)

Kind == {"publish", "query", "create"}
\* The functions that read the answer back; publish_json() drops it.
ReadsBack == {"query", "create"}

VARIABLES
    at,         \* where each caller is
    kind,       \* the function it is in
    inits,      \* curl_global_init() calls
    headers,    \* length of the list headers; 0 is NULL
    live,       \* libcurl handles in existence, by caller
    body,       \* the answer that arrives
    got,        \* its chunks that have arrived
    buffer,     \* the string the caller reads, or Freed when realloc() moved it
    room,       \* the size of the block that holds it
    outcome,    \* what the last request of the caller returned
    calls,      \* requests made so far
    failures    \* of which libcurl reported failed

request == <<kind, body, got, buffer, room>>
library == <<inits, headers>>
counts == <<calls, failures>>
vars == <<at, request, library, live, outcome, counts>>

Chunk == DOMAIN SizeOf
At == {"idle", "init", "prepare", "perform"}

TypeOK ==
    /\ at \in [Caller -> At]
    /\ kind \in [Caller -> Kind]
    /\ inits \in Nat
    /\ headers \in Nat
    /\ live \in [Caller -> Nat]
    /\ body \in [Caller -> Body \cup {<< >>}]
    /\ got \in [Caller -> Nat]
    /\ buffer \in [Caller -> Seq(Chunk) \cup {Freed}]
    /\ room \in [Caller -> Nat]
    /\ outcome \in [Caller -> {"none", "success", "failed"}]
    /\ calls \in [Caller -> 0 .. MaxCalls]
    /\ failures \in [Caller -> Nat]

Init ==
    /\ at = [c \in Caller |-> "idle"]
    /\ kind = [c \in Caller |-> "publish"]
    /\ inits = 0
    /\ headers = 0
    /\ live = [c \in Caller |-> 0]
    /\ body = [c \in Caller |-> << >>]
    /\ got = [c \in Caller |-> 0]
    /\ buffer = [c \in Caller |-> << >>]
    /\ room = [c \in Caller |-> Capacity]
    /\ outcome = [c \in Caller |-> "none"]
    /\ calls = [c \in Caller |-> 0]
    /\ failures = [c \in Caller |-> 0]

Step(c, from, to) ==
    /\ at[c] = from
    /\ at' = [at EXCEPT ![c] = to]

-----------------------------------------------------------------------------
(* One request *)

NewRequest(c) ==
    /\ Step(c, "idle", "init")
    /\ calls[c] < MaxCalls
    /\ buffer' = [buffer EXCEPT ![c] = << >>]
    /\ room' = [room EXCEPT ![c] = Capacity]
    /\ outcome' = [outcome EXCEPT ![c] = "none"]
    /\ calls' = [calls EXCEPT ![c] = @ + 1]
    /\ UNCHANGED <<library, live, body, got, failures>>

\* Fault: the threads are created before prepare() has made its request.
Call_Unprepared(c) ==
    /\ NewRequest(c)
    /\ kind' = [kind EXCEPT ![c] = "publish"]

\* prepare() goes by the first character of its buffer, not by what
\* create_new_experiment() returned; it may read a freed block.
Prepared ==
    /\ calls[First] = 1 /\ at[First] = "idle"
    /\ kind[First] = "create" /\ buffer[First] # << >>

\* The URL and the message are set (check_URL(), check_message()); the buffer
\* for an answer is new and empty.
Call(c) ==
    /\ NewRequest(c)
    /\ \/ /\ c = First
          /\ \A d \in Caller \ {First} : calls[d] = 0
          /\ \E k \in ReadsBack : kind' = [kind EXCEPT ![c] = k]
       \/ /\ c # First /\ Prepared
          /\ kind' = [kind EXCEPT ![c] = "publish"]

\* init_curl() finds the header list set.
InitDone(c) ==
    /\ Step(c, "init", "perform")
    /\ headers # 0
    /\ live' = [live EXCEPT ![c] = @ + 1]
    /\ got' = [got EXCEPT ![c] = 0]
    /\ body' \in {[body EXCEPT ![c] = b] : b \in Body}
    /\ UNCHANGED <<kind, buffer, room, library, outcome, counts>>

\* curl_easy_init() returns NULL: there is no handle, and no request.
InitFails(c) ==
    /\ Step(c, "init", "idle")
    /\ headers # 0
    /\ outcome' = [outcome EXCEPT ![c] = "failed"]
    /\ UNCHANGED <<request, library, live, counts>>

\* init_curl() finds it NULL and initialises libcurl; the list grows afterwards.
InitFirst(c) ==
    /\ Step(c, "init", "prepare")
    /\ headers = 0
    /\ inits' = inits + 1
    /\ UNCHANGED <<request, headers, live, outcome, counts>>

AppendHeader(c) ==
    /\ Step(c, "prepare", IF headers = 2 THEN "init" ELSE "prepare")
    /\ headers' = headers + 1
    /\ UNCHANGED <<request, inits, live, outcome, counts>>

\* The block keeps its place with the chunk in it, or is freed.
Rewrite(c, chunk) ==
    /\ buffer' = [buffer EXCEPT ![c] = <<chunk>>]
    /\ room' = [room EXCEPT ![c] = SizeOf[chunk] + 1]

Move(c) ==
    /\ buffer' = [buffer EXCEPT ![c] = Freed]
    /\ UNCHANGED room

\* Fault: a new block is always allocated.
Receive_Moves(c) ==
    /\ at[c] = "perform"
    /\ got[c] < Len(body[c])
    /\ got' = [got EXCEPT ![c] = @ + 1]
    /\ IF kind[c] \in ReadsBack THEN Move(c) ELSE UNCHANGED <<buffer, room>>
    /\ UNCHANGED <<at, kind, body, library, live, outcome, counts>>

\* get_stream_data(): realloc() makes the block exactly as long as the chunk and
\* its NUL.  A block that shrinks keeps its place; one that grows may be moved, and
\* the caller's pointer is then a freed block.  Each chunk is written over the one
\* before it, at the start of the block.
Receive(c) ==
    /\ at[c] = "perform"
    /\ got[c] < Len(body[c])
    /\ got' = [got EXCEPT ![c] = @ + 1]
    /\ LET chunk == body[c][got[c] + 1]
       IN \/ /\ kind[c] \in ReadsBack
             /\ buffer[c] # Freed
             /\ Rewrite(c, chunk)
          \/ /\ kind[c] \in ReadsBack
             /\ SizeOf[chunk] + 1 > room[c] \/ buffer[c] = Freed
             /\ Move(c)
          \/ /\ kind[c] \notin ReadsBack
             /\ UNCHANGED <<buffer, room>>
    /\ UNCHANGED <<at, kind, body, library, live, outcome, counts>>

\* Fault: curl_easy_cleanup() twice.
Succeed_CleansTwice(c) ==
    /\ Step(c, "perform", "idle")
    /\ got[c] = Len(body[c])
    /\ live' = [live EXCEPT ![c] = @ - 2]
    /\ outcome' = [outcome EXCEPT ![c] = "success"]
    /\ UNCHANGED <<request, library, counts>>

\* Fault: no curl_easy_cleanup() on success either.
Succeed_Leaks(c) ==
    /\ Step(c, "perform", "idle")
    /\ got[c] = Len(body[c])
    /\ outcome' = [outcome EXCEPT ![c] = "success"]
    /\ UNCHANGED <<request, library, live, counts>>

\* curl_easy_perform() returns CURLE_OK: the handle is cleaned up.
Succeed(c) ==
    /\ Step(c, "perform", "idle")
    /\ got[c] = Len(body[c])
    /\ live' = [live EXCEPT ![c] = @ - 1]
    /\ outcome' = [outcome EXCEPT ![c] = "success"]
    /\ UNCHANGED <<request, library, counts>>

\* It returns an error, perhaps after part of the answer: the function returns
\* FAILED without cleaning up.
Fail(c) ==
    /\ Step(c, "perform", "idle")
    /\ outcome' = [outcome EXCEPT ![c] = "failed"]
    /\ failures' = [failures EXCEPT ![c] = @ + 1]
    /\ UNCHANGED <<request, library, live, calls>>

Next ==
    \E c \in Caller :
        \/ Call(c) \/ InitDone(c) \/ InitFails(c) \/ InitFirst(c)
        \/ AppendHeader(c) \/ Receive(c) \/ Succeed(c) \/ Fail(c)

Spec == Init /\ [][Next]_vars

-----------------------------------------------------------------------------
(* Properties *)

\* init_curl() tests and sets headers without a lock, yet libcurl is initialised
\* once and every request that is performed has the complete list of three: main()
\* creates threads only after a request of its own, be it one that failed halfway.
CurlInitialisedOnce ==
    /\ inits <= 1
    /\ \A c \in Caller : at[c] = "perform" => headers = 3

\* A handle outlives the request it was made for exactly when libcurl reported the
\* request failed: no handle is released twice, none is left by a request that
\* succeeded or that got no handle.  That failed requests leave theirs is how the
\* code is written, and counted here, not forbidden.
HandlesAreAccountedFor ==
    \A c \in Caller : live[c] = failures[c] + (IF at[c] = "perform" THEN 1 ELSE 0)

\* The first chunk fits the block the caller made, and none is longer than the one
\* before it, to the size of which get_stream_data() has cut the block.
NeverGrows(b) ==
    \A k \in 1 .. Len(b) :
        SizeOf[b[k]] < IF k = 1 THEN Capacity ELSE SizeOf[b[k - 1]] + 1

\* Of an answer whose chunks never make the block grow, the caller reads the last
\* chunk when the request succeeds: the whole answer, if it came in one.
LastChunkIsReadBack ==
    \A c \in Caller :
        /\ at[c] = "idle" /\ outcome[c] = "success" /\ kind[c] \in ReadsBack
        /\ body[c] # << >> /\ NeverGrows(body[c])
        => buffer[c] = <<body[c][Len(body[c])]>>

\* Said of the program, and not what the code does (README, "Findings"):

\* publisher.c:44, query_json() sends a query and "read[s] back the response
\* string": a successful query leaves the whole answer in the caller's string.
AnswerIsReadBack ==
    \A c \in Caller :
        at[c] = "idle" /\ outcome[c] = "success" /\ kind[c] \in ReadsBack =>
            buffer[c] = body[c]
=============================================================================
