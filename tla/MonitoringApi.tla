--------------------------- MODULE MonitoringApi ---------------------------
(***************************************************************************)
(* The client library that an application links: mf_api.c and its three    *)
(* monitors.  mf_start() creates a thread for each metric asked for, which *)
(* appends samples to a local file; mf_end() stops the threads; mf_send()  *)
(* sends the files and, unless they are to be kept, removes them;          *)
(* mf_user_metric() appends to a file of its own.                          *)
(*                                                                         *)
(* The application calls them from one thread, in the order the README     *)
(* gives: start, end, send, with user metrics at any time.  Like the       *)
(* README's example it may call mf_end() and mf_send() whatever mf_start() *)
(* has returned.  The lines of a file are numbered; which of them a        *)
(* publish_file() that goes wrong delivers is module PublishFile.          *)
(***************************************************************************)
EXTENDS Naturals, FiniteSets

CONSTANTS
    Known,      \* the metrics the library has a monitor for
    Unknown,    \* other names an application may ask for
    Fatal,      \* monitors that call exit() when a file or counter fails them
    Skipping,   \* monitors that may leave a sample out (power)
    User,       \* the file of the user-defined metrics
    MaxLines,   \* bound: lines of each file
    MaxUser,    \* bound: user-defined metrics, at most MaxLines
    MaxStarts,  \* bound: calls of mf_start()
    MaxSends    \* bound: calls of mf_send()

ASSUME ApiAssumption ==
    /\ Known \cap Unknown = {} /\ User \notin Known
    /\ Fatal \subseteq Known /\ Skipping \subseteq Known
    /\ MaxLines \in Nat /\ MaxUser \in 0 .. MaxLines
    /\ MaxStarts \in Nat /\ MaxSends \in Nat

Metric == Known \cup Unknown
File == Known \cup {User}

VARIABLES
    app,        \* what the application's thread is doing
    running,    \* the flag the monitors test
    keep,       \* keep_local_data_flag
    asked,      \* the metrics that num_threads counts
    missing,    \* those whose element of threads[] is not a thread to join
    monitor,    \* where each monitor's thread is
    path,       \* DataPath is set
    dir,        \* the directory it names exists
    logFile,    \* "null" (not opened yet, or fopen() failed), "open" or "closed"
    taken,      \* lines written to each file
    buffered,   \* those still in the buffer of the thread's FILE
    disk,       \* those in the file
    server,     \* those the server has received
    toSend,     \* directory entries mf_send() has not come to yet
    failed,     \* a request of some mf_send() has failed, or was refused by the server
    refused,    \* history: the last mf_start() has returned NULL
    resent,     \* history: mf_send() was called since mf_start(): 0, 1, 2 or more
    moved,      \* the answer in use has outgrown its caller's block, which is freed
    starts,
    sends

control == <<app, running, keep, asked, missing>>
place == <<path, dir, logFile>>
data == <<taken, buffered, disk, server>>
sending == <<toSend, failed>>
history == <<refused, resent, moved>>
counts == <<starts, sends>>
vars == <<control, monitor, place, data, sending, history, counts>>

AppAt == {"idle", "configure", "create", "monitoring", "join", "ended", "sending", "exited",
          "crashed"}
MonitorAt == {"none", "open", "test", "sleep", "close", "done"}

TypeOK ==
    /\ app \in AppAt
    /\ running \in BOOLEAN
    /\ keep \in BOOLEAN
    /\ asked \in SUBSET Metric
    /\ missing \in SUBSET asked
    /\ monitor \in [Metric -> MonitorAt]
    /\ path \in BOOLEAN
    /\ dir \in BOOLEAN
    /\ logFile \in {"null", "open", "closed"}
    /\ taken \in [File -> 0 .. MaxLines]
    /\ buffered \in [File -> SUBSET (1 .. MaxLines)]
    /\ disk \in [File -> SUBSET (1 .. MaxLines)]
    /\ server \in [File -> SUBSET (1 .. MaxLines)]
    /\ toSend \in SUBSET File
    /\ failed \in BOOLEAN
    /\ refused \in BOOLEAN
    /\ resent \in 0 .. 2
    /\ moved \in BOOLEAN
    /\ starts \in 0 .. MaxStarts
    /\ sends \in 0 .. MaxSends

Init ==
    /\ app = "idle"
    /\ running = FALSE
    /\ keep = TRUE
    /\ asked = {}
    /\ missing = {}
    /\ monitor = [m \in Metric |-> "none"]
    /\ path = FALSE
    /\ dir = FALSE
    /\ logFile = "null"
    /\ taken = [f \in File |-> 0]
    /\ buffered = [f \in File |-> {}]
    /\ disk = [f \in File |-> {}]
    /\ server = [f \in File |-> {}]
    /\ toSend = {}
    /\ failed = FALSE
    /\ refused = FALSE
    /\ resent = 0
    /\ moved = FALSE
    /\ starts = 0
    /\ sends = 0

AppStep(from, to) == app \in from /\ app' = to

-----------------------------------------------------------------------------
(* mf_start() *)

\* Fault: only when DataPath is not set yet, as mf_user_metric() does.
Prepare_Once ==
    /\ path' = TRUE
    /\ dir' \in {TRUE, dir}
    /\ logFile' \in IF path THEN {logFile} ELSE {"open", "null"}

\* api_prepare(): the log file is opened (again) and the directory made if it is
\* missing; neither fopen() nor mkdir() failing has a consequence here.
Prepare ==
    /\ path' = TRUE
    /\ dir' \in {TRUE, dir}
    /\ logFile' \in {"open", "null"}

\* readlink() fails in api_prepare(): exit(0), while no monitor runs.
PrepareExits ==
    /\ AppStep({"idle", "ended"}, "exited")
    /\ UNCHANGED <<running, keep, asked, missing, monitor, place, data, sending, history,
                   counts>>

CallStart ==
    /\ AppStep({"idle", "ended"}, "configure")
    /\ starts < MaxStarts
    /\ starts' = starts + 1
    /\ resent' = 0
    /\ Prepare
    /\ UNCHANGED <<running, keep, asked, missing, monitor, data, sending, refused, moved,
                   sends>>

\* get_config_parameters() fails: NULL is returned and nothing was started, but
\* num_threads and threads[] are those of the start before.
ConfigFails ==
    /\ app = "configure"
    /\ app' \in {"idle", "monitoring"}
    /\ refused' = TRUE
    /\ UNCHANGED <<running, keep, asked, missing, monitor, place, data, sending, resent, moved,
                   counts>>

\* A failing query is written to the log; or get_stream_data() has moved the block
\* for the answer, and the caller reads freed memory (if that does no harm, what it
\* finds there is an answer that fails or one that succeeds).
ConfigCrashes ==
    /\ AppStep({"configure"}, "crashed")
    /\ moved' \in BOOLEAN
    /\ moved' \/ logFile = "null"
    /\ UNCHANGED <<running, keep, asked, missing, monitor, place, data, sending, refused,
                   resent, counts>>

ConfigSucceeds ==
    /\ AppStep({"configure"}, "create")
    /\ running' = TRUE
    /\ keep' \in BOOLEAN
    /\ asked' \in SUBSET Metric
    /\ missing' = asked'
    /\ UNCHANGED <<monitor, place, data, sending, history, counts>>

\* pthread_create(); MonitorStart() picks the monitor by the metric's name.
CreateMonitor(m) ==
    /\ app = "create"
    /\ m \in missing
    /\ missing' = missing \ {m}
    /\ monitor' = [monitor EXCEPT ![m] = IF m \in Known THEN "open" ELSE "done"]
    /\ UNCHANGED <<app, running, keep, asked, place, data, sending, history, counts>>

\* pthread_create() fails: NULL is returned, the threads already created run on
\* and num_threads counts the others as well.
CreateFails ==
    /\ AppStep({"create"}, "monitoring")
    /\ missing # {}
    /\ refused' = TRUE
    /\ UNCHANGED <<running, keep, asked, missing, monitor, place, data, sending, resent, moved,
                   counts>>

StartReturns ==
    /\ AppStep({"create"}, "monitoring")
    /\ missing = {}
    /\ refused' = FALSE
    /\ UNCHANGED <<running, keep, asked, missing, monitor, place, data, sending, resent, moved,
                   counts>>

-----------------------------------------------------------------------------
(* resources_monitor(), disk_monitor(), power_monitor() *)

MonitorStep(m, from, to) ==
    /\ app \notin {"exited", "crashed"}
    /\ monitor[m] = from
    /\ monitor' = [monitor EXCEPT ![m] = to]
    /\ UNCHANGED <<control, place, sending, history, counts, server>>

OpenFile(m) ==
    /\ MonitorStep(m, "open", "test")
    /\ dir
    /\ UNCHANGED <<taken, buffered, disk>>

\* disk_monitor() returns when it cannot open its file.
OpenFileFails(m) ==
    /\ MonitorStep(m, "open", "done")
    /\ m \notin Fatal
    /\ UNCHANGED <<taken, buffered, disk>>

\* Fault: the monitor loops until its file is full.
TestRunning_Ignored(m) ==
    /\ MonitorStep(m, "test", "sleep")
    /\ taken[m] < MaxLines
    /\ UNCHANGED <<taken, buffered, disk>>

TestRunning(m) ==
    /\ MonitorStep(m, "test", IF running THEN "sleep" ELSE "close")
    /\ running => taken[m] < MaxLines
    /\ UNCHANGED <<taken, buffered, disk>>

\* Fault: the line is counted before it is numbered.
WriteSample_LateNumber(m) ==
    /\ MonitorStep(m, "sleep", "test")
    /\ taken' = [taken EXCEPT ![m] = @ + 1]
    /\ buffered' = [buffered EXCEPT ![m] = @ \cup {taken'[m] + 1}]
    /\ UNCHANGED disk

\* The flag is not tested between the sleep and the write.  The line goes to
\* the buffer of the FILE, which stdio writes out when it is full.
WriteSample(m) ==
    /\ MonitorStep(m, "sleep", "test")
    /\ taken' = [taken EXCEPT ![m] = @ + 1]
    /\ LET pending == buffered[m] \cup {taken[m] + 1}
       IN \/ /\ buffered' = [buffered EXCEPT ![m] = pending]
             /\ UNCHANGED disk
          \/ /\ buffered' = [buffered EXCEPT ![m] = {}]
             /\ disk' = [disk EXCEPT ![m] = @ \cup pending]

\* calcualte_and_update() finds no increase: power_monitor() writes nothing.
SkipSample(m) ==
    /\ MonitorStep(m, "sleep", "test")
    /\ m \in Skipping
    /\ UNCHANGED <<taken, buffered, disk>>

CloseFile(m) ==
    /\ MonitorStep(m, "close", "done")
    /\ buffered' = [buffered EXCEPT ![m] = {}]
    /\ disk' = [disk EXCEPT ![m] = @ \cup buffered[m]]
    /\ UNCHANGED taken

\* A file of /proc or a counter fails: exit(0) in the monitor's thread ends the
\* application; stdio's buffers are written out.
MonitorExits(m) ==
    /\ app \notin {"exited", "crashed"}
    /\ m \in Fatal
    /\ monitor[m] \in {"open", "sleep"}
    /\ app' = "exited"
    /\ disk' = [f \in File |-> disk[f] \cup buffered[f]]
    /\ buffered' = [f \in File |-> {}]
    /\ UNCHANGED <<running, keep, asked, missing, monitor, place, taken, server, sending,
                   history, counts>>

Monitor(m) ==
    \/ OpenFile(m) \/ OpenFileFails(m) \/ TestRunning(m) \/ WriteSample(m)
    \/ SkipSample(m) \/ CloseFile(m) \/ MonitorExits(m)

-----------------------------------------------------------------------------
(* mf_end(), mf_user_metric(), mf_send() *)

CallEnd ==
    /\ AppStep({"monitoring"}, "join")
    /\ running' = FALSE
    /\ UNCHANGED <<keep, asked, missing, monitor, place, data, sending, history, counts>>

\* The threads that can be joined, all of which have ended.
\* Fault: mf_end() does not join.
Joined_Never == TRUE

Joined == \A m \in asked \ missing : monitor[m] = "done"

\* Joining what is missing is undefined: the call may fail and be ignored.
EndReturns ==
    /\ AppStep({"join"}, "ended")
    /\ Joined
    /\ missing' = asked
    /\ UNCHANGED <<running, keep, asked, monitor, place, data, sending, history, counts>>

\* ... or follow an identifier that was never set or is no longer valid.  The
\* elements of threads[] that were created come first.
EndCrashes ==
    /\ AppStep({"join"}, "crashed")
    /\ Joined
    /\ missing # {}
    /\ UNCHANGED <<running, keep, asked, missing, monitor, place, data, sending, history, counts>>

\* The file is opened, appended to and closed.  The directory may not have been
\* made, or removed by mf_send() while DataPath still names it: 0 is returned.
UserMetric ==
    /\ app \in {"idle", "monitoring", "ended"}
    /\ taken[User] < MaxUser
    /\ IF path THEN UNCHANGED place ELSE Prepare
    /\ IF dir'
          THEN /\ taken' = [taken EXCEPT ![User] = @ + 1]
               /\ disk' = [disk EXCEPT ![User] = @ \cup {taken[User] + 1}]
          ELSE UNCHANGED <<taken, disk>>
    /\ UNCHANGED <<control, monitor, buffered, server, sending, history, counts>>

CountSend ==
    /\ sends < MaxSends
    /\ sends' = sends + 1
    /\ resent' = IF resent = 0 THEN 1 ELSE 2

\* create_new_experiment() succeeds and the directory is read.  The experiment's
\* identifier, which every message contains, may be in a block that has moved.
CallSend ==
    /\ AppStep({"ended", "idle"}, "sending")
    /\ path /\ dir
    /\ CountSend
    /\ moved' \in BOOLEAN
    /\ toSend' = {f \in File : disk[f] # {}}
    /\ UNCHANGED <<running, keep, asked, missing, monitor, place, data, failed, refused, starts>>

\* No experiment, or no directory: NULL is returned, and the files stay.  That
\* the experiment was not created goes to the log.
SendRefused ==
    /\ app \in {"ended", "idle"} /\ path
    /\ CountSend
    /\ \/ UNCHANGED <<app, moved>>
       \/ /\ app' = "crashed"
          /\ moved' \in BOOLEAN
          /\ moved' \/ logFile # "open"
    /\ UNCHANGED <<running, keep, asked, missing, monitor, place, data, sending, refused, starts>>

\* What unlink() does after publish_file(), whatever that returned.
RemoveFile(f) == disk' = IF keep THEN disk ELSE [disk EXCEPT ![f] = {}]

\* Fault: unlink() before publish_file().
SendFile_RemovesFirst(f) ==
    /\ app = "sending"
    /\ f \in toSend
    /\ toSend' = toSend \ {f}
    /\ server' = IF keep THEN [server EXCEPT ![f] = @ \cup disk[f]] ELSE server
    /\ RemoveFile(f)
    /\ UNCHANGED <<control, monitor, place, taken, buffered, failed, history, counts>>

SendFile(f) ==
    /\ app = "sending"
    /\ f \in toSend
    /\ toSend' = toSend \ {f}
    /\ server' = [server EXCEPT ![f] = @ \cup disk[f]]
    /\ RemoveFile(f)
    /\ UNCHANGED <<control, monitor, place, taken, buffered, failed, history, counts>>

\* A request fails, and what follows is not sent; or the server answers with an
\* error status, which libcurl does not take for a failure, and stores nothing of it.
SendFileFails(f) ==
    /\ app = "sending"
    /\ f \in toSend
    /\ toSend' = toSend \ {f}
    /\ \E lines \in SUBSET disk[f] : server' = [server EXCEPT ![f] = @ \cup lines]
    /\ failed' = TRUE
    /\ RemoveFile(f)
    /\ UNCHANGED <<control, monitor, place, taken, buffered, history, counts>>

\* fclose(logFile) and, if nothing is kept, rmdir(); the experiment's
\* identifier is returned.
SendReturns ==
    /\ AppStep({"sending"}, "idle")
    /\ toSend = {}
    /\ logFile # "null"
    /\ logFile' = "closed"
    /\ dir' = keep
    /\ moved' = FALSE
    /\ UNCHANGED <<running, keep, asked, missing, monitor, path, data, sending, refused, resent,
                   counts>>

\* The log was never opened, or closed by an earlier mf_send(): writing that a
\* request failed to it, or closing it, may crash, and closing NULL does.  The
\* experiment's identifier may be in freed memory.
SendCrashes ==
    /\ AppStep({"sending"}, "crashed")
    /\ logFile # "open" \/ moved
    /\ UNCHANGED <<running, keep, asked, missing, monitor, place, data, sending, history, counts>>

Start == CallStart \/ PrepareExits \/ ConfigFails \/ ConfigCrashes \/ ConfigSucceeds
            \/ CreateFails \/ StartReturns \/ \E m \in Metric : CreateMonitor(m)
End == CallEnd \/ EndReturns \/ EndCrashes
Send == CallSend \/ SendRefused \/ SendReturns \/ SendCrashes
            \/ \E f \in File : SendFile(f) \/ SendFileFails(f)

Next == Start \/ End \/ UserMetric \/ Send \/ \E m \in Metric : Monitor(m)

Spec == Init /\ [][Next]_vars

\* The monitors' threads are scheduled, and mf_end() is once they are done.
Fairness == WF_vars(EndReturns) /\ \A m \in Metric : WF_vars(Monitor(m))
FairSpec == Spec /\ Fairness

-----------------------------------------------------------------------------
(* Properties *)

\* A crash, unlike exit(), takes along what is still in a buffer.
Held(f) == IF app = "crashed" THEN {} ELSE buffered[f]
Lost(f) == (1 .. taken[f]) \ (Held(f) \cup disk[f] \cup server[f])

\* From when mf_end() returns until monitoring starts again, mf_send() included,
\* no monitor is left, also not of a mf_start() that failed half-way, and every
\* line that one has written, the one after the flag was cleared included, is
\* in its file: mf_send() reads, and removes, only files that are complete.
EndLeavesDataOnDisk ==
    app \in {"idle", "ended", "sending"} => \A m \in Known :
        /\ monitor[m] \in {"none", "done"}
        /\ buffered[m] = {}

\* A line is only ever lost when a request failed or the server refused one:
\* removing the files after sending, restarting the monitoring, exit() in a
\* monitor and the crashes below lose none.
LossNeedsFailedRequest == ~failed => \A f \in File : Lost(f) = {}

\* However often the application starts, ends and sends, the library crashes for
\* one of four reasons only: the last mf_start() has returned NULL; mf_send() is
\* called again without a mf_start() between; api_prepare() could not open its
\* log; or the server's answer has outgrown its block.  The first two are the
\* application's, the others happen in the documented order of calls.  Else the
\* log is open whenever the library uses it, and every thread that mf_end()
\* joins exists and was not joined before.
CrashHasCause == app = "crashed" => refused \/ resent = 2 \/ logFile = "null" \/ moved

\* mf_end() returns: no monitor ignores the flag (power_monitor()'s "continue").
EndTerminates == (app = "join") ~> (app \in {"ended", "exited", "crashed"})

\* Said of the program, and not what the code does (README, "Findings"):

\* api/README.md:22, mf_send() "sends locally-stored predefined metrics to the
\* server"; "the execution ID will be returned on success": a line that is
\* gone from the disk when mf_send() has returned its ID is on the server.
SendLosesNothing == app = "idle" => \A f \in File : Lost(f) = {}
=============================================================================
