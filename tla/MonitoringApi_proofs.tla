------------------------ MODULE MonitoringApi_proofs ------------------------
(***************************************************************************)
(* Proofs about MonitoringApi, for any metrics, any number of lines and    *)
(* any number of calls of mf_start() and mf_send().                        *)
(***************************************************************************)
EXTENDS MonitoringApi, TLAPS

Quiet == {"none", "done"}

\* A monitor that runs was created by the last mf_start() that created any,
\* is one that mf_end() joins, and runs only until mf_end() has returned.
\* A name the library has no monitor for never runs.
ActiveInv ==
    /\ \A m \in Metric : monitor[m] \notin Quiet =>
            /\ m \in Known
            /\ m \in asked \ missing
            /\ app \in {"create", "monitoring", "join", "exited", "crashed"}

\* Only a monitor between fopen() and fclose() has lines in a buffer.
BufferInv ==
    /\ \A m \in Known : monitor[m] \in Quiet \cup {"open"} => buffered[m] = {}
    /\ buffered[User] = {}

\* A monitor that is about to write has room for a line.
RoomInv == \A m \in Known : monitor[m] = "sleep" => taken[m] < MaxLines

\* An element of threads[] is missing only when the last mf_start() returned NULL.
MissingInv == app \in {"monitoring", "join"} /\ missing # {} => refused

\* The log is closed by mf_send() only, and opened again by mf_start().
LogInv ==
    /\ logFile = "closed" => resent \in {1, 2}
    /\ app = "sending" => resent \in {1, 2}
    /\ app = "sending" /\ logFile = "closed" => resent = 2

IInv ==
    /\ TypeOK
    /\ ActiveInv
    /\ BufferInv
    /\ RoomInv
    /\ MissingInv
    /\ LogInv
    /\ LossNeedsFailedRequest
    /\ CrashHasCause

-----------------------------------------------------------------------------

\* Where a crash can happen no thread is left that holds lines in a buffer.
LEMMA BuffersEmpty ==
    ASSUME ActiveInv, BufferInv,
           \/ app \in {"idle", "configure", "ended", "sending"}
           \/ app = "join" /\ Joined
    PROVE  \A f \in File : buffered[f] = {}
<1>1. \A m \in Known : monitor[m] \in Quiet
  BY DEF ActiveInv, Joined, Quiet, Metric
<1> QED
  BY <1>1 DEF BufferInv, File

\* Before the first call.
LEMMA InitInv == Init => IInv
<1> SUFFICES ASSUME Init PROVE IInv
  OBVIOUS
<1>1. TypeOK
  <2>1. 0 \in 0 .. MaxLines /\ 0 \in 0 .. MaxStarts /\ 0 \in 0 .. MaxSends
    BY ApiAssumption
  <2>2. app \in AppAt /\ monitor \in [Metric -> MonitorAt]
    BY DEF Init, AppAt, MonitorAt
  <2>3. taken \in [File -> 0 .. MaxLines]
    BY <2>1 DEF Init
  <2>4. /\ buffered \in [File -> SUBSET (1 .. MaxLines)]
        /\ disk \in [File -> SUBSET (1 .. MaxLines)]
        /\ server \in [File -> SUBSET (1 .. MaxLines)]
    BY DEF Init
  <2>5. asked \in SUBSET Metric /\ missing \in SUBSET asked /\ toSend \in SUBSET File
    BY DEF Init
  <2>6. /\ running \in BOOLEAN /\ keep \in BOOLEAN /\ path \in BOOLEAN /\ dir \in BOOLEAN
        /\ failed \in BOOLEAN /\ refused \in BOOLEAN /\ moved \in BOOLEAN
        /\ logFile \in {"null", "open", "closed"}
    BY Zenon DEF Init
  <2>7. starts \in 0 .. MaxStarts /\ sends \in 0 .. MaxSends /\ resent \in 0 .. 2
    BY <2>1 DEF Init
  <2> QED
    BY <2>2, <2>3, <2>4, <2>5, <2>6, <2>7 DEF TypeOK
<1>2. ActiveInv /\ BufferInv /\ RoomInv /\ MissingInv /\ LogInv /\ CrashHasCause
  BY DEF Init, ActiveInv, Quiet, BufferInv, RoomInv, MissingInv, LogInv, CrashHasCause,
      Metric, File
<1>3. LossNeedsFailedRequest
  BY DEF Init, LossNeedsFailedRequest, Lost, Held
<1> QED
  BY <1>1, <1>2, <1>3 DEF IInv

\* mf_start(), call by call and thread by thread.
LEMMA StartStep == IInv /\ Start => IInv'
<1> SUFFICES ASSUME IInv, Start PROVE IInv'
  OBVIOUS
<1> USE DEF IInv, control, place, data, sending, history, counts
<1>1. LossNeedsFailedRequest'
  <2>1. /\ UNCHANGED <<taken, buffered, disk, server, failed>>
        /\ app # "crashed"
        /\ app' = "crashed" => app = "configure"
    BY DEF Start, CallStart, PrepareExits, ConfigFails, ConfigCrashes, ConfigSucceeds,
        CreateFails, StartReturns, CreateMonitor, AppStep
  <2>2. app' = "crashed" => \A f \in File : buffered[f] = {}
    BY <2>1, BuffersEmpty
  <2> QED
    BY <2>1, <2>2 DEF LossNeedsFailedRequest, Lost, Held
<1>2. CASE CallStart
  <2>1. TypeOK'
    <3>1. path' \in BOOLEAN /\ dir' \in BOOLEAN /\ logFile' \in {"null", "open", "closed"}
      BY <1>2, Zenon DEF TypeOK, CallStart, Prepare
    <3>2. starts' \in 0 .. MaxStarts /\ resent' \in 0 .. 2 /\ app' \in AppAt
      BY <1>2, ApiAssumption DEF TypeOK, CallStart, AppStep, AppAt
    <3>3. UNCHANGED <<running, keep, asked, missing, monitor, data, sending, refused, moved,
                      sends>>
      BY <1>2 DEF CallStart
    <3> QED
      BY <3>1, <3>2, <3>3 DEF TypeOK
  <2>2. (ActiveInv /\ BufferInv /\ RoomInv /\ MissingInv /\ LogInv /\ CrashHasCause)'
    BY <1>2 DEF ActiveInv, BufferInv, RoomInv, MissingInv, LogInv, CrashHasCause,
        CallStart, AppStep, Prepare
  <2> QED
    BY <1>1, <2>1, <2>2
<1>3. CASE PrepareExits \/ ConfigFails \/ ConfigCrashes \/ CreateFails \/ StartReturns
  <2>1. TypeOK'
    <3>1. app' \in AppAt
      BY <1>3 DEF PrepareExits, ConfigFails, ConfigCrashes, CreateFails, StartReturns,
          AppStep, AppAt
    <3>2. refused' \in BOOLEAN /\ moved' \in BOOLEAN
      BY <1>3, Zenon DEF TypeOK, PrepareExits, ConfigFails, ConfigCrashes, CreateFails,
          StartReturns
    <3>3. UNCHANGED <<running, keep, asked, missing, monitor, place, data, sending, resent,
                      counts>>
      BY <1>3 DEF PrepareExits, ConfigFails, ConfigCrashes, CreateFails, StartReturns
    <3> QED
      BY <3>1, <3>2, <3>3 DEF TypeOK
  <2>2. (ActiveInv /\ BufferInv /\ RoomInv /\ MissingInv /\ LogInv /\ CrashHasCause)'
    BY <1>3 DEF ActiveInv, BufferInv, RoomInv, MissingInv, LogInv, CrashHasCause,
        PrepareExits, ConfigFails, ConfigCrashes, CreateFails, StartReturns, AppStep
  <2> QED
    BY <1>1, <2>1, <2>2
<1>4. CASE ConfigSucceeds
  <2>1. TypeOK'
    BY <1>4 DEF TypeOK, ConfigSucceeds, AppStep, AppAt
  <2>2. (ActiveInv /\ BufferInv /\ RoomInv /\ MissingInv /\ LogInv /\ CrashHasCause)'
    BY <1>4 DEF ActiveInv, BufferInv, RoomInv, MissingInv, LogInv, CrashHasCause,
        ConfigSucceeds, AppStep
  <2> QED
    BY <1>1, <2>1, <2>2
<1>5. ASSUME NEW m \in Metric, CreateMonitor(m)
      PROVE  IInv'
  <2>1. TypeOK'
    BY <1>5 DEF TypeOK, CreateMonitor, MonitorAt
  <2>2. monitor[m] \in Quiet
    BY <1>5 DEF CreateMonitor, ActiveInv
  <2>3. (ActiveInv /\ BufferInv /\ RoomInv)'
    BY <1>5, <2>2 DEF TypeOK, CreateMonitor, ActiveInv, BufferInv, RoomInv, Quiet, Metric
  <2>4. (MissingInv /\ LogInv /\ CrashHasCause)'
    BY <1>5 DEF MissingInv, LogInv, CrashHasCause, CreateMonitor
  <2> QED
    BY <1>1, <2>1, <2>3, <2>4
<1> QED
  BY <1>2, <1>3, <1>4, <1>5 DEF Start

\* A monitor's thread: only its own file changes, and no line is dropped.
LEMMA MonitorStepInv == IInv /\ (\E m \in Metric : Monitor(m)) => IInv'
<1> SUFFICES ASSUME IInv, NEW m \in Metric, Monitor(m) PROVE IInv'
  OBVIOUS
<1> USE DEF IInv, control, place, sending, history, counts
<1>1. m \in Known /\ m \in File
  <2>1. monitor[m] \notin Quiet \/ m \in Fatal
    BY DEF Monitor, MonitorExits, OpenFile, OpenFileFails, TestRunning, WriteSample,
        SkipSample, CloseFile, MonitorStep, Quiet
  <2> QED
    BY <2>1, ApiAssumption DEF ActiveInv, File
<1>2. /\ taken \in [File -> 0 .. MaxLines]
      /\ buffered \in [File -> SUBSET (1 .. MaxLines)]
      /\ disk \in [File -> SUBSET (1 .. MaxLines)]
      /\ monitor \in [Metric -> MonitorAt]
      /\ MaxLines \in Nat
  BY ApiAssumption DEF TypeOK
<1>3. CASE MonitorExits(m)
  <2>1. TypeOK'
    <3>1. /\ disk' \in [File -> SUBSET (1 .. MaxLines)]
          /\ buffered' \in [File -> SUBSET (1 .. MaxLines)]
      BY <1>2, <1>3 DEF MonitorExits
    <3> QED
      BY <1>3, <3>1 DEF TypeOK, MonitorExits, AppAt
  <2>2. (ActiveInv /\ RoomInv /\ MissingInv /\ LogInv /\ CrashHasCause)'
    BY <1>3 DEF ActiveInv, RoomInv, MissingInv, LogInv, CrashHasCause, MonitorExits
  <2>3. BufferInv'
    BY <1>3 DEF BufferInv, MonitorExits, File
  <2>4. LossNeedsFailedRequest'
    BY <1>2, <1>3 DEF LossNeedsFailedRequest, Lost, Held, MonitorExits
  <2> QED
    BY <2>1, <2>2, <2>3, <2>4
<1>4. ASSUME NEW from, NEW to \in MonitorAt, MonitorStep(m, from, to), from \notin Quiet,
             UNCHANGED <<taken, buffered, disk>>,
             to \in Quiet \cup {"open"} => buffered[m] = {},
             to = "sleep" => taken[m] < MaxLines
      PROVE  IInv'
  <2>1. monitor' = [monitor EXCEPT ![m] = to] /\ monitor[m] = from
    BY <1>4 DEF MonitorStep
  <2>2. TypeOK'
    BY <1>2, <1>4, <2>1 DEF TypeOK, MonitorStep
  <2>3. (ActiveInv /\ BufferInv /\ RoomInv)'
    BY <1>1, <1>2, <1>4, <2>1 DEF ActiveInv, BufferInv, RoomInv, MonitorStep, Metric
  <2>4. (MissingInv /\ LogInv /\ CrashHasCause /\ LossNeedsFailedRequest)'
    BY <1>4 DEF MissingInv, LogInv, CrashHasCause, LossNeedsFailedRequest, Lost, Held,
        MonitorStep
  <2> QED
    BY <2>2, <2>3, <2>4
<1>5. CASE OpenFile(m) \/ SkipSample(m)
  BY <1>4, <1>5 DEF OpenFile, SkipSample, Quiet, MonitorAt
<1>6. CASE OpenFileFails(m)
  <2>1. monitor[m] = "open"
    BY <1>6 DEF OpenFileFails, MonitorStep
  <2>2. buffered[m] = {}
    BY <1>1, <2>1 DEF BufferInv
  <2> QED
    BY <1>4, <1>6, <2>2 DEF OpenFileFails, Quiet, MonitorAt
<1>7. CASE TestRunning(m)
  <2>1. CASE running
    BY <1>4, <1>7, <2>1 DEF TestRunning, Quiet, MonitorAt
  <2>2. CASE ~running
    BY <1>4, <1>7, <2>2 DEF TestRunning, Quiet, MonitorAt
  <2> QED
    BY <2>1, <2>2
<1>8. ASSUME NEW to, MonitorStep(m, monitor[m], to), to \in {"test", "done"},
             monitor[m] \notin Quiet,
             NEW new \in SUBSET (1 .. MaxLines), NEW k \in 0 .. MaxLines,
             taken' = [taken EXCEPT ![m] = k],
             1 .. k \subseteq (1 .. taken[m]) \cup new,
             \/ /\ buffered' = [buffered EXCEPT ![m] = buffered[m] \cup new]
                /\ disk' = disk
                /\ to = "test"
             \/ /\ buffered' = [buffered EXCEPT ![m] = {}]
                /\ disk' = [disk EXCEPT ![m] = disk[m] \cup (buffered[m] \cup new)]
      PROVE  IInv'
  <2>1. monitor' = [monitor EXCEPT ![m] = to]
    BY <1>8 DEF MonitorStep
  <2>2. /\ taken' \in [File -> 0 .. MaxLines]
        /\ buffered' \in [File -> SUBSET (1 .. MaxLines)]
        /\ disk' \in [File -> SUBSET (1 .. MaxLines)]
        /\ monitor' \in [Metric -> MonitorAt]
    <3>1. buffered[m] \cup new \in SUBSET (1 .. MaxLines)
      BY <1>1, <1>2, <1>8
    <3>2. disk[m] \cup (buffered[m] \cup new) \in SUBSET (1 .. MaxLines)
      BY <1>1, <1>2, <1>8
    <3> QED
      BY <1>2, <1>8, <2>1, <3>1, <3>2 DEF MonitorAt
  <2>3. TypeOK'
    BY <1>8, <2>2 DEF TypeOK, MonitorStep
  <2>4. (ActiveInv /\ BufferInv /\ RoomInv)'
    <3>1. m # User
      BY <1>1, ApiAssumption
    <3>2. ActiveInv'
      BY <1>1, <1>2, <1>8, <2>1 DEF ActiveInv, MonitorStep
    <3>3. BufferInv'
      BY <1>1, <1>2, <1>8, <2>1, <3>1 DEF BufferInv, Quiet, Metric, File
    <3>4. RoomInv'
      BY <1>1, <1>2, <1>8, <2>1 DEF RoomInv, Metric, File
    <3> QED
      BY <3>2, <3>3, <3>4
  <2>5. (MissingInv /\ LogInv /\ CrashHasCause)'
    BY <1>8 DEF MissingInv, LogInv, CrashHasCause, MonitorStep
  <2>6. LossNeedsFailedRequest'
    <3> SUFFICES ASSUME ~failed, NEW f \in File,
                        NEW l \in 1 .. taken'[f]
                 PROVE  l \in buffered'[f] \cup disk'[f] \cup server[f]
      BY <1>8 DEF LossNeedsFailedRequest, Lost, Held, MonitorStep, control
    <3>1. \A i \in 1 .. taken[f] : i \in buffered[f] \cup disk[f] \cup server[f]
      BY <1>8 DEF LossNeedsFailedRequest, Lost, Held, MonitorStep
    <3>2. CASE f = m
      <4>1. l \in (1 .. taken[m]) \cup new
        BY <1>1, <1>2, <1>8, <3>2
      <4>2. l \in buffered[m] \cup disk[m] \cup server[m] \cup new
        BY <3>1, <3>2, <4>1
      <4>3. buffered[m] \cup disk[m] \cup new \subseteq buffered'[m] \cup disk'[m]
        BY <1>1, <1>2, <1>8
      <4> QED
        BY <3>2, <4>2, <4>3
    <3>3. CASE f # m
      BY <1>2, <1>8, <3>1, <3>3
    <3> QED
      BY <3>2, <3>3
  <2> QED
    BY <2>3, <2>4, <2>5, <2>6
<1>9. CASE WriteSample(m)
  <2> DEFINE k == taken[m] + 1
             new == {k}
  <2>1. monitor[m] = "sleep" /\ MonitorStep(m, monitor[m], "test")
    BY <1>9 DEF WriteSample, MonitorStep
  <2>2. taken[m] \in Nat /\ taken[m] < MaxLines
    BY <1>1, <1>2, <2>1 DEF RoomInv
  <2>3. k \in 0 .. MaxLines /\ new \in SUBSET (1 .. MaxLines)
    BY <1>2, <2>2
  <2>4. 1 .. k \subseteq (1 .. taken[m]) \cup new
    BY <2>2
  <2>5. /\ taken' = [taken EXCEPT ![m] = k]
        /\ \/ /\ buffered' = [buffered EXCEPT ![m] = buffered[m] \cup new]
              /\ disk' = disk
           \/ /\ buffered' = [buffered EXCEPT ![m] = {}]
              /\ disk' = [disk EXCEPT ![m] = disk[m] \cup (buffered[m] \cup new)]
    BY <1>9 DEF WriteSample
  <2> QED
    BY <1>8, <2>1, <2>3, <2>4, <2>5 DEF Quiet
<1>10. CASE CloseFile(m)
  <2>1. monitor[m] = "close" /\ MonitorStep(m, monitor[m], "done")
    BY <1>10 DEF CloseFile, MonitorStep
  <2>2. taken[m] \in 0 .. MaxLines /\ taken' = [taken EXCEPT ![m] = taken[m]]
    BY <1>1, <1>2, <1>10 DEF CloseFile
  <2>3. /\ buffered' = [buffered EXCEPT ![m] = {}]
        /\ disk' = [disk EXCEPT ![m] = disk[m] \cup (buffered[m] \cup {})]
    BY <1>10 DEF CloseFile
  <2> QED
    BY <1>8, <2>1, <2>2, <2>3 DEF Quiet
<1> QED
  BY <1>3, <1>5, <1>6, <1>7, <1>9, <1>10 DEF Monitor

\* mf_end().
LEMMA EndStep == IInv /\ End => IInv'
<1> SUFFICES ASSUME IInv, End PROVE IInv'
  OBVIOUS
<1> USE DEF IInv, place, data, sending, history, counts
<1>1. TypeOK'
  BY DEF TypeOK, End, CallEnd, EndReturns, EndCrashes, AppStep, AppAt
<1>2. ActiveInv'
  BY DEF ActiveInv, End, CallEnd, EndReturns, EndCrashes, AppStep, Joined, Quiet
<1>3. (BufferInv /\ RoomInv /\ MissingInv /\ LogInv /\ CrashHasCause)'
  BY DEF BufferInv, RoomInv, MissingInv, LogInv, CrashHasCause, End, CallEnd, EndReturns,
      EndCrashes, AppStep
<1>4. LossNeedsFailedRequest'
  <2>1. EndCrashes => \A f \in File : buffered[f] = {}
    BY BuffersEmpty DEF EndCrashes, AppStep
  <2> QED
    BY <2>1 DEF LossNeedsFailedRequest, Lost, Held, End, CallEnd, EndReturns, EndCrashes,
        AppStep
<1> QED
  BY <1>1, <1>2, <1>3, <1>4

\* mf_user_metric().
LEMMA UserStep == IInv /\ UserMetric => IInv'
<1> SUFFICES ASSUME IInv, UserMetric PROVE IInv'
  OBVIOUS
<1> USE DEF IInv, control, sending, history, counts
<1>1. /\ taken \in [File -> 0 .. MaxLines] /\ disk \in [File -> SUBSET (1 .. MaxLines)]
      /\ User \in File /\ User \notin Known /\ MaxLines \in Nat /\ MaxUser \in 0 .. MaxLines
  BY ApiAssumption DEF TypeOK, File
<1>2. \/ UNCHANGED <<taken, disk>>
      \/ /\ taken' = [taken EXCEPT ![User] = taken[User] + 1]
         /\ disk' = [disk EXCEPT ![User] = disk[User] \cup {taken[User] + 1}]
         /\ taken[User] < MaxLines
  <2>1. taken[User] < MaxUser => taken[User] < MaxLines
    BY <1>1
  <2> QED
    BY <2>1 DEF UserMetric
<1>3. /\ taken' \in [File -> 0 .. MaxLines] /\ disk' \in [File -> SUBSET (1 .. MaxLines)]
      /\ \A m \in Known : taken'[m] = taken[m]
      /\ \A f \in File : (1 .. taken'[f]) \ disk'[f] \subseteq (1 .. taken[f]) \ disk[f]
  <2>1. CASE UNCHANGED <<taken, disk>>
    BY <1>1, <2>1 DEF File
  <2>2. CASE /\ taken' = [taken EXCEPT ![User] = taken[User] + 1]
             /\ disk' = [disk EXCEPT ![User] = disk[User] \cup {taken[User] + 1}]
             /\ taken[User] < MaxLines
    <3>1. taken[User] + 1 \in 0 .. MaxLines /\ taken[User] + 1 \in 1 .. MaxLines
      BY <1>1, <2>2
    <3>2. disk[User] \cup {taken[User] + 1} \in SUBSET (1 .. MaxLines)
      BY <1>1, <3>1
    <3>3. taken' \in [File -> 0 .. MaxLines] /\ disk' \in [File -> SUBSET (1 .. MaxLines)]
      BY <1>1, <2>2, <3>1, <3>2
    <3>4. \A f \in File : f # User => taken'[f] = taken[f] /\ disk'[f] = disk[f]
      BY <1>1, <2>2
    <3>5. (1 .. taken'[User]) \ disk'[User] \subseteq (1 .. taken[User]) \ disk[User]
      <4>1. taken'[User] = taken[User] + 1 /\ disk'[User] = disk[User] \cup {taken[User] + 1}
        BY <1>1, <2>2
      <4>2. taken[User] \in Nat
        BY <1>1
      <4> QED
        BY <4>1, <4>2
    <3> QED
      BY <1>1, <3>3, <3>4, <3>5 DEF File
  <2> QED
    BY <1>2, <2>1, <2>2
<1>4. /\ path' \in BOOLEAN /\ dir' \in BOOLEAN /\ logFile' \in {"null", "open", "closed"}
      /\ logFile' \in {logFile, "open", "null"}
  BY DEF TypeOK, UserMetric, Prepare, place
<1>5. TypeOK'
  BY <1>3, <1>4 DEF TypeOK, UserMetric
<1>6. (ActiveInv /\ BufferInv /\ RoomInv /\ MissingInv /\ LogInv /\ CrashHasCause)'
  BY <1>3, <1>4 DEF ActiveInv, BufferInv, RoomInv, MissingInv, LogInv, CrashHasCause,
      UserMetric
<1>7. LossNeedsFailedRequest'
  BY <1>3 DEF LossNeedsFailedRequest, Lost, Held, UserMetric
<1> QED
  BY <1>5, <1>6, <1>7

\* mf_send(), call by call and file by file.
LEMMA SendStep == IInv /\ Send => IInv'
<1> SUFFICES ASSUME IInv, Send PROVE IInv'
  OBVIOUS
<1> USE DEF IInv, control, place, data, sending, history, counts
<1>0. MaxSends \in Nat
  BY ApiAssumption
<1>1. CASE CallSend
  <2>1. TypeOK'
    BY <1>0, <1>1 DEF TypeOK, CallSend, AppStep, CountSend, AppAt
  <2>2. (ActiveInv /\ BufferInv /\ RoomInv /\ MissingInv /\ LogInv /\ CrashHasCause)'
    BY <1>1 DEF TypeOK, ActiveInv, BufferInv, RoomInv, MissingInv, LogInv, CrashHasCause,
        CallSend, AppStep, CountSend
  <2>3. LossNeedsFailedRequest'
    BY <1>1 DEF LossNeedsFailedRequest, Lost, Held, CallSend, AppStep
  <2> QED
    BY <2>1, <2>2, <2>3
<1>2. CASE SendRefused
  <2>1. TypeOK'
    BY <1>0, <1>2 DEF TypeOK, SendRefused, CountSend, AppAt
  <2>2. (ActiveInv /\ BufferInv /\ RoomInv /\ MissingInv /\ LogInv /\ CrashHasCause)'
    BY <1>2 DEF TypeOK, ActiveInv, BufferInv, RoomInv, MissingInv, LogInv, CrashHasCause,
        SendRefused, CountSend
  <2>3. LossNeedsFailedRequest'
    <3>1. \A f \in File : buffered[f] = {}
      BY <1>2, BuffersEmpty DEF SendRefused
    <3> QED
      BY <1>2, <3>1 DEF LossNeedsFailedRequest, Lost, Held, SendRefused
  <2> QED
    BY <2>1, <2>2, <2>3
<1>3. CASE SendReturns \/ SendCrashes
  <2>1. TypeOK'
    BY <1>3 DEF TypeOK, SendReturns, SendCrashes, AppStep, AppAt
  <2>2. (ActiveInv /\ BufferInv /\ RoomInv /\ MissingInv /\ LogInv /\ CrashHasCause)'
    BY <1>3 DEF TypeOK, ActiveInv, BufferInv, RoomInv, MissingInv, LogInv, CrashHasCause,
        SendReturns, SendCrashes, AppStep
  <2>3. LossNeedsFailedRequest'
    <3>1. \A f \in File : buffered[f] = {}
      BY <1>3, BuffersEmpty DEF SendReturns, SendCrashes, AppStep
    <3> QED
      BY <1>3, <3>1 DEF LossNeedsFailedRequest, Lost, Held, SendReturns, SendCrashes
  <2> QED
    BY <2>1, <2>2, <2>3
<1>4. ASSUME NEW f \in File, SendFile(f) \/ SendFileFails(f)
      PROVE  IInv'
  <2>1. /\ disk \in [File -> SUBSET (1 .. MaxLines)]
        /\ server \in [File -> SUBSET (1 .. MaxLines)]
    BY DEF TypeOK
  <2>2. disk' \in [File -> SUBSET (1 .. MaxLines)]
    BY <1>4, <2>1 DEF SendFile, SendFileFails, RemoveFile
  <2>3. server' \in [File -> SUBSET (1 .. MaxLines)]
    <3>1. \A lines \in SUBSET disk[f] : server[f] \cup lines \in SUBSET (1 .. MaxLines)
      BY <2>1
    <3>2. server[f] \cup disk[f] \in SUBSET (1 .. MaxLines)
      BY <2>1
    <3>3. CASE SendFile(f)
      BY <2>1, <3>2, <3>3 DEF SendFile
    <3>4. CASE SendFileFails(f)
      BY <2>1, <3>1, <3>4 DEF SendFileFails
    <3> QED
      BY <1>4, <3>3, <3>4
  <2>4. /\ UNCHANGED <<app, running, keep, asked, missing, monitor, path, dir, logFile, taken,
                       buffered, refused, resent, moved, starts, sends>>
        /\ toSend' = toSend \ {f}
        /\ failed' \in {failed, TRUE}
    BY <1>4 DEF SendFile, SendFileFails
  <2>5. TypeOK'
    BY <2>2, <2>3, <2>4 DEF TypeOK
  <2>6. (ActiveInv /\ BufferInv /\ RoomInv /\ MissingInv /\ LogInv /\ CrashHasCause)'
    BY <2>4 DEF ActiveInv, BufferInv, RoomInv, MissingInv, LogInv, CrashHasCause
  <2>7. LossNeedsFailedRequest'
    <3>1. CASE SendFileFails(f)
      BY <3>1 DEF SendFileFails, LossNeedsFailedRequest
    <3>2. CASE SendFile(f)
      <4>1. \A g \in File : disk[g] \cup server[g] \subseteq disk'[g] \cup server'[g]
        BY <2>1, <3>2 DEF SendFile, RemoveFile
      <4> QED
        BY <2>4, <3>2, <4>1 DEF LossNeedsFailedRequest, Lost, Held, SendFile
    <3> QED
      BY <1>4, <3>1, <3>2
  <2> QED
    BY <2>5, <2>6, <2>7
<1> QED
  BY <1>1, <1>2, <1>3, <1>4 DEF Send
-----------------------------------------------------------------------------
(* The theorems *)

\* The inductive invariant of an application that uses the library.
THEOREM ApiInvariant == Spec => []IInv
<1>1. IInv /\ [Next]_vars => IInv'
  <2> SUFFICES ASSUME IInv, [Next]_vars PROVE IInv'
    OBVIOUS
  <2>1. CASE UNCHANGED vars
    BY <2>1 DEF vars, control, place, data, sending, history, counts, IInv, TypeOK, ActiveInv,
        BufferInv, RoomInv, MissingInv, LogInv, LossNeedsFailedRequest, Lost, Held,
        CrashHasCause
  <2> QED
    BY <2>1, StartStep, MonitorStepInv, EndStep, UserStep, SendStep DEF Next
<1> QED
  BY <1>1, InitInv, PTL DEF Spec

\* mf_api.c keeps its types: no monitor writes past the lines there is room
\* for, mf_end() misses only elements of threads[] that num_threads counts.
THEOREM ApiTypeCorrect == Spec => []TypeOK
<1>1. IInv => TypeOK
  BY DEF IInv
<1> QED
  BY <1>1, ApiInvariant, PTL

\* From when mf_end() returns until the next start no monitor runs, and every
\* line written is in its file, for any metrics and however starts failed.
THEOREM EndFlushes == Spec => []EndLeavesDataOnDisk
<1>1. IInv => EndLeavesDataOnDisk
  BY DEF IInv, EndLeavesDataOnDisk, ActiveInv, BufferInv, Quiet, Metric
<1> QED
  BY <1>1, ApiInvariant, PTL

\* mf_send(), exit() and a crash lose a line only after a request has failed or
\* was refused by the server.
THEOREM NothingLost == Spec => []LossNeedsFailedRequest
<1>1. IInv => LossNeedsFailedRequest
  BY DEF IInv
<1> QED
  BY <1>1, ApiInvariant, PTL

\* The library crashes only for the four causes that the property names: a start
\* that returned NULL, a repeated send, a log that could not be opened, an answer
\* that outgrew its block; the order start, end, send itself is safe.
THEOREM CrashesExplained == Spec => []CrashHasCause
<1>1. IInv => CrashHasCause
  BY DEF IInv
<1> QED
  BY <1>1, ApiInvariant, PTL
=============================================================================
