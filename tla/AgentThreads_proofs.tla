------------------------ MODULE AgentThreads_proofs ------------------------
(***************************************************************************)
(* Proofs about AgentThreads, for any number of plug-ins, any bulk size,   *)
(* any set of configuration files and any number of samples, signals and   *)
(* edits.  Each part of the invariant has a lemma that says that it is     *)
(* preserved; the theorems are at the end.                                 *)
(***************************************************************************)
EXTENDS AgentThreads, ConfigStore_proofs, SequenceTheorems

-----------------------------------------------------------------------------
(* main() and startThreads() *)

BeforeThreads == {"pid", "parse", "parsing", "prepare", "start"}
BeforeCatching == BeforeThreads \cup {"create", "install"}

\* How far main() is tells what the flags and the counters are: running is set
\* while threads are created, the catcher is installed after that, threads
\* are joined when it has fired, and the pool is destroyed last.
MainInv ==
    /\ main \in BeforeThreads => created = 0
    /\ created <= PluginCount => reload = "unborn"
    /\ main \in BeforeCatching => ~catching
    /\ main \in {"create", "install"} => running
    /\ main \notin {"join"} /\ ~SamplingOver => joined = 0
    /\ SamplingOver => joined = PluginCount
    /\ main # "exit" => pool # "destroyed"
    /\ main \in {"parsing", "prepare", "start"} => pool = "live"

\* A thread that is not created takes no step, one that is joined none any more.
ThreadsInv ==
    /\ \A t \in Thread : t >= created => gather[t] = "unborn"
    /\ \A t \in Thread : t < joined => gather[t] = "done"

-----------------------------------------------------------------------------
(* gatherMetric() *)

\* round counts the samples of the bulk that have been slept after.
RoundInv ==
    \A t \in Thread : gather[t] \in {"sample", "nap", "nap2", "asleep"} => round[t] < BulkSize

\* The buffer holds the samples taken last, in order, and is empty outside a
\* bulk: a thread that has left its loop has settled all its samples.
InBulk == {"nap", "nap2", "asleep", "send"}
BufferInv ==
    \A t \in Thread :
        /\ Len(buf[t]) <= taken[t]
        /\ buf[t] = Delivery!Run(taken[t] - Len(buf[t]), taken[t])
        /\ gather[t] \in {"unborn", "check", "done"} => Len(buf[t]) = 0
        /\ gather[t] \in InBulk => Len(buf[t]) > 0

\* After the signal the samples left to take are those left of the bulk.
StopInv ==
    catching /\ ~running =>
        \A t \in Thread :
            /\ taken[t] <= atStop[t] + BulkSize
            /\ gather[t] = "sample" => taken[t] <= atStop[t] + round[t]
            /\ gather[t] \in {"nap", "nap2", "asleep"} => taken[t] <= atStop[t] + round[t] + 1

-----------------------------------------------------------------------------
(* checkConf() *)

\* init_timings() reads a table that shows a whole file, never part of one.
ParsedInv ==
    /\ main \in {"prepare", "start"} => ParseDone /\ opened # Missing
    /\ main \notin BeforeThreads /\ reload # "parsing" => ParseDone

SlotInv == reload = "nsec" => slot < PluginCount

\* From the first init_timings() on, the intervals are values of some file.
IntervalInv ==
    main \notin BeforeThreads =>
        \A t \in Thread : (\A f \in Files : NamedIn(f, t)) =>
            /\ tvSec[t] \in {v \div SecondNs : v \in Named(t)}
            /\ tvNsec[t] \in {v % SecondNs : v \in Named(t)}

IInv ==
    /\ TypeOK
    /\ StoreInv
    /\ MainInv
    /\ ThreadsInv
    /\ RoundInv
    /\ BufferInv
    /\ StopInv
    /\ ParsedInv
    /\ SlotInv
    /\ IntervalInv

-----------------------------------------------------------------------------
(* Which actions change what *)

\* The variables of the plug-in threads change when such a thread is created,
\* takes a step or is woken by a signal.
LEMMA GatherFrame ==
    ASSUME [Next]_vars
    PROVE  \/ UNCHANGED gatherers
           \/ CreateThread
           \/ \E t \in Thread : Gather(t) \/ SignalGather(t)
<1>1. CASE Main
  BY <1>1 DEF Main, MainStep, ExitFrom, WriteTmpPID, WriteTmpPIDFails, UsageExit, MainParse,
      MainParseLine, MainParsed, MainParseFails, Prepare, PrepareFails, StartAgent,
      PluginExits, CreateThreadFails, ThreadsCreated, InstallCatcher, SeesStop,
      JoinThread, AllJoined, UnloadPlugins, CloseLog, RemovePidFile, CleanConfig,
      ExitSuccess, threads, gatherers
<1>2. CASE Reload
  BY <1>2 DEF Reload, ReloadStep, ReloadContinues, ReloadEnds, ReloadParse, ReloadParseLine,
      ReloadSleeps, ReloadWakes, SetTvSec, SetTvNsec, KeepTiming, TimingsDone, ReloadCrashes,
      threads, gatherers
<1>3. CASE Environment
  BY <1>3 DEF Environment, Catch, SignalElsewhere, SignalReload, SignalKills, SignalCrashes,
      EditFile, threads, gatherers, samples
<1>4. CASE UNCHANGED vars
  BY <1>4 DEF vars, threads
<1> QED
  BY <1>1, <1>2, <1>3, <1>4 DEF Next

\* The store changes when main() or the reloading thread parses, when main()
\* cleans up, and when the file is edited.
LEMMA StoreFrame ==
    ASSUME [Next]_vars
    PROVE  \/ UNCHANGED <<file, store, parser>>
           \/ MainParse \/ MainParseLine \/ ReloadParse \/ ReloadParseLine
           \/ CleanConfig
           \/ EditFile
<1>1. CASE Main
  BY <1>1 DEF Main, MainStep, ExitFrom, WriteTmpPID, WriteTmpPIDFails, UsageExit,
      MainParsed, MainParseFails, Prepare, PrepareFails, StartAgent, CreateThread,
      PluginExits, CreateThreadFails, ThreadsCreated, InstallCatcher, SeesStop,
      JoinThread, AllJoined, UnloadPlugins, CloseLog, RemovePidFile,
      ExitSuccess, config
<1>2. CASE Reload
  BY <1>2 DEF Reload, ReloadContinues, ReloadEnds,
      ReloadSleeps, ReloadWakes, SetTvSec, SetTvNsec, KeepTiming, TimingsDone, ReloadCrashes,
      config
<1>3. CASE Environment
  BY <1>3 DEF Environment, Catch, SignalElsewhere, SignalReload, SignalGather, SignalKills,
      SignalCrashes, config
<1>4. CASE \E t \in Thread : Gather(t)
  BY <1>4 DEF Gather, GatherStep, BeginBulk, LeaveLoop, Sample, ReadTvSec, ReadTvNsec,
      Wake, Publish, config
<1>5. CASE UNCHANGED vars
  BY <1>5 DEF vars, config
<1> QED
  BY <1>1, <1>2, <1>3, <1>4, <1>5 DEF Next

\* main() alone says how far it is, and creates and joins threads.
LEMMA MainFrame ==
    ASSUME [Next]_vars
    PROVE  Main \/ UNCHANGED <<main, created, joined, catching, files>>
<1>1. CASE Reload
  BY <1>1 DEF Reload, ReloadStep, ReloadContinues, ReloadEnds, ReloadParse, ReloadParseLine,
      ReloadSleeps, ReloadWakes, SetTvSec, SetTvNsec, KeepTiming, TimingsDone, ReloadCrashes,
      progress, flags
<1>2. CASE Environment
  BY <1>2 DEF Environment, Catch, SignalElsewhere, SignalReload, SignalGather, SignalKills,
      SignalCrashes, EditFile, progress, flags
<1>3. CASE \E t \in Thread : Gather(t)
  BY <1>3 DEF Gather, GatherStep, BeginBulk, LeaveLoop, Sample, ReadTvSec, ReadTvNsec,
      Wake, Publish, progress, flags
<1>4. CASE UNCHANGED vars
  BY <1>4 DEF vars, progress, flags
<1> QED
  BY <1>1, <1>2, <1>3, <1>4 DEF Next

\* running is set when the threads are about to start and cleared by the
\* catcher, which notes the samples taken.
LEMMA FlagFrame ==
    ASSUME [Next]_vars
    PROVE  \/ UNCHANGED <<running, atStop>>
           \/ StartAgent
           \/ Catch
<1>1. CASE Main
  BY <1>1 DEF Main, MainStep, ExitFrom, WriteTmpPID, WriteTmpPIDFails, UsageExit, MainParse,
      MainParseLine, MainParsed, MainParseFails, Prepare, PrepareFails, CreateThread,
      PluginExits, CreateThreadFails, ThreadsCreated, InstallCatcher, SeesStop,
      JoinThread, AllJoined, UnloadPlugins, CloseLog, RemovePidFile, CleanConfig,
      ExitSuccess, flags
<1>2. CASE Reload
  BY <1>2 DEF Reload, ReloadStep, ReloadContinues, ReloadEnds, ReloadParse, ReloadParseLine,
      ReloadSleeps, ReloadWakes, SetTvSec, SetTvNsec, KeepTiming, TimingsDone, ReloadCrashes,
      flags
<1>3. CASE Environment
  BY <1>3 DEF Environment, SignalElsewhere, SignalReload, SignalGather, SignalKills,
      SignalCrashes, EditFile, flags
<1>4. CASE \E t \in Thread : Gather(t)
  BY <1>4 DEF Gather, GatherStep, BeginBulk, LeaveLoop, Sample, ReadTvSec, ReadTvNsec,
      Wake, Publish, flags
<1>5. CASE UNCHANGED vars
  BY <1>5 DEF vars, flags
<1> QED
  BY <1>1, <1>2, <1>3, <1>4, <1>5 DEF Next

\* The reloading thread moves by itself, apart from its creation and a signal.
LEMMA ReloadFrame ==
    ASSUME [Next]_vars
    PROVE  \/ UNCHANGED reloader
           \/ CreateThread
           \/ Reload
           \/ SignalReload
<1>1. CASE Main
  BY <1>1 DEF Main, MainStep, ExitFrom, WriteTmpPID, WriteTmpPIDFails, UsageExit, MainParse,
      MainParseLine, MainParsed, MainParseFails, Prepare, PrepareFails, StartAgent,
      PluginExits, CreateThreadFails, ThreadsCreated, InstallCatcher, SeesStop,
      JoinThread, AllJoined, UnloadPlugins, CloseLog, RemovePidFile, CleanConfig,
      ExitSuccess, threads, reloader
<1>2. CASE Environment
  BY <1>2 DEF Environment, Catch, SignalElsewhere, SignalGather, SignalKills,
      SignalCrashes, EditFile, threads, reloader
<1>3. CASE \E t \in Thread : Gather(t)
  BY <1>3 DEF Gather, GatherStep, BeginBulk, LeaveLoop, Sample, ReadTvSec, ReadTvNsec,
      Wake, Publish, reloader
<1>4. CASE UNCHANGED vars
  BY <1>4 DEF vars, threads
<1> QED
  BY <1>1, <1>2, <1>3, <1>4 DEF Next

\* Intervals are written by init_timings() only.
LEMMA TimingFrame ==
    ASSUME [Next]_vars
    PROVE  UNCHANGED timings \/ StartAgent \/ SetTvSec \/ SetTvNsec
<1>1. CASE Main
  BY <1>1 DEF Main, MainStep, ExitFrom, WriteTmpPID, WriteTmpPIDFails, UsageExit, MainParse,
      MainParseLine, MainParsed, MainParseFails, Prepare, PrepareFails, CreateThread,
      PluginExits, CreateThreadFails, ThreadsCreated, InstallCatcher, SeesStop,
      JoinThread, AllJoined, UnloadPlugins, CloseLog, RemovePidFile, CleanConfig,
      ExitSuccess, threads
<1>2. CASE Reload
  BY <1>2 DEF Reload, ReloadStep, ReloadContinues, ReloadEnds, ReloadParse, ReloadParseLine,
      ReloadSleeps, ReloadWakes, KeepTiming, TimingsDone, ReloadCrashes, threads
<1>3. CASE Environment
  BY <1>3 DEF Environment, Catch, SignalElsewhere, SignalReload, SignalGather, SignalKills,
      SignalCrashes, EditFile, threads
<1>4. CASE \E t \in Thread : Gather(t)
  BY <1>4 DEF Gather, GatherStep, BeginBulk, LeaveLoop, Sample, ReadTvSec, ReadTvNsec,
      Wake, Publish
<1>5. CASE UNCHANGED vars
  BY <1>5 DEF vars, threads
<1> QED
  BY <1>1, <1>2, <1>3, <1>4, <1>5 DEF Next

-----------------------------------------------------------------------------
(* The store, and how far the process is *)

\* Only one parse at a time fills the table, main()'s and the reloading thread's
\* being ordered by its creation; what it has read is a prefix of its file.
LEMMA StoreStep == IInv /\ [Next]_vars => StoreInv'
<1> SUFFICES ASSUME IInv, [Next]_vars PROVE StoreInv'
  OBVIOUS
<1>1. CASE UNCHANGED <<file, store, parser>>
  BY <1>1 DEF IInv, StoreInv, StoreTypeOK, store, parser
<1>2. CASE MainParse \/ ReloadParse
  <2>1. file \in Files \cup {Missing}
    BY DEF IInv, StoreInv, StoreTypeOK
  <2>2. PICK f \in Files \cup {Missing} : ParseBegin(f)
    BY <1>2, <2>1 DEF MainParse, ReloadParse, ConfFiles
  <2> QED
    BY <2>2, ParseBeginInv DEF IInv
<1>3. CASE MainParseLine \/ ReloadParseLine
  BY <1>3, ParseLineInv DEF IInv, MainParseLine, ReloadParseLine
<1>4. CASE CleanConfig
  <2>1. pool # "destroyed"
    BY <1>4 DEF IInv, MainInv, CleanConfig, MainStep
  <2> QED
    BY <1>4, <2>1, ParseCleanInv DEF IInv, CleanConfig
<1>5. CASE EditFile
  BY <1>5, EditInv DEF IInv, EditFile
<1> QED
  BY <1>1, <1>2, <1>3, <1>4, <1>5, StoreFrame

\* main() goes through its phases in order: threads are created, the catcher
\* installed and the threads joined before anything is freed.
LEMMA MainInvStep == IInv /\ [Next]_vars => MainInv'
<1> SUFFICES ASSUME IInv, [Next]_vars PROVE MainInv'
  OBVIOUS
<1> USE DEF MainInv, BeforeThreads, BeforeCatching, SamplingOver
<1>0. created \in Nat /\ PluginCount \in Nat
  BY AgentAssumption DEF IInv, TypeOK
<1>1. CASE Main
  BY <1>0, <1>1 DEF IInv, Main, MainStep, ExitFrom, WriteTmpPID, WriteTmpPIDFails, UsageExit,
      MainParse,
      MainParseLine, MainParsed, MainParseFails, Prepare, PrepareFails, StartAgent,
      CreateThread, PluginExits, CreateThreadFails, ThreadsCreated, InstallCatcher, SeesStop,
      JoinThread, AllJoined, UnloadPlugins, CloseLog, RemovePidFile, CleanConfig,
      ExitSuccess, config, store, flags, threads, reloader, ParseBegin, ParseLine, ParseClean
<1>2. CASE UNCHANGED <<main, created, joined, catching, files>>
  <2>1. reload = "unborn" => UNCHANGED reload
    BY <1>0, <1>2, ReloadFrame DEF IInv, CreateThread, MainStep, Reload, ReloadStep,
        ReloadContinues, ReloadEnds, ReloadParse, ReloadParseLine, ReloadSleeps, ReloadWakes,
        SetTvSec, SetTvNsec, KeepTiming, TimingsDone, ReloadCrashes, SignalReload,
        reloader, threads
  <2>2. main \in {"create", "install"} => UNCHANGED running
    BY <1>2, FlagFrame DEF IInv, StartAgent, MainStep, Catch
  <2>3. main # "exit" => pool' # "destroyed"
    BY <1>2, StoreFrame DEF IInv, MainParse, MainParseLine, MainStep, ReloadParse,
        ReloadParseLine, CleanConfig, EditFile, ParseBegin, ParseLine, store
  <2>4. main \in {"parsing", "prepare", "start"} => pool' = "live"
    BY <1>2, StoreFrame DEF IInv, MainParse, MainParseLine, MainStep, ReloadParse,
        ReloadParseLine, CleanConfig, EditFile, ParseBegin, ParseLine, store
  <2> QED
    BY <1>2, <2>1, <2>2, <2>3, <2>4 DEF IInv
<1> QED
  BY <1>1, <1>2, MainFrame

\* pthread_create() and pthread_join() go through the threads in the order of
\* their numbers, so that those two counters say which of them run.
LEMMA ThreadsStep == IInv /\ [Next]_vars => ThreadsInv'
<1> SUFFICES ASSUME IInv, [Next]_vars, NEW t \in Thread
             PROVE  /\ t >= created' => gather'[t] = "unborn"
                    /\ t < joined' => gather'[t] = "done"
  BY DEF ThreadsInv
<1>0. /\ gather \in [Thread -> GatherAt]
      /\ created \in Nat /\ joined \in Nat /\ PluginCount \in Nat
      /\ t >= created => gather[t] = "unborn"
      /\ t < joined => gather[t] = "done"
  BY AgentAssumption DEF IInv, TypeOK, ThreadsInv
<1>1. CASE CreateThread
  <2>1. ~(t < joined)
    BY <1>1 DEF IInv, MainInv, SamplingOver, CreateThread, MainStep, Thread
  <2>2. created' = created + 1 /\ joined' = joined
    BY <1>1 DEF CreateThread
  <2>3. t >= created + 1 => gather'[t] = gather[t]
    BY <1>0, <1>1 DEF CreateThread, Thread
  <2> QED
    BY <1>0, <2>1, <2>2, <2>3 DEF Thread
<1>2. CASE JoinThread
  <2>1. gather[joined] = "done" /\ UNCHANGED <<created, gather>> /\ joined' = joined + 1
    BY <1>2 DEF JoinThread, threads, gatherers
  <2> QED
    BY <1>0, <2>1 DEF Thread
<1>3. CASE ~CreateThread /\ ~JoinThread
  <2>1. UNCHANGED <<created, joined>>
    BY <1>3, MainFrame DEF Main, MainStep, ExitFrom, WriteTmpPID, WriteTmpPIDFails, UsageExit,
        MainParse, MainParseLine, MainParsed, MainParseFails, Prepare, PrepareFails, StartAgent,
        PluginExits, CreateThreadFails, ThreadsCreated, InstallCatcher, SeesStop,
        AllJoined, UnloadPlugins, CloseLog, RemovePidFile, CleanConfig, ExitSuccess
  <2>2. ASSUME NEW u \in Thread, Gather(u) \/ SignalGather(u)
        PROVE  /\ gather[u] \notin {"unborn", "done"}
               /\ \E to : gather' = [gather EXCEPT ![u] = to]
    BY <2>2 DEF Gather, GatherStep, BeginBulk, LeaveLoop, Sample, ReadTvSec, ReadTvNsec,
        Wake, Publish, SignalGather
  <2>3. CASE UNCHANGED gatherers
    BY <1>0, <2>1, <2>3 DEF gatherers
  <2> QED
    BY <1>0, <1>3, <2>1, <2>2, <2>3, GatherFrame
<1> QED
  BY <1>1, <1>2, <1>3

-----------------------------------------------------------------------------
(* The plug-in threads *)

GatherTypeOK ==
    /\ gather \in [Thread -> GatherAt]
    /\ round \in [Thread -> 0 .. BulkSize]
    /\ nap \in [Thread -> Interval]
    /\ taken \in [Thread -> Nat]
    /\ buf \in [Thread -> Seq(Nat)]
    /\ stored \in [Thread -> Seq(Nat)]

\* A thread that is created has no sample yet.
LEMMA CreateEffect ==
    ASSUME IInv, CreateThread
    PROVE  /\ UNCHANGED <<round, nap, taken, buf, stored>>
           /\ \/ UNCHANGED gather
              \/ created \in Thread /\ gather' = [gather EXCEPT ![created] = "check"]
           /\ ~catching
  BY AgentAssumption DEF IInv, TypeOK, MainInv, BeforeCatching, BeforeThreads, CreateThread,
      MainStep, Thread, samples

\* A signal sends a thread that sleeps to its next request.
LEMMA SignalEffect ==
    ASSUME NEW t \in Thread, SignalGather(t)
    PROVE  /\ UNCHANGED <<round, nap, taken, buf, stored>>
           /\ gather[t] = "asleep"
           /\ gather' = [gather EXCEPT ![t] = "send"]
  BY DEF SignalGather, Catch, samples

\* The variables of gatherMetric() keep their types through its loop.
LEMMA GatherTypeStep == IInv /\ [Next]_vars => GatherTypeOK'
<1> SUFFICES ASSUME IInv, [Next]_vars PROVE GatherTypeOK'
  OBVIOUS
<1>0. GatherTypeOK /\ RoundInv /\ tvSec \in [Thread -> Nat] /\ tvNsec \in [Thread -> Nat]
  BY DEF IInv, TypeOK, GatherTypeOK
<1> USE DEF GatherTypeOK, GatherAt
<1>1. CASE UNCHANGED gatherers
  BY <1>0, <1>1 DEF gatherers, samples
<1>2. CASE CreateThread
  BY <1>0, <1>2, CreateEffect
<1>3. ASSUME NEW t \in Thread, SignalGather(t)
      PROVE  GatherTypeOK'
  BY <1>0, <1>3, SignalEffect
<1>4. ASSUME NEW t \in Thread, BeginBulk(t) \/ LeaveLoop(t)
      PROVE  GatherTypeOK'
  <2>1. UNCHANGED <<nap, taken, buf, stored>>
    BY <1>4 DEF BeginBulk, LeaveLoop, samples
  <2>2. gather' \in [Thread -> GatherAt]
    BY <1>0, <1>4 DEF BeginBulk, LeaveLoop, GatherStep
  <2>3. round' \in [Thread -> 0 .. BulkSize]
    <3>1. 0 \in 0 .. BulkSize
      BY AgentAssumption
    <3>2. round' = [round EXCEPT ![t] = 0] \/ round' = round
      BY <1>4 DEF BeginBulk, LeaveLoop
    <3> QED
      BY <1>0, <3>1, <3>2
  <2> QED
    BY <1>0, <2>1, <2>2, <2>3
<1>5. ASSUME NEW t \in Thread, Sample(t)
      PROVE  GatherTypeOK'
  BY <1>0, <1>5 DEF Sample, GatherStep
<1>6. ASSUME NEW t \in Thread, ReadTvSec(t) \/ ReadTvNsec(t)
      PROVE  GatherTypeOK'
  <2>1. \A i \in Interval, n \in Nat :
            [i EXCEPT !.sec = n] \in Interval /\ [i EXCEPT !.nsec = n] \in Interval
    BY DEF Interval
  <2>2. nap' \in [Thread -> Interval]
    <3>1. nap[t] \in Interval /\ tvSec[t] \in Nat /\ tvNsec[t] \in Nat
      BY <1>0
    <3>2. CASE ReadTvSec(t)
      <4>1. nap' = [nap EXCEPT ![t] = [nap[t] EXCEPT !.sec = tvSec[t]]]
        BY <3>2 DEF ReadTvSec
      <4> QED
        BY <1>0, <2>1, <3>1, <4>1
    <3>3. CASE ReadTvNsec(t)
      <4>1. nap' = [nap EXCEPT ![t] = [nap[t] EXCEPT !.nsec = tvNsec[t]]]
        BY <3>3 DEF ReadTvNsec
      <4> QED
        BY <1>0, <2>1, <3>1, <4>1
    <3> QED
      BY <1>6, <3>2, <3>3
  <2> QED
    BY <1>0, <1>6, <2>2 DEF ReadTvSec, ReadTvNsec, GatherStep, samples
<1>7. ASSUME NEW t \in Thread, Wake(t)
      PROVE  GatherTypeOK'
  <2>1. gather[t] = "asleep" /\ round[t] < BulkSize
    BY <1>0, <1>7 DEF RoundInv, Wake, GatherStep
  <2> QED
    BY <1>0, <1>7, <2>1, AgentAssumption DEF Wake, GatherStep, samples
<1>8. ASSUME NEW t \in Thread, Publish(t)
      PROVE  GatherTypeOK'
  <2>1. stored[t] \o buf[t] \in Seq(Nat) /\ << >> \in Seq(Nat)
    BY <1>0
  <2>2. stored' \in [Thread -> Seq(Nat)] /\ buf' \in [Thread -> Seq(Nat)]
    BY <1>0, <1>8, <2>1 DEF Publish
  <2> QED
    BY <1>0, <1>8, <2>2 DEF Publish, GatherStep
<1> QED
  BY <1>1, <1>2, <1>3, <1>4, <1>5, <1>6, <1>7, <1>8, GatherFrame DEF Gather

\* The loop of gatherMetric() takes at most bulk_size samples per bulk.
LEMMA RoundStep == IInv /\ [Next]_vars => RoundInv'
<1> SUFFICES ASSUME IInv, [Next]_vars PROVE RoundInv'
  OBVIOUS
<1>0. GatherTypeOK /\ RoundInv
  BY DEF IInv, TypeOK, GatherTypeOK
<1> USE DEF GatherTypeOK, RoundInv
<1>1. CASE UNCHANGED gatherers
  BY <1>0, <1>1 DEF gatherers
<1>2. CASE CreateThread
  BY <1>0, <1>2, CreateEffect
<1>3. ASSUME NEW t \in Thread, SignalGather(t)
      PROVE  RoundInv'
  BY <1>0, <1>3, SignalEffect
<1>4. ASSUME NEW t \in Thread, BeginBulk(t)
      PROVE  RoundInv'
  BY <1>0, <1>4, AgentAssumption DEF BeginBulk, GatherStep
<1>5. ASSUME NEW t \in Thread, Sample(t) \/ ReadTvSec(t) \/ ReadTvNsec(t)
      PROVE  RoundInv'
  BY <1>0, <1>5 DEF Sample, ReadTvSec, ReadTvNsec, GatherStep
<1>6. ASSUME NEW t \in Thread, Wake(t)
      PROVE  RoundInv'
  BY <1>0, <1>6, AgentAssumption DEF Wake, GatherStep
<1>7. ASSUME NEW t \in Thread, Publish(t) \/ LeaveLoop(t)
      PROVE  RoundInv'
  BY <1>0, <1>7 DEF Publish, LeaveLoop, GatherStep
<1> QED
  BY <1>1, <1>2, <1>3, <1>4, <1>5, <1>6, <1>7, GatherFrame DEF Gather

-----------------------------------------------------------------------------
(* The samples *)

\* A run of numbers, and what one more sample does to it.
LEMMA RunLength ==
    ASSUME NEW a \in Nat, NEW b \in Nat, a <= b
    PROVE  /\ Delivery!Run(a, b) \in Seq(Nat)
           /\ Len(Delivery!Run(a, b)) = b - a
  BY DEF Delivery!Run

\* The samples after a up to b, with the next one: what appending to the buffer
\* in gatherMetric() makes of it.
LEMMA RunAppend ==
    ASSUME NEW a \in Nat, NEW b \in Nat, a <= b
    PROVE  Delivery!Run(a, b + 1) = Append(Delivery!Run(a, b), b + 1)
<1> DEFINE r == Delivery!Run(a, b)
           q == Delivery!Run(a, b + 1)
<1>1. r \in Seq(Nat) /\ Len(r) = b - a /\ q \in Seq(Nat) /\ Len(q) = b + 1 - a
  <2>1. b + 1 \in Nat /\ a <= b + 1
    OBVIOUS
  <2>2. r \in Seq(Nat) /\ Len(r) = b - a
    BY RunLength
  <2>3. q \in Seq(Nat) /\ Len(q) = (b + 1) - a
    BY <2>1, RunLength
  <2> QED
    BY <2>2, <2>3
<1>2. \A k \in 1 .. b - a : q[k] = r[k]
  BY DEF Delivery!Run
<1>3. q[b + 1 - a] = b + 1
  BY DEF Delivery!Run
<1>4. Append(r, b + 1) \in Seq(Nat) /\ Len(Append(r, b + 1)) = Len(q)
  BY <1>1
<1>5. \A k \in 1 .. Len(q) : Append(r, b + 1)[k] = q[k]
  BY <1>1, <1>2, <1>3
<1> HIDE DEF r, q
<1>6. Append(r, b + 1) = q
  BY <1>1, <1>4, <1>5, SeqEqual
<1> QED
  BY <1>6 DEF r, q

\* gatherMetric() appends to its buffer what it samples and empties it when it
\* is sent: the buffer stays the run of the samples taken last.
LEMMA BufferStep == IInv /\ [Next]_vars => BufferInv'
<1> SUFFICES ASSUME IInv, [Next]_vars PROVE BufferInv'
  OBVIOUS
<1>0. GatherTypeOK /\ BufferInv
  BY DEF IInv, TypeOK, GatherTypeOK
<1> USE DEF BufferInv, InBulk
<1>1. CASE UNCHANGED gatherers
  BY <1>0, <1>1 DEF gatherers, samples, Delivery!Run
<1>2. ASSUME UNCHANGED <<taken, buf>>, NEW t \in Thread, NEW to,
             gather' = [gather EXCEPT ![t] = to],
             to \in {"unborn", "check", "done"} => Len(buf[t]) = 0,
             to \in InBulk => Len(buf[t]) > 0
      PROVE  BufferInv'
  BY <1>0, <1>2 DEF GatherTypeOK, Delivery!Run
<1>3. CASE CreateThread
  <2>1. CASE UNCHANGED gather
    BY <1>0, <1>3, <2>1, CreateEffect DEF Delivery!Run
  <2>2. CASE created \in Thread /\ gather' = [gather EXCEPT ![created] = "check"]
    <3>1. gather[created] = "unborn"
      BY <2>2 DEF IInv, ThreadsInv, Thread
    <3> QED
      BY <1>0, <1>2, <1>3, <2>2, <3>1, CreateEffect
  <2> QED
    BY <1>3, <2>1, <2>2, CreateEffect
<1>4. ASSUME NEW t \in Thread, SignalGather(t)
      PROVE  BufferInv'
  BY <1>0, <1>2, <1>4, SignalEffect
<1>5. ASSUME NEW t \in Thread, BeginBulk(t) \/ LeaveLoop(t)
      PROVE  BufferInv'
  BY <1>0, <1>2, <1>5 DEF BeginBulk, LeaveLoop, GatherStep, samples
<1>6. ASSUME NEW t \in Thread, ReadTvSec(t) \/ ReadTvNsec(t)
      PROVE  BufferInv'
  BY <1>0, <1>2, <1>6 DEF ReadTvSec, ReadTvNsec, GatherStep, samples
<1>7. ASSUME NEW t \in Thread, Wake(t)
      PROVE  BufferInv'
  BY <1>0, <1>2, <1>7 DEF Wake, GatherStep, samples

<1>8. ASSUME NEW t \in Thread, Sample(t)
      PROVE  BufferInv'
  <2> DEFINE n == taken[t]
             a == taken[t] - Len(buf[t])
  <2>1. n \in Nat /\ buf[t] \in Seq(Nat) /\ a \in Nat /\ a <= n /\ buf[t] = Delivery!Run(a, n)
    BY <1>0 DEF GatherTypeOK
  <2>2. /\ taken' = [taken EXCEPT ![t] = n + 1]
        /\ buf' = [buf EXCEPT ![t] = Append(buf[t], n + 1)]
        /\ gather' = [gather EXCEPT ![t] = "nap"]
    BY <1>8 DEF Sample, GatherStep
  <2>3. /\ taken'[t] = n + 1 /\ gather'[t] = "nap"
        /\ buf'[t] = Append(buf[t], n + 1)
    BY <1>0, <2>2 DEF GatherTypeOK
  <2>4. Len(buf'[t]) = Len(buf[t]) + 1
    BY <2>1, <2>3
  <2>5. buf'[t] = Delivery!Run(taken'[t] - Len(buf'[t]), taken'[t])
    <3>1. taken'[t] - Len(buf'[t]) = a
      BY <2>1, <2>3, <2>4
    <3> QED
      BY <2>1, <2>3, <3>1, RunAppend
  <2>6. \A u \in Thread : u # t =>
          taken'[u] = taken[u] /\ buf'[u] = buf[u] /\ gather'[u] = gather[u]
    BY <1>0, <2>2 DEF GatherTypeOK
  <2>7. ASSUME NEW u \in Thread
        PROVE
           /\ Len(buf'[u]) <= taken'[u]
           /\ buf'[u] = Delivery!Run(taken'[u] - Len(buf'[u]), taken'[u])
           /\ gather'[u] \in {"unborn", "check", "done"} => Len(buf'[u]) = 0
           /\ gather'[u] \in InBulk => Len(buf'[u]) > 0
    <3>1. CASE u = t
      <4>1. Len(buf'[t]) <= taken'[t] /\ Len(buf'[t]) > 0
        BY <2>1, <2>3, <2>4
      <4> QED
        BY <2>3, <2>5, <3>1, <4>1
    <3>2. CASE u # t
      <4>1. taken'[u] = taken[u] /\ buf'[u] = buf[u] /\ gather'[u] = gather[u]
        BY <2>6, <3>2
      <4>2. buf'[u] = Delivery!Run(taken'[u] - Len(buf'[u]), taken'[u])
        BY <1>0, <4>1, Zenon
      <4>3. /\ Len(buf[u]) <= taken[u]
            /\ gather[u] \in {"unborn", "check", "done"} => Len(buf[u]) = 0
            /\ gather[u] \in InBulk => Len(buf[u]) > 0
        BY <1>0
      <4> QED
        BY <4>1, <4>2, <4>3
    <3> QED
      BY <3>1, <3>2
  <2> QED
    BY <2>7 DEF Delivery!Run
<1>9. ASSUME NEW t \in Thread, Publish(t)
      PROVE  BufferInv'
  <2>1. /\ taken' = taken /\ buf' = [buf EXCEPT ![t] = << >>]
        /\ gather' = [gather EXCEPT ![t] = "check"]
    BY <1>9 DEF Publish, GatherStep
  <2>2. Len(buf'[t]) = 0 /\ buf'[t] = << >> /\ gather'[t] = "check" /\ taken'[t] \in Nat
    BY <1>0, <2>1 DEF GatherTypeOK
  <2>3. buf'[t] = Delivery!Run(taken'[t] - Len(buf'[t]), taken'[t])
    BY <2>2 DEF Delivery!Run
  <2>4. \A u \in Thread : u # t =>
          taken'[u] = taken[u] /\ buf'[u] = buf[u] /\ gather'[u] = gather[u]
    BY <1>0, <2>1 DEF GatherTypeOK
  <2>5. \A u \in Thread :
           /\ Len(buf'[u]) <= taken'[u]
           /\ buf'[u] = Delivery!Run(taken'[u] - Len(buf'[u]), taken'[u])
           /\ gather'[u] \in {"unborn", "check", "done"} => Len(buf'[u]) = 0
           /\ gather'[u] \in InBulk => Len(buf'[u]) > 0
    BY <1>0, <2>2, <2>3, <2>4
  <2> QED
    BY <2>5 DEF Delivery!Run
<1> QED
  BY <1>1, <1>3, <1>4, <1>5, <1>6, <1>7, <1>8, <1>9, GatherFrame DEF Gather

\* When running is cleared a thread may finish the bulk it is in and start no
\* other.
LEMMA StopStep == IInv /\ [Next]_vars => StopInv'
<1> SUFFICES ASSUME IInv, [Next]_vars, (catching /\ ~running)', NEW t \in Thread
             PROVE  (/\ taken[t] <= atStop[t] + BulkSize
                     /\ gather[t] = "sample" => taken[t] <= atStop[t] + round[t]
                     /\ gather[t] \in {"nap", "nap2", "asleep"} =>
                           taken[t] <= atStop[t] + round[t] + 1)'
  BY DEF StopInv
<1>0. /\ GatherTypeOK /\ RoundInv /\ GatherTypeOK' /\ RoundInv'
      /\ atStop \in [Thread -> Nat] /\ BulkSize \in Nat
  BY GatherTypeStep, RoundStep, AgentAssumption DEF IInv, TypeOK, GatherTypeOK
<1> USE DEF GatherTypeOK, RoundInv
<1>1. CASE Catch /\ running
  <2>1. UNCHANGED <<round, taken>> /\ atStop' = taken
    BY <1>1 DEF Catch, samples
  <2> QED
    BY <1>0, <2>1
<1>2. CASE ~running
  <2>1. catching /\ atStop' = atStop
    <3>1. ~StartAgent
      BY DEF StartAgent
    <3>2. catching \/ InstallCatcher
      BY MainFrame DEF Main, MainStep, ExitFrom, WriteTmpPID, WriteTmpPIDFails, UsageExit,
          MainParse, MainParseLine, MainParsed, MainParseFails, Prepare, PrepareFails,
          StartAgent, CreateThread, PluginExits, CreateThreadFails, ThreadsCreated, SeesStop,
          JoinThread, AllJoined, UnloadPlugins, CloseLog, RemovePidFile, CleanConfig,
          ExitSuccess, flags
    <3>3. ~InstallCatcher
      BY <1>2 DEF InstallCatcher, MainStep, IInv, MainInv
    <3> QED
      BY <1>2, <3>1, <3>2, <3>3, FlagFrame DEF Catch
  <2>2. /\ taken[t] <= atStop[t] + BulkSize
        /\ gather[t] = "sample" => taken[t] <= atStop[t] + round[t]
        /\ gather[t] \in {"nap", "nap2", "asleep"} => taken[t] <= atStop[t] + round[t] + 1
    BY <1>2, <2>1 DEF IInv, StopInv
  <2>3. CASE UNCHANGED gatherers
    BY <2>1, <2>2, <2>3 DEF gatherers, samples
  <2>4. ~CreateThread
    BY <2>1, CreateEffect
  <2>5. ASSUME NEW u \in Thread, SignalGather(u)
        PROVE  UNCHANGED <<round, taken>> /\ gather'[t] \in {gather[t], "send"}
    BY <1>0, <2>5, SignalEffect
  <2>6. ASSUME NEW u \in Thread, LeaveLoop(u) \/ Publish(u)
        PROVE  UNCHANGED <<round, taken>> /\ gather'[t] \in {gather[t], "done", "check"}
    BY <1>0, <2>6 DEF LeaveLoop, Publish, GatherStep, samples
  <2>7. ASSUME NEW u \in Thread, ReadTvSec(u) \/ ReadTvNsec(u)
        PROVE  /\ UNCHANGED <<round, taken>>
               /\ \/ gather'[t] = gather[t]
                  \/ {gather[t], gather'[t]} \subseteq {"nap", "nap2", "asleep"}
    BY <1>0, <2>7 DEF ReadTvSec, ReadTvNsec, GatherStep, samples
  <2>8. ASSUME NEW u \in Thread, Sample(u)
        PROVE  /\ round' = round
               /\ \/ u # t /\ gather'[t] = gather[t] /\ taken'[t] = taken[t]
                  \/ gather[t] = "sample" /\ gather'[t] = "nap" /\ taken'[t] = taken[t] + 1
    BY <1>0, <2>8 DEF Sample, GatherStep
  <2>9. ASSUME NEW u \in Thread, Wake(u)
        PROVE  /\ taken' = taken
               /\ \/ u # t /\ gather'[t] = gather[t] /\ round'[t] = round[t]
                  \/ /\ gather[t] = "asleep" /\ gather'[t] \in {"sample", "send"}
                     /\ round'[t] = round[t] + 1
    BY <1>0, <2>9 DEF Wake, GatherStep, samples
  <2>10. ASSUME NEW u \in Thread, Gather(u)
         PROVE  (/\ taken[t] <= atStop[t] + BulkSize
                 /\ gather[t] = "sample" => taken[t] <= atStop[t] + round[t]
                 /\ gather[t] \in {"nap", "nap2", "asleep"} =>
                       taken[t] <= atStop[t] + round[t] + 1)'
    <3>1. ~BeginBulk(u)
      BY <1>2 DEF BeginBulk
    <3>2. CASE LeaveLoop(u) \/ Publish(u) \/ ReadTvSec(u) \/ ReadTvNsec(u)
      BY <2>1, <2>2, <2>6, <2>7, <3>2
    <3>3. /\ BulkSize \in Nat /\ taken[t] \in Nat /\ taken'[t] \in Nat /\ atStop[t] \in Nat
          /\ round[t] \in Nat /\ round'[t] \in Nat /\ round'[t] <= BulkSize
          /\ gather[t] \in {"sample", "asleep"} => round[t] + 1 <= BulkSize
      <4>1. taken[t] \in Nat /\ taken'[t] \in Nat /\ atStop[t] \in Nat
        BY <1>0
      <4>2. round[t] \in 0 .. BulkSize /\ round'[t] \in 0 .. BulkSize /\ BulkSize \in Nat
        BY <1>0
      <4>3. gather[t] \in {"sample", "asleep"} => round[t] < BulkSize
        BY <1>0
      <4> QED
        BY <4>1, <4>2, <4>3
    <3>4. CASE Sample(u)
      <4>1. atStop'[t] = atStop[t] /\ round'[t] = round[t]
        BY <2>1, <2>8, <3>4
      <4>2. CASE gather'[t] = gather[t] /\ taken'[t] = taken[t]
        BY <2>2, <4>1, <4>2
      <4>3. CASE gather[t] = "sample" /\ gather'[t] = "nap" /\ taken'[t] = taken[t] + 1
        <5>1. taken'[t] <= atStop[t] + round[t] + 1 /\ taken'[t] <= atStop[t] + BulkSize
          <6>1. taken[t] <= atStop[t] + round[t] /\ round[t] + 1 <= BulkSize
            BY <2>2, <3>3, <4>3
          <6> QED
            BY <3>3, <4>3, <6>1
        <5> QED
          BY <4>1, <4>3, <5>1
      <4> QED
        BY <2>8, <3>4, <4>2, <4>3
    <3>5. CASE Wake(u)
      <4>1. taken'[t] = taken[t] /\ atStop'[t] = atStop[t]
        BY <2>1, <2>9, <3>5
      <4>2. CASE gather'[t] = gather[t] /\ round'[t] = round[t]
        BY <2>2, <4>1, <4>2
      <4>3. CASE /\ gather[t] = "asleep" /\ gather'[t] \in {"sample", "send"}
                 /\ round'[t] = round[t] + 1
        BY <2>2, <3>3, <4>1, <4>3
      <4> QED
        BY <2>9, <3>5, <4>2, <4>3
    <3> QED
      BY <2>10, <3>1, <3>2, <3>4, <3>5 DEF Gather
  <2> QED
    BY <1>0, <2>1, <2>2, <2>3, <2>4, <2>5, <2>10, GatherFrame
<1>3. CASE running /\ ~Catch
  BY <1>3, FlagFrame DEF StartAgent
<1> QED
  BY <1>1, <1>2, <1>3

-----------------------------------------------------------------------------
(* The intervals *)

\* main() stays where a file is read, or goes on when all of it is.
LEMMA MainParsing ==
    ASSUME [Next]_vars
    PROVE  /\ main' = "prepare" => main = "prepare" \/ MainParsed
           /\ main' = "start" => main \in {"start", "prepare"}
           /\ main' \notin BeforeThreads => main \notin BeforeThreads \/ StartAgent
  BY MainFrame DEF Main, MainStep, ExitFrom, WriteTmpPID, WriteTmpPIDFails, UsageExit,
      MainParse, MainParseLine, MainParsed, MainParseFails, Prepare, PrepareFails, StartAgent,
      CreateThread, PluginExits, CreateThreadFails, ThreadsCreated, InstallCatcher, SeesStop,
      JoinThread, AllJoined, UnloadPlugins, CloseLog, RemovePidFile, CleanConfig, ExitSuccess,
      BeforeThreads

\* init_timings() runs after a parse that has ended, in main() as in checkConf().
LEMMA ParsedStep == IInv /\ [Next]_vars => ParsedInv'
<1> SUFFICES ASSUME IInv, [Next]_vars PROVE ParsedInv'
  OBVIOUS
<1> USE DEF ParsedInv
<1>1. CASE UNCHANGED <<opened, at>>
  <2>1. ParseDone' = ParseDone
    BY <1>1 DEF ParseDone, Lines
  <2>2. (main \in {"prepare", "start"} => ParseDone /\ opened # Missing)'
    BY <1>1, <2>1, MainParsing DEF IInv, MainParsed, ParseResult
  <2>3. (main \notin BeforeThreads /\ reload # "parsing" => ParseDone)'
    <3>1. CASE StartAgent
      BY <2>1, <3>1 DEF IInv, StartAgent, MainStep
    <3>2. CASE main \notin BeforeThreads /\ reload # "parsing"
      BY <2>1, <3>2 DEF IInv
    <3>3. CASE reload = "parsing" /\ reload' # "parsing"
      <4>1. ReloadSleeps
        BY <3>3, ReloadFrame DEF CreateThread, Reload, ReloadStep,
            ReloadContinues, ReloadEnds, ReloadParse, ReloadParseLine, ReloadWakes,
            SetTvSec, SetTvNsec, KeepTiming, TimingsDone, ReloadCrashes, SignalReload,
            reloader, threads, IInv, MainInv
      <4> QED
        BY <2>1, <4>1 DEF ReloadSleeps
    <3> QED
      BY <3>1, <3>2, <3>3, MainParsing
  <2> QED
    BY <2>2, <2>3
<1>2. CASE MainParse \/ MainParseLine
  BY <1>2 DEF MainParse, MainParseLine, MainStep, BeforeThreads
<1>3. CASE ReloadParse \/ ReloadParseLine
  <2>1. reload' = "parsing" /\ main' = main /\ reload # "unborn"
    BY <1>3 DEF ReloadParse, ReloadParseLine, ReloadStep, progress
  <2> QED
    BY <2>1, AgentAssumption DEF IInv, MainInv, BeforeThreads
<1>4. CASE CleanConfig \/ EditFile
  <2>1. UNCHANGED <<opened, at>>
    BY <1>4 DEF CleanConfig, EditFile, ParseClean, parser
  <2> QED
    BY <1>1, <2>1
<1>5. CASE UNCHANGED <<file, store, parser>>
  BY <1>1, <1>5 DEF parser
<1> QED
  BY <1>2, <1>3, <1>4, <1>5, StoreFrame

\* The two words of an interval, from a value of the file or as they were.
LEMMA NewIntervalValue ==
    ASSUME NEW t \in Thread
    PROVE  LET v == table[TimingKey(t)]
           IN /\ NewInterval(t).sec = IF v = NoValue THEN tvSec[t] ELSE v \div SecondNs
              /\ NewInterval(t).nsec = IF v = NoValue THEN tvNsec[t] ELSE v % SecondNs
  BY DEF NewInterval

\* Seconds and nanoseconds are natural numbers.
LEMMA IntervalType ==
    ASSUME TypeOK, NEW t \in Thread
    PROVE  NewInterval(t).sec \in Nat /\ NewInterval(t).nsec \in Nat
<1>1. SecondNs \in Nat /\ SecondNs > 0 /\ Value \subseteq Nat /\ TimingKey(t) \in Key
  BY AgentAssumption
<1>2. table[TimingKey(t)] \in Value \cup {NoValue}
  BY <1>1 DEF TypeOK, StoreTypeOK, Table
<1>3. \A v \in Nat : v \div SecondNs \in Nat /\ v % SecondNs \in Nat
  BY <1>1
<1> QED
  BY <1>1, <1>2, <1>3, NewIntervalValue DEF TypeOK

\* What a parsed file says of a plug-in that every file names.
LEMMA TableNames ==
    ASSUME IInv, ParseDone, NEW t \in Thread, \A f \in Files : NamedIn(f, t)
    PROVE  \/ table[TimingKey(t)] \in Named(t) /\ table[TimingKey(t)] # NoValue
           \/ table[TimingKey(t)] = NoValue /\ opened = Missing
<1>1. opened \in Files \cup {Missing} /\ TimingKey(t) \in Key
  BY AgentAssumption DEF IInv, TypeOK, StoreTypeOK
<1>2. CASE opened \in Files
  <2>1. table = Content(opened)
    BY <1>2, ParsedContent DEF IInv
  <2>2. NamedIn(opened, t)
    BY <1>2
  <2> QED
    BY <1>2, <2>1, <2>2 DEF Named, NamedIn
<1>3. CASE opened = Missing
  <2>1. table = EmptyTable
    BY <1>3, ParsedContent DEF IInv
  <2> QED
    BY <1>1, <1>3, <2>1 DEF EmptyTable
<1> QED
  BY <1>1, <1>2, <1>3

\* The second half of an interval is written for a plug-in that exists.
LEMMA SlotStep == IInv /\ [Next]_vars => SlotInv'
<1> SUFFICES ASSUME IInv, [Next]_vars PROVE SlotInv'
  OBVIOUS
<1>1. CASE UNCHANGED reloader
  BY <1>1 DEF IInv, SlotInv, reloader
<1>2. CASE CreateThread \/ SignalReload
  BY <1>2 DEF IInv, SlotInv, CreateThread, SignalReload
<1>3. CASE Reload
  BY <1>3 DEF IInv, SlotInv, Reload, ReloadStep, ReloadContinues, ReloadEnds, ReloadParse,
      ReloadParseLine, ReloadSleeps, ReloadWakes, SetTvSec, SetTvNsec, KeepTiming,
      TimingsDone, ReloadCrashes, threads, reloader
<1> QED
  BY <1>1, <1>2, <1>3, ReloadFrame

\* An interval init_timings() writes is that of a content the file has had.
LEMMA IntervalStep == IInv /\ [Next]_vars => IntervalInv'
<1> SUFFICES ASSUME IInv, [Next]_vars, main' \notin BeforeThreads, NEW t \in Thread,
                    \A f \in Files : NamedIn(f, t)
             PROVE  /\ tvSec'[t] \in {n \div SecondNs : n \in Named(t)}
                    /\ tvNsec'[t] \in {n % SecondNs : n \in Named(t)}
  BY DEF IntervalInv, NamedIn, Named, Content, BeforeThreads
<1> DEFINE v == table[TimingKey(t)]
<1>0. tvSec \in [Thread -> Nat] /\ tvNsec \in [Thread -> Nat]
  BY DEF IInv, TypeOK
<1>1. main \notin BeforeThreads =>
          /\ tvSec[t] \in {n \div SecondNs : n \in Named(t)}
          /\ tvNsec[t] \in {n % SecondNs : n \in Named(t)}
  BY DEF IInv, IntervalInv
<1>2. CASE StartAgent
  <2>1. ParseDone /\ opened # Missing
    BY <1>2 DEF StartAgent, MainStep, IInv, ParsedInv
  <2>2. v \in Named(t) /\ v # NoValue
    BY <2>1, TableNames
  <2>3. tvSec'[t] = v \div SecondNs /\ tvNsec'[t] = v % SecondNs
    BY <1>2, <2>2, NewIntervalValue DEF StartAgent
  <2> QED
    BY <2>2, <2>3
<1>3. CASE UNCHANGED timings /\ ~StartAgent
  <2>1. main \notin BeforeThreads
    BY <1>3, MainParsing
  <2> QED
    BY <1>1, <1>3, <2>1 DEF timings
<1>4. CASE SetTvSec \/ SetTvNsec
  <2>1. /\ main \notin BeforeThreads /\ ParseDone
        /\ tvSec'[t] # tvSec[t] => v # NoValue /\ tvSec'[t] = v \div SecondNs
        /\ tvNsec'[t] # tvNsec[t] => v # NoValue /\ tvNsec'[t] = v % SecondNs
    <3>1. main \notin BeforeThreads /\ ParseDone
      BY <1>4 DEF SetTvSec, SetTvNsec, ReloadStep, progress, IInv, ParsedInv
    <3>2. CASE SetTvSec
      <4>1. tvNsec' = tvNsec /\ tvSec' = [tvSec EXCEPT ![slot] = NewInterval(slot).sec]
        BY <3>2 DEF SetTvSec
      <4> QED
        BY <1>0, <3>1, <4>1, NewIntervalValue
    <3>3. CASE SetTvNsec
      <4>1. tvSec' = tvSec /\ tvNsec' = [tvNsec EXCEPT ![slot] = NewInterval(slot).nsec]
        BY <3>3 DEF SetTvNsec
      <4> QED
        BY <1>0, <3>1, <4>1, NewIntervalValue
    <3> QED
      BY <1>4, <3>2, <3>3
  <2>2. v # NoValue => v \in Named(t)
    BY <2>1, TableNames
  <2> QED
    BY <1>1, <2>1, <2>2
<1> QED
  BY <1>2, <1>3, <1>4, TimingFrame

\* The variables of main(), of the flags and of the reloading thread.
LEMMA OtherTypeStep ==
    ASSUME IInv, [Next]_vars
    PROVE  (/\ proc \in {"running", "exited", "killed"}
            /\ main \in MainAt
            /\ running \in BOOLEAN
            /\ catching \in BOOLEAN
            /\ created \in 0 .. PluginCount + 1
            /\ joined \in 0 .. PluginCount
            /\ reload \in ReloadAt
            /\ wait \in Nat
            /\ slot \in 0 .. PluginCount
            /\ tvSec \in [Thread -> Nat]
            /\ tvNsec \in [Thread -> Nat]
            /\ mapped \in BOOLEAN
            /\ logOpen \in BOOLEAN
            /\ pidFile \in BOOLEAN
            /\ atStop \in [Thread -> Nat]
            /\ edits \in Nat
            /\ signals \in Nat)'
<1>1. (proc \in {"running", "exited", "killed"})'
  <2>1. CASE Main
    BY <2>1 DEF Main, MainStep, ExitFrom, WriteTmpPID, WriteTmpPIDFails, UsageExit, MainParse,
        MainParseLine, MainParsed, MainParseFails, Prepare, PrepareFails, StartAgent,
        CreateThread, PluginExits, CreateThreadFails, ThreadsCreated, InstallCatcher, SeesStop,
        JoinThread, AllJoined, UnloadPlugins, CloseLog, RemovePidFile, CleanConfig,
        ExitSuccess, IInv, TypeOK
  <2>2. CASE Reload
    BY <2>2 DEF Reload, ReloadStep, ReloadContinues, ReloadEnds, ReloadParse, ReloadParseLine,
        ReloadSleeps, ReloadWakes, SetTvSec, SetTvNsec, KeepTiming, TimingsDone,
        ReloadCrashes, progress, IInv, TypeOK
  <2>3. CASE Environment
    BY <2>3 DEF Environment, Catch, SignalElsewhere, SignalReload, SignalGather, SignalKills,
        SignalCrashes, EditFile, progress, IInv, TypeOK
  <2>4. CASE \E t \in Thread : Gather(t)
    BY <2>4 DEF Gather, GatherStep, BeginBulk, LeaveLoop, Sample, ReadTvSec, ReadTvNsec,
        Wake, Publish, progress, IInv, TypeOK
  <2>5. CASE UNCHANGED vars
    BY <2>5 DEF vars, progress, IInv, TypeOK
  <2> QED
    BY <2>1, <2>2, <2>3, <2>4, <2>5 DEF Next
<1>2. (/\ main \in MainAt /\ catching \in BOOLEAN
       /\ created \in 0 .. PluginCount + 1 /\ joined \in 0 .. PluginCount
       /\ mapped \in BOOLEAN /\ logOpen \in BOOLEAN /\ pidFile \in BOOLEAN)'
  <2>1. /\ main \in MainAt /\ catching \in BOOLEAN
        /\ created \in 0 .. PluginCount + 1 /\ joined \in 0 .. PluginCount
        /\ mapped \in BOOLEAN /\ logOpen \in BOOLEAN /\ pidFile \in BOOLEAN
        /\ PluginCount \in Nat
    BY AgentAssumption DEF IInv, TypeOK
  <2>2. CASE Main
    <3>1. main' \in MainAt
      BY <2>1, <2>2 DEF Main, MainStep, ExitFrom, WriteTmpPID, WriteTmpPIDFails, UsageExit,
          MainParse, MainParseLine, MainParsed, MainParseFails, Prepare, PrepareFails,
          StartAgent, CreateThread, PluginExits, CreateThreadFails, ThreadsCreated,
          InstallCatcher, SeesStop, JoinThread, AllJoined, UnloadPlugins, CloseLog,
          RemovePidFile, CleanConfig, ExitSuccess, MainAt
    <3>2. catching' \in BOOLEAN
      BY <2>1, <2>2 DEF Main, MainStep, ExitFrom, WriteTmpPID, WriteTmpPIDFails, UsageExit,
          MainParse, MainParseLine, MainParsed, MainParseFails, Prepare, PrepareFails,
          StartAgent, CreateThread, PluginExits, CreateThreadFails, ThreadsCreated,
          InstallCatcher, SeesStop, JoinThread, AllJoined, UnloadPlugins, CloseLog,
          RemovePidFile, CleanConfig, ExitSuccess, flags
    <3>3. created' \in 0 .. PluginCount + 1 /\ joined' \in 0 .. PluginCount
      BY <2>1, <2>2 DEF Main, MainStep, ExitFrom, WriteTmpPID, WriteTmpPIDFails, UsageExit,
          MainParse, MainParseLine, MainParsed, MainParseFails, Prepare, PrepareFails,
          StartAgent, CreateThread, PluginExits, CreateThreadFails, ThreadsCreated,
          InstallCatcher, SeesStop, JoinThread, AllJoined, UnloadPlugins, CloseLog,
          RemovePidFile, CleanConfig, ExitSuccess
    <3>4. mapped' \in BOOLEAN /\ logOpen' \in BOOLEAN /\ pidFile' \in BOOLEAN
      BY <2>1, <2>2 DEF Main, MainStep, ExitFrom, WriteTmpPID, WriteTmpPIDFails, UsageExit,
          MainParse, MainParseLine, MainParsed, MainParseFails, Prepare, PrepareFails,
          StartAgent, CreateThread, PluginExits, CreateThreadFails, ThreadsCreated,
          InstallCatcher, SeesStop, JoinThread, AllJoined, UnloadPlugins, CloseLog,
          RemovePidFile, CleanConfig, ExitSuccess, files
    <3> QED
      BY <3>1, <3>2, <3>3, <3>4
  <2> QED
    BY <2>1, <2>2, MainFrame DEF files
<1>3. (running \in BOOLEAN /\ atStop \in [Thread -> Nat])'
  BY FlagFrame DEF IInv, TypeOK, StartAgent, Catch
<1>4. (tvSec \in [Thread -> Nat] /\ tvNsec \in [Thread -> Nat])'
  <2>1. tvSec \in [Thread -> Nat] /\ tvNsec \in [Thread -> Nat] /\ TypeOK
    BY DEF IInv, TypeOK
  <2>2. \A t \in Thread : NewInterval(t).sec \in Nat /\ NewInterval(t).nsec \in Nat
    BY <2>1, IntervalType
  <2>3. slot \in Nat /\ (SetTvSec \/ SetTvNsec => slot \in Thread)
    BY AgentAssumption DEF IInv, TypeOK, SlotInv, SetTvSec, SetTvNsec, ReloadStep, Thread
  <2>4. CASE UNCHANGED timings
    BY <2>1, <2>4 DEF timings
  <2>5. CASE StartAgent
    BY <2>2, <2>5 DEF StartAgent
  <2>6. CASE SetTvSec
    BY <2>1, <2>2, <2>3, <2>6 DEF SetTvSec
  <2>7. CASE SetTvNsec
    BY <2>1, <2>2, <2>3, <2>7 DEF SetTvNsec
  <2> QED
    BY <2>4, <2>5, <2>6, <2>7, TimingFrame
<1>5. (reload \in ReloadAt /\ wait \in Nat /\ slot \in 0 .. PluginCount)'
  <2>1. reload \in ReloadAt /\ wait \in Nat /\ slot \in 0 .. PluginCount /\ PluginCount \in Nat
    BY AgentAssumption DEF IInv, TypeOK
  <2>2. GetValue(UpdateKey, 0) \in Nat
    <3>1. table[UpdateKey] \in Value \cup {NoValue}
      BY AgentAssumption DEF IInv, TypeOK, StoreTypeOK, Table
    <3> QED
      BY <3>1, AgentAssumption DEF GetValue
  <2>3. reload = "nsec" => slot < PluginCount
    BY DEF IInv, SlotInv
  <2>4. CASE UNCHANGED reloader
    BY <2>1, <2>4 DEF reloader
  <2>5. CASE CreateThread \/ SignalReload
    BY <2>1, <2>5 DEF CreateThread, SignalReload, Catch, ReloadAt
  <2>6. CASE Reload
    BY <2>1, <2>2, <2>3, <2>6 DEF Reload, ReloadStep, ReloadContinues, ReloadEnds, ReloadParse,
        ReloadParseLine, ReloadSleeps, ReloadWakes, SetTvSec, SetTvNsec, KeepTiming,
        TimingsDone, ReloadCrashes, threads, reloader, ReloadAt
  <2> QED
    BY <2>4, <2>5, <2>6, ReloadFrame
<1>6. (edits \in Nat /\ signals \in Nat)'
  <2>1. edits \in Nat /\ signals \in Nat
    BY DEF IInv, TypeOK
  <2>2. CASE Main
    BY <2>1, <2>2 DEF Main, MainStep, ExitFrom, WriteTmpPID, WriteTmpPIDFails, UsageExit,
        MainParse, MainParseLine, MainParsed, MainParseFails, Prepare, PrepareFails,
        StartAgent, CreateThread, PluginExits, CreateThreadFails, ThreadsCreated,
        InstallCatcher, SeesStop, JoinThread, AllJoined, UnloadPlugins, CloseLog,
        RemovePidFile, CleanConfig, ExitSuccess, environment
  <2>3. CASE Reload
    BY <2>1, <2>3 DEF Reload, ReloadStep, ReloadContinues, ReloadEnds, ReloadParse,
        ReloadParseLine, ReloadSleeps, ReloadWakes, SetTvSec, SetTvNsec, KeepTiming,
        TimingsDone, ReloadCrashes, environment
  <2>4. CASE Environment
    BY <2>1, <2>4 DEF Environment, Catch, SignalElsewhere, SignalReload, SignalGather,
        SignalKills, SignalCrashes, EditFile, environment
  <2>5. CASE \E t \in Thread : Gather(t)
    BY <2>1, <2>5 DEF Gather, GatherStep, BeginBulk, LeaveLoop, Sample, ReadTvSec, ReadTvNsec,
        Wake, Publish, environment
  <2>6. CASE UNCHANGED vars
    BY <2>1, <2>6 DEF vars, environment
  <2> QED
    BY <2>2, <2>3, <2>4, <2>5, <2>6 DEF Next
<1> QED
  BY <1>1, <1>2, <1>3, <1>4, <1>5, <1>6

-----------------------------------------------------------------------------
(* The theorems *)

\* The variables of all threads keep their types.
LEMMA TypeStep == IInv /\ [Next]_vars => TypeOK'
<1> SUFFICES ASSUME IInv, [Next]_vars PROVE TypeOK'
  OBVIOUS
<1>1. StoreTypeOK'
  BY StoreStep DEF StoreInv
<1>2. GatherTypeOK'
  BY GatherTypeStep
<1> QED
  BY <1>1, <1>2, OtherTypeStep DEF TypeOK, GatherTypeOK

\* The invariant holds when the process starts.
LEMMA InitInv == Init => IInv
<1> SUFFICES ASSUME Init PROVE IInv
  OBVIOUS
<1>1. StoreInv
  BY StoreInitInv DEF Init
<1>2. TypeOK
  <2>1. GatherTypeOK
    <3>1. << >> \in Seq(Nat) /\ [sec |-> 0, nsec |-> 0] \in Interval
      BY DEF Interval
    <3>2. 0 \in 0 .. BulkSize
      BY AgentAssumption
    <3> QED
      BY <3>1, <3>2 DEF Init, GatherTypeOK, GatherAt
  <2>2. PluginCount \in Nat /\ 0 \in 0 .. PluginCount /\ 0 \in 0 .. PluginCount + 1
    BY AgentAssumption
  <2>3. tvSec \in [Thread -> Nat] /\ tvNsec \in [Thread -> Nat] /\ atStop \in [Thread -> Nat]
    BY DEF Init
  <2>4. StoreTypeOK
    BY <1>1 DEF StoreInv
  <2> QED
    BY <2>1, <2>2, <2>3, <2>4 DEF Init, TypeOK, GatherTypeOK, MainAt, ReloadAt
<1>3. MainInv /\ ParsedInv
  BY DEF Init, StoreInit, MainInv, ParsedInv, BeforeThreads, BeforeCatching, SamplingOver
<1>4. ThreadsInv /\ RoundInv /\ StopInv /\ SlotInv
  BY DEF Init, ThreadsInv, RoundInv, StopInv, SlotInv, Thread
<1>5. BufferInv
  BY DEF Init, BufferInv, InBulk, Delivery!Run
<1>6. IntervalInv
  BY DEF Init, IntervalInv, BeforeThreads
<1> QED
  BY <1>1, <1>2, <1>3, <1>4, <1>5, <1>6 DEF IInv

\* The inductive invariant of the agent process.
THEOREM AgentInvariant == Spec => []IInv
<1>1. IInv /\ [Next]_vars => IInv'
  BY StoreStep, MainInvStep, ThreadsStep, RoundStep, BufferStep, StopStep, ParsedStep,
     SlotStep, IntervalStep, TypeStep DEF IInv
<1> QED
  BY <1>1, InitInv, PTL DEF Spec

\* main(), the plug-in threads, checkConf() and catcher() keep the types of
\* the agent's state: no reference of the pool is undone twice, no loop
\* variable leaves its range.
THEOREM AgentTypeCorrect == Spec => []TypeOK
<1>1. IInv => TypeOK
  BY DEF IInv
<1> QED
  BY <1>1, AgentInvariant, PTL

\* Once main() has joined all plug-in threads, none of them is in a hook.
LEMMA SamplingIsOver == IInv => NoHookAfterUnload
  BY AgentAssumption DEF IInv, ThreadsInv, MainInv, NoHookAfterUnload, Thread

\* startThreads() unmaps the libraries of the plug-ins when no thread is in a
\* hook, or can come back to one, for any number of plug-ins.
THEOREM UnloadIsSafe == Spec => []NoHookAfterUnload
  BY SamplingIsOver, AgentInvariant, PTL

\* catcher() stops every gatherMetric() thread within the bulk it is in,
\* whatever the bulk size and however many signals follow.
THEOREM StopPrompt == Spec => []StopIsPrompt
<1>1. IInv => StopIsPrompt
  BY DEF IInv, StopInv, StopIsPrompt
<1> QED
  BY <1>1, AgentInvariant, PTL

\* checkConf() gives a plug-in that every content of the file names no other
\* interval than one of those, for every set of contents and any edits.
THEOREM IntervalsConfigured == Spec => []IntervalsAreConfigured
<1>1. IInv => IntervalsAreConfigured
  BY AgentAssumption DEF IInv, IntervalInv, IntervalsAreConfigured, MainInv, BeforeThreads
<1> QED
  BY <1>1, AgentInvariant, PTL

-----------------------------------------------------------------------------
(* The agent implements SampleDelivery *)

\* At the start of the process nothing is sampled, pending or settled.
LEMMA DeliveryInit == Init => Delivery!Init
<1> SUFFICES ASSUME Init PROVE Delivery!Init
  OBVIOUS
<1>1. Settled = [t \in Thread |-> 0]
  BY DEF Init, Settled
<1> QED
  BY <1>1 DEF Init, Delivery!Init, SamplingOver

\* What has been settled, where taken and json_array have their types.
LEMMA SettledValue ==
    ASSUME IInv, NEW t \in Thread
    PROVE  /\ taken[t] \in Nat /\ Len(buf[t]) \in Nat
           /\ Settled[t] = taken[t] - Len(buf[t])
           /\ Settled[t] \in Nat
  BY DEF IInv, TypeOK, BufferInv, Settled

\* A sample is taken before the libraries are unmapped, and not settled yet.
LEMMA SampleTakes ==
    ASSUME IInv, NEW t \in Thread, Sample(t)
    PROVE  Delivery!Take(t)
<1>1. ~SamplingOver
  BY SamplingIsOver DEF NoHookAfterUnload, Sample, GatherStep
<1>2. SamplingOver' = SamplingOver
  BY DEF Sample, GatherStep, progress, SamplingOver
<1>3. taken' = [taken EXCEPT ![t] = taken[t] + 1] /\ stored' = stored
  BY DEF Sample
<1>4. Settled' = Settled
  <2>1. \A u \in Thread : Settled'[u] = Settled[u]
    <3> TAKE u \in Thread
    <3>1. taken \in [Thread -> Nat] /\ buf \in [Thread -> Seq(Nat)]
      BY DEF IInv, TypeOK
    <3>2. buf' = [buf EXCEPT ![t] = Append(buf[t], taken[t] + 1)]
      BY DEF Sample
    <3>3. CASE u = t
      <4>1. taken'[t] = taken[t] + 1 /\ Len(buf'[t]) = Len(buf[t]) + 1
        BY <1>3, <3>1, <3>2
      <4> QED
        BY <3>3, <4>1, SettledValue DEF Settled
    <3>4. CASE u # t
      BY <1>3, <3>1, <3>2, <3>4 DEF Settled
    <3> QED
      BY <3>3, <3>4
  <2> QED
    BY <2>1 DEF Settled
<1> QED
  BY <1>1, <1>2, <1>3, <1>4 DEF Delivery!Take

\* A request settles the whole buffer: the samples behind those settled, in
\* their order, reach the server all or not at all.
LEMMA PublishSettles ==
    ASSUME IInv, NEW t \in Thread, Publish(t)
    PROVE  Delivery!Settle(t)
<1>1. ~SamplingOver
  BY SamplingIsOver DEF NoHookAfterUnload, Publish, GatherStep
<1>2. SamplingOver' = SamplingOver
  BY DEF Publish, GatherStep, progress, SamplingOver
<1>3. taken' = taken /\ buf' = [buf EXCEPT ![t] = << >>]
  BY DEF Publish
<1>4. Settled[t] < taken[t] /\ buf[t] = Delivery!Run(Settled[t], taken[t])
  <2>1. gather[t] = "send"
    BY DEF Publish, GatherStep
  <2>2. Len(buf[t]) > 0 /\ buf[t] = Delivery!Run(taken[t] - Len(buf[t]), taken[t])
    BY <2>1 DEF IInv, BufferInv, InBulk
  <2> QED
    BY <2>2, SettledValue
<1>5. Settled' = [Settled EXCEPT ![t] = taken[t]]
  <2>1. \A u \in Thread : Settled'[u] = IF u = t THEN taken[t] ELSE Settled[u]
    <3> TAKE u \in Thread
    <3>1. taken \in [Thread -> Nat] /\ buf \in [Thread -> Seq(Nat)]
      BY DEF IInv, TypeOK
    <3>2. CASE u = t
      <4>1. buf'[t] = << >> /\ taken'[t] = taken[t] /\ taken[t] \in Nat
        BY <1>3, <3>1
      <4>2. Settled'[t] = taken[t] - 0
        BY <4>1 DEF Settled
      <4> QED
        BY <3>2, <4>1, <4>2
    <3>3. CASE u # t
      BY <1>3, <3>1, <3>3 DEF Settled
    <3> QED
      BY <3>2, <3>3
  <2> QED
    BY <2>1 DEF Settled
<1>6. \/ stored' = [stored EXCEPT ![t] = stored[t] \o Delivery!Run(Settled[t], taken[t])]
      \/ stored' = stored
  BY <1>4 DEF Publish
<1> QED
  BY <1>1, <1>2, <1>3, <1>4, <1>5, <1>6 DEF Delivery!Settle

\* When all threads are joined nothing is left to settle.
LEMMA JoinedCloses ==
    ASSUME IInv, AllJoined
    PROVE  Delivery!Close
<1>1. ~SamplingOver /\ SamplingOver' /\ joined = PluginCount
  BY DEF AllJoined, MainStep, SamplingOver
<1>2. UNCHANGED <<taken, buf, stored>>
  BY DEF AllJoined, threads, gatherers, samples
<1>3. \A t \in Thread : Settled[t] = taken[t]
  <2> TAKE t \in Thread
  <2>1. gather[t] = "done"
    BY <1>1, AgentAssumption DEF IInv, ThreadsInv, Thread
  <2>2. Len(buf[t]) = 0
    BY <2>1 DEF IInv, BufferInv
  <2> QED
    BY <2>2, SettledValue
<1>4. Settled = taken
  BY <1>3 DEF Settled, IInv, TypeOK
<1>5. Settled' = Settled
  BY <1>2 DEF Settled
<1> QED
  BY <1>1, <1>2, <1>4, <1>5 DEF Delivery!Close

\* Whatever else happens is invisible.
LEMMA OthersStutter ==
    ASSUME IInv, [Next]_vars, ~AllJoined, \A t \in Thread : ~Sample(t) /\ ~Publish(t)
    PROVE  UNCHANGED Delivery!vars
<1>1. UNCHANGED <<taken, buf, stored>>
  <2>1. CASE UNCHANGED gatherers
    BY <2>1 DEF gatherers, samples
  <2>2. CASE CreateThread
    BY <2>2, CreateEffect
  <2>3. ASSUME NEW t \in Thread, Gather(t) \/ SignalGather(t)
        PROVE  UNCHANGED <<taken, buf, stored>>
    BY <2>3, SignalEffect DEF Gather, BeginBulk, LeaveLoop, ReadTvSec, ReadTvNsec, Wake,
        samples
  <2> QED
    BY <2>1, <2>2, <2>3, GatherFrame
<1>2. SamplingOver' = SamplingOver
  <2>1. CASE Main
    <3>1. \/ main' = main
          \/ /\ main \in {"unload", "log", "free", "clean"}
             /\ main' \in {"log", "free", "clean", "exit"}
          \/ /\ main \in {"pid", "parse", "parsing", "prepare", "start", "create",
                           "install", "wait"}
             /\ main' \in {"parse", "parsing", "prepare", "start", "create",
                            "install", "wait", "join"}
      BY <2>1 DEF Main, MainStep, ExitFrom, WriteTmpPID, WriteTmpPIDFails, UsageExit,
          MainParse, MainParseLine, MainParsed, MainParseFails, Prepare, PrepareFails,
          StartAgent, CreateThread, PluginExits, CreateThreadFails, ThreadsCreated,
          InstallCatcher, SeesStop, JoinThread, UnloadPlugins, CloseLog, RemovePidFile,
          CleanConfig, ExitSuccess
    <3> QED
      BY <3>1 DEF SamplingOver
  <2>2. CASE main' = main
    BY <2>2 DEF SamplingOver
  <2> QED
    BY <2>1, <2>2, MainFrame
<1>3. Settled' = Settled
  BY <1>1 DEF Settled
<1> QED
  BY <1>1, <1>2, <1>3 DEF Delivery!vars

\* The agent delivers samples as SampleDelivery says: those of a plug-in reach
\* the server in the order they were taken, once, a bulk whole or not at all,
\* and all are settled when the agent closes down - whatever signals, reloads,
\* failed requests and lost answers do.
THEOREM AgentDelivers == Spec => DeliversSamples
<1>1. IInv /\ [Next]_vars => [Delivery!Next]_(Delivery!vars)
  <2> SUFFICES ASSUME IInv, [Next]_vars PROVE [Delivery!Next]_(Delivery!vars)
    OBVIOUS
  <2>1. CASE \E t \in Thread : Sample(t) \/ Publish(t)
    BY <2>1, SampleTakes, PublishSettles DEF Delivery!Next
  <2>2. CASE AllJoined
    BY <2>2, JoinedCloses DEF Delivery!Next
  <2>3. CASE ~AllJoined /\ \A t \in Thread : ~Sample(t) /\ ~Publish(t)
    BY <2>3, OthersStutter
  <2> QED
    BY <2>1, <2>2, <2>3
<1> QED
  BY <1>1, DeliveryInit, AgentInvariant, PTL DEF Spec, DeliversSamples, Delivery!Spec
=============================================================================
