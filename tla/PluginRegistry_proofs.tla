----------------------- MODULE PluginRegistry_proofs -----------------------
(***************************************************************************)
(* Proofs about PluginRegistry, for any directory of fewer than MaxSlots   *)
(* plug-ins.  The inductive invariant says that the queue holds the names  *)
(* of the slots not fetched yet, in order, and the handle list the names   *)
(* of the slots whose library is still mapped, in reverse.                 *)
(***************************************************************************)
EXTENDS PluginRegistry, TLAPS, FiniteSetTheorems

\* Every slot that will be used needs an entry that was read: the slots taken
\* and the entries left never exceed the plug-ins.
EntriesSuffice == count + Cardinality(unread \cap Plugin) <= Cardinality(Plugin)

\* The slots below pluginCount name distinct plug-ins, all of them read.
NamesAreDistinct ==
    /\ \A s \in Slot : s < count => names[s] \in Plugin \ unread
    /\ \A s, u \in Slot : s < count /\ u < count /\ names[s] = names[u] => s = u

\* pm->hook_queue holds the hooks of the slots fetched .. count-1.
QueueMatchesNames ==
    /\ fetched <= count
    /\ Len(queue) = count - fetched
    /\ \A k \in 1 .. Len(queue) : queue[k] = names[fetched + k - 1]

\* pds->handle_list holds the slots 0 .. Len-1, the newest first; these are
\* mapped and the others, closed by cleanup_plugins(), are not.
HandlesMatchNames ==
    /\ Len(handles) <= count
    /\ phase \in {"discover", "fetch", "run"} => Len(handles) = count
    /\ phase = "freed" => Len(handles) = 0
    /\ \A k \in 1 .. Len(handles) : handles[k] = names[Len(handles) - k]
    /\ \A s \in Slot : s < Len(handles) => names[s] \in mapped
    /\ \A s \in Slot : s < count /\ s >= Len(handles) => names[s] \notin mapped

PhaseInv ==
    /\ phase = "discover" => fetched = 0
    /\ phase \in {"run", "cleanup", "freed"} => fetched = count

IInv ==
    /\ TypeOK
    /\ EntriesSuffice
    /\ NamesAreDistinct
    /\ QueueMatchesNames
    /\ HandlesMatchNames
    /\ PhaseInv
    /\ HookMatchesName

-----------------------------------------------------------------------------

\* Reading a plug-in leaves one entry less.
LEMMA UnreadShrinks ==
    ASSUME NEW S, IsFiniteSet(Plugin), NEW p \in S \cap Plugin
    PROVE  /\ Cardinality(S \cap Plugin) \in Nat
           /\ Cardinality((S \ {p}) \cap Plugin) = Cardinality(S \cap Plugin) - 1
           /\ Cardinality(S \cap Plugin) > 0
<1>1. IsFiniteSet(S \cap Plugin)
  BY FS_Subset
<1>2. (S \ {p}) \cap Plugin = (S \cap Plugin) \ {p}
  OBVIOUS
<1>3. Cardinality((S \cap Plugin) \ {p}) = Cardinality(S \cap Plugin) - 1
  BY <1>1, FS_RemoveElement
<1>4. Cardinality(S \cap Plugin) \in Nat /\ Cardinality(S \cap Plugin) # 0
  BY <1>1, FS_CardinalityType, FS_EmptySet
<1>5. Cardinality((S \ {p}) \cap Plugin) = Cardinality((S \cap Plugin) \ {p})
  BY <1>2, Zenon
<1>6. Cardinality(S \cap Plugin) > 0
  BY <1>4
<1> QED
  BY <1>3, <1>4, <1>5, <1>6, Zenon

\* The bounds that EntriesSuffice gives while an entry is left.
LEMMA SlotLeft ==
    ASSUME TypeOK, EntriesSuffice, NEW p \in unread \cap Plugin
    PROVE  count \in Slot /\ count + 1 < MaxSlots
<1>1. Cardinality(unread \cap Plugin) \in Nat /\ Cardinality(unread \cap Plugin) > 0
  BY UnreadShrinks, EntryAssumption
<1>2. Cardinality(Plugin) \in Nat
  BY EntryAssumption, FS_CardinalityType
<1> QED
  BY <1>1, <1>2, SlotAssumption DEF TypeOK, EntriesSuffice, Slot

\* The element threads[pluginCount] exists.
LEMMA CountInBounds ==
    ASSUME TypeOK, EntriesSuffice
    PROVE  count < MaxSlots
<1>1. IsFiniteSet(unread \cap Plugin)
  BY EntryAssumption, FS_Subset
<1>2. Cardinality(unread \cap Plugin) \in Nat /\ Cardinality(Plugin) \in Nat
  BY <1>1, EntryAssumption, FS_CardinalityType
<1> QED
  BY <1>2, SlotAssumption DEF TypeOK, EntriesSuffice

\* The state in which startThreads() calls discover_plugins().
LEMMA InitInv == Init => IInv
<1> SUFFICES ASSUME Init PROVE IInv
  OBVIOUS
<1>1. TypeOK
  BY DEF Init, TypeOK, Phase
<1>2. EntriesSuffice
  <2>1. unread \cap Plugin = Plugin
    BY DEF Init
  <2>2. Cardinality(unread \cap Plugin) = Cardinality(Plugin)
    BY <2>1, Zenon
  <2>3. Cardinality(Plugin) \in Nat
    BY EntryAssumption, FS_CardinalityType
  <2> QED
    BY <2>2, <2>3 DEF Init, EntriesSuffice
<1>3. NamesAreDistinct /\ PhaseInv /\ HookMatchesName
  BY DEF Init, NamesAreDistinct, PhaseInv, HookMatchesName, Slot
<1>4. QueueMatchesNames /\ HandlesMatchNames
  BY DEF Init, QueueMatchesNames, HandlesMatchNames, Slot
<1> QED
  BY <1>1, <1>2, <1>3, <1>4 DEF IInv

-----------------------------------------------------------------------------

\* A directory entry is read and no slot is completed: the loads that fail or end
\* the agent, and the entries that are skipped.  Only names[count] may change.
LEMMA SkipEntry ==
    ASSUME IInv, phase = "discover", phase' \in {"discover", "exited"},
           UNCHANGED <<switch, count, queue, handles, hooks, fetched>>,
           NEW e \in unread, unread' = unread \ {e},
           \/ UNCHANGED names
           \/ e \in Plugin /\ count \in Slot /\ names' = [names EXCEPT ![count] = e],
           mapped' = mapped \/ (e \in Plugin /\ mapped' = mapped \cup {e})
    PROVE  IInv'
<1> USE SlotAssumption DEF IInv
<1>1. TypeOK'
  BY DEF TypeOK, Phase
<1>2. EntriesSuffice'
  <2>1. CASE e \in Plugin
    <3>1. Cardinality(unread' \cap Plugin) = Cardinality(unread \cap Plugin) - 1
          /\ Cardinality(unread \cap Plugin) \in Nat
      BY <2>1, UnreadShrinks, EntryAssumption
    <3>2. Cardinality(Plugin) \in Nat
      BY EntryAssumption, FS_CardinalityType
    <3> QED
      BY <3>1, <3>2 DEF EntriesSuffice, TypeOK
  <2>2. CASE e \notin Plugin
    <3>1. unread' \cap Plugin = unread \cap Plugin
      BY <2>2
    <3>2. Cardinality(unread' \cap Plugin) = Cardinality(unread \cap Plugin)
      BY <3>1, Zenon
    <3> QED
      BY <3>2 DEF EntriesSuffice
  <2> QED
    BY <2>1, <2>2
<1>3. \A s \in Slot : s < count => names'[s] = names[s]
  BY DEF TypeOK, Slot
<1>4. NamesAreDistinct'
  BY <1>3 DEF NamesAreDistinct, TypeOK
<1>5. QueueMatchesNames'
  <2>1. \A k \in 1 .. Len(queue) : fetched + k - 1 \in Slot /\ fetched + k - 1 < count
    BY CountInBounds DEF QueueMatchesNames, TypeOK, Slot
  <2> QED
    BY <1>3, <2>1 DEF QueueMatchesNames, TypeOK
<1>6. HandlesMatchNames'
  BY <1>3 DEF HandlesMatchNames, NamesAreDistinct, TypeOK, Slot
<1>7. PhaseInv' /\ HookMatchesName'
  BY <1>3 DEF PhaseInv, HookMatchesName, QueueMatchesNames, TypeOK, Slot
<1> QED
  BY <1>1, <1>2, <1>4, <1>5, <1>6, <1>7

\* A plug-in is loaded: its name, its hook and its handle go to the ends of the
\* three structures together.
LEMMA LoadSucceedsInv ==
    ASSUME IInv, NEW p \in Plugin, LoadSucceeds(p)
    PROVE  IInv'
<1> USE SlotAssumption DEF IInv
<1>0. /\ p \in unread \cap Plugin /\ phase = "discover" /\ fetched = 0
      /\ unread' = unread \ {p}
      /\ names' = [names EXCEPT ![count] = p]
      /\ queue' = Append(queue, p)
      /\ handles' = <<p>> \o handles
      /\ count' = count + 1
      /\ mapped' = mapped \cup {p}
      /\ UNCHANGED <<phase, switch, hooks, fetched>>
  BY DEF LoadSucceeds, NameSlot, RegisterHook, PhaseInv
<1>1. count \in Slot
  BY <1>0, SlotLeft
<1>2. /\ handles' \in Seq(Plugin)
      /\ Len(handles') = Len(handles) + 1
      /\ handles'[1] = p
      /\ \A k \in 2 .. Len(handles) + 1 : handles'[k] = handles[k - 1]
  BY <1>0 DEF TypeOK
<1>3. TypeOK'
  BY <1>0, <1>1, <1>2 DEF TypeOK
<1>4. EntriesSuffice'
  <2>1. Cardinality(unread' \cap Plugin) = Cardinality(unread \cap Plugin) - 1
        /\ Cardinality(unread \cap Plugin) \in Nat
    BY <1>0, UnreadShrinks, EntryAssumption
  <2>2. Cardinality(Plugin) \in Nat
    BY EntryAssumption, FS_CardinalityType
  <2> QED
    BY <1>0, <2>1, <2>2 DEF EntriesSuffice, TypeOK
<1>5. names'[count] = p /\ \A s \in Slot : s < count => names'[s] = names[s]
  BY <1>0, <1>1 DEF TypeOK, Slot
<1>6. NamesAreDistinct'
  BY <1>0, <1>5 DEF NamesAreDistinct, TypeOK, Slot
<1>7. QueueMatchesNames'
  <2>1. \A k \in 1 .. Len(queue) : queue'[k] = queue[k]
    BY <1>0 DEF TypeOK
  <2>2. Len(queue') = Len(queue) + 1 /\ queue'[Len(queue) + 1] = p
    BY <1>0 DEF TypeOK
  <2>3. Len(queue) = count
    BY <1>0 DEF QueueMatchesNames, TypeOK
  <2>4. \A k \in 1 .. Len(queue') : queue'[k] = names'[fetched' + k - 1]
    <3> TAKE k \in 1 .. Len(queue')
    <3>1. CASE k = count + 1
      BY <3>1, <1>0, <1>5, <2>2, <2>3 DEF TypeOK
    <3>2. CASE k # count + 1
      <4>1. k \in 1 .. Len(queue) /\ k - 1 \in Slot /\ k - 1 < count
        BY <3>2, <2>2, <2>3, <1>1 DEF TypeOK, Slot
      <4> QED
        BY <4>1, <2>1, <1>0, <1>5 DEF QueueMatchesNames, TypeOK, Slot
    <3> QED
      BY <3>1, <3>2
  <2> QED
    BY <1>0, <2>2, <2>3, <2>4 DEF QueueMatchesNames, TypeOK
<1>8. HandlesMatchNames'
  <2>1. Len(handles) = count
    BY <1>0 DEF HandlesMatchNames
  <2>2. \A k \in 1 .. Len(handles') : handles'[k] = names'[Len(handles') - k]
    <3> TAKE k \in 1 .. Len(handles')
    <3>1. CASE k = 1
      BY <3>1, <1>2, <1>5, <2>1 DEF TypeOK
    <3>2. CASE k # 1
      <4>1. /\ k \in 2 .. Len(handles) + 1 /\ k - 1 \in 1 .. Len(handles)
            /\ count - (k - 1) \in Slot /\ count - (k - 1) < count
            /\ Len(handles') - k = count - (k - 1)
        BY <3>2, <1>1, <1>2, <2>1 DEF TypeOK, Slot
      <4> QED
        BY <4>1, <1>2, <1>5, <2>1 DEF HandlesMatchNames
    <3> QED
      BY <3>1, <3>2
  <2>3. \A s \in Slot : s < Len(handles') => names'[s] \in mapped'
    BY <1>0, <1>2, <1>5, <2>1 DEF HandlesMatchNames, TypeOK, Slot
  <2> QED
    BY <1>0, <1>2, <2>1, <2>2, <2>3 DEF HandlesMatchNames, TypeOK, Slot
<1>9. PhaseInv' /\ HookMatchesName'
  BY <1>0 DEF PhaseInv, HookMatchesName, TypeOK, Slot
<1> QED
  BY <1>3, <1>4, <1>6, <1>7, <1>8, <1>9

\* The oldest hook of the queue goes to the first slot that has none.
LEMMA FetchHookInv ==
    ASSUME IInv, FetchHook
    PROVE  IInv'
<1> USE SlotAssumption DEF IInv
<1>0. queue # << >>
  <2>1. fetched < count /\ Len(queue) = count - fetched
    BY DEF FetchHook, QueueMatchesNames
  <2> QED
    BY <2>1 DEF TypeOK
<1>1. /\ phase = "fetch" /\ fetched < count
      /\ hooks' = [hooks EXCEPT ![fetched] = Head(queue)]
      /\ queue' = Tail(queue)
      /\ fetched' = fetched + 1
      /\ queue # << >>
      /\ UNCHANGED <<phase, switch, unread, names, count, handles, mapped>>
  BY <1>0 DEF FetchHook, HookAtFront, RestOfQueue
<1>2. fetched \in Slot
  BY <1>1, CountInBounds DEF TypeOK, Slot
<1>3. Head(queue) = queue[1] /\ Head(queue) = names[fetched] /\ Head(queue) \in Plugin
  BY <1>1 DEF TypeOK, QueueMatchesNames
<1>4. /\ Tail(queue) \in Seq(Plugin) /\ Len(Tail(queue)) = Len(queue) - 1
      /\ \A k \in 1 .. Len(queue) - 1 : Tail(queue)[k] = queue[k + 1]
  BY <1>1 DEF TypeOK
<1>5. TypeOK'
  BY <1>1, <1>2, <1>3, <1>4 DEF TypeOK
<1>6. EntriesSuffice' /\ NamesAreDistinct' /\ HandlesMatchNames' /\ PhaseInv'
  BY <1>1 DEF EntriesSuffice, NamesAreDistinct, HandlesMatchNames, PhaseInv
<1>7. QueueMatchesNames'
  BY <1>1, <1>4 DEF QueueMatchesNames, TypeOK
<1>8. HookMatchesName'
  BY <1>1, <1>2, <1>3 DEF HookMatchesName, TypeOK, Slot
<1> QED
  BY <1>5, <1>6, <1>7, <1>8

\* cleanup_plugins() closes the library of the highest slot still mapped; the
\* names being distinct, it is no other slot's.
LEMMA CloseHandleInv ==
    ASSUME IInv, CloseHandle
    PROVE  IInv'
<1> USE SlotAssumption DEF IInv
<1>1. /\ phase = "cleanup" /\ handles # << >>
      /\ mapped' = mapped \ {Head(handles)}
      /\ handles' = Tail(handles)
      /\ UNCHANGED <<phase, switch, unread, names, count, queue, hooks, fetched>>
  BY DEF CloseHandle
<1> DEFINE n == Len(handles)
<1>2. /\ n \in Nat /\ n > 0 /\ Len(handles') = n - 1
      /\ handles' \in Seq(Plugin)
      /\ \A k \in 1 .. n - 1 : handles'[k] = handles[k + 1]
      /\ Head(handles) = handles[1]
  BY <1>1 DEF TypeOK
<1>3. Head(handles) = names[n - 1] /\ n - 1 \in Slot /\ n - 1 < count
  BY <1>2, CountInBounds DEF HandlesMatchNames, TypeOK, Slot
<1>4. TypeOK'
  BY <1>1, <1>2 DEF TypeOK
<1>5. EntriesSuffice' /\ NamesAreDistinct' /\ PhaseInv' /\ QueueMatchesNames'
      /\ HookMatchesName'
  BY <1>1 DEF EntriesSuffice, NamesAreDistinct, PhaseInv, QueueMatchesNames, HookMatchesName
<1>6. \A k \in 1 .. Len(handles') : handles'[k] = names'[Len(handles') - k]
  BY <1>1, <1>2 DEF HandlesMatchNames
<1>7. \A s \in Slot : s < n - 1 => names[s] # names[n - 1]
  BY <1>2, <1>3 DEF NamesAreDistinct, TypeOK, Slot
<1>8. \A s \in Slot : s < Len(handles') => names'[s] \in mapped'
  BY <1>1, <1>2, <1>3, <1>7 DEF HandlesMatchNames, TypeOK, Slot
<1>9. \A s \in Slot : s < count' /\ s >= Len(handles') => names'[s] \notin mapped'
  BY <1>1, <1>2, <1>3 DEF HandlesMatchNames, TypeOK, Slot
<1> QED
  BY <1>1, <1>2, <1>4, <1>5, <1>6, <1>8, <1>9 DEF HandlesMatchNames, TypeOK

\* startThreads() moves on and the arrays, the queue and the list stay as they
\* are: phase' is one for which the invariant asks no more than it does now.
LEMMA PhaseStep ==
    ASSUME IInv, phase' \in Phase \ {"discover"},
           phase' \in {"run", "cleanup", "freed"} => fetched = count,
           phase' \in {"fetch", "run"} => Len(handles) = count,
           phase' = "freed" => Len(handles) = 0,
           UNCHANGED <<switch, unread, names, count, queue, handles, mapped, hooks, fetched>>
    PROVE  IInv'
<1> USE DEF IInv
<1>1. TypeOK'
  BY DEF TypeOK
<1>2. EntriesSuffice' /\ NamesAreDistinct' /\ QueueMatchesNames' /\ HookMatchesName'
  BY DEF EntriesSuffice, NamesAreDistinct, QueueMatchesNames, HookMatchesName
<1>3. PhaseInv'
  BY DEF PhaseInv, Phase
<1>4. HandlesMatchNames'
  BY DEF HandlesMatchNames, Phase
<1> QED
  BY <1>1, <1>2, <1>3, <1>4

\* Every step of discovery, hook fetching and clean-up keeps the invariant.
LEMMA NextInv == IInv /\ [Next]_vars => IInv'
<1> SUFFICES ASSUME IInv, [Next]_vars PROVE IInv'
  OBVIOUS
<1> USE DEF IInv
<1>1. CASE OpenDirFails \/ DiscoveryEnds
  <2>1. /\ phase = "discover" /\ phase' = "fetch"
        /\ UNCHANGED <<switch, unread, names, count, queue, handles, mapped, hooks, fetched>>
    BY <1>1 DEF OpenDirFails, DiscoveryEnds
  <2>2. Len(handles) = count
    BY <2>1 DEF HandlesMatchNames
  <2> QED
    BY <2>1, <2>2, PhaseStep DEF Phase
<1>2. ASSUME NEW e \in Foreign, SkipForeign(e) PROVE IInv'
  BY <1>2, SkipEntry DEF SkipForeign
<1>3. ASSUME NEW p \in Plugin, SkipOff(p) PROVE IInv'
  BY <1>3, SkipEntry DEF SkipOff
<1>4. ASSUME NEW p \in Plugin, LoadFails(p) \/ LoadFindsNoInit(p) \/ LoadExits(p)
      PROVE  IInv'
  <2>1. p \in unread \cap Plugin
    BY <1>4 DEF LoadFails, LoadFindsNoInit, LoadExits, NameSlot
  <2>2. count \in Slot
    BY <2>1, SlotLeft
  <2> QED
    BY <1>4, <2>1, <2>2, SkipEntry DEF LoadFails, LoadFindsNoInit, LoadExits, NameSlot
<1>5. ASSUME NEW p \in Plugin, LoadSucceeds(p) PROVE IInv'
  BY <1>5, LoadSucceedsInv
<1>6. CASE FetchHook
  BY <1>6, FetchHookInv
<1>7. CASE StartSampling \/ SamplingEnds \/ FreeManager
  <2>1. CASE StartSampling
    <3>1. /\ phase' = "run" /\ fetched = count /\ Len(handles) = count
          /\ UNCHANGED <<switch, unread, names, count, queue, handles, mapped, hooks, fetched>>
      BY <2>1 DEF StartSampling, HandlesMatchNames
    <3> QED
      BY <3>1, PhaseStep DEF Phase
  <2>2. CASE SamplingEnds
    <3>1. /\ phase' = "cleanup" /\ fetched = count
          /\ UNCHANGED <<switch, unread, names, count, queue, handles, mapped, hooks, fetched>>
      BY <2>2 DEF SamplingEnds, PhaseInv
    <3> QED
      BY <3>1, PhaseStep DEF Phase
  <2>3. CASE FreeManager
    <3>1. /\ phase' = "freed" /\ fetched = count /\ Len(handles) = 0
          /\ UNCHANGED <<switch, unread, names, count, queue, handles, mapped, hooks, fetched>>
      BY <2>3 DEF FreeManager, PhaseInv
    <3> QED
      BY <3>1, PhaseStep DEF Phase
  <2> QED
    BY <1>7, <2>1, <2>2, <2>3
<1>8. CASE CloseHandle
  BY <1>8, CloseHandleInv
<1>9. CASE UNCHANGED vars
  BY <1>9 DEF vars, TypeOK, EntriesSuffice, NamesAreDistinct, QueueMatchesNames,
     HandlesMatchNames, PhaseInv, HookMatchesName
<1> QED
  BY <1>1, <1>2, <1>3, <1>4, <1>5, <1>6, <1>7, <1>8, <1>9 DEF Next, Discover

\* The invariant holds until the plug-in manager is freed.
LEMMA Invariance == Spec => []IInv
<1> QED
  BY InitInv, NextInv, PTL DEF Spec

-----------------------------------------------------------------------------

\* The variables of the registry keep their types.
THEOREM TypeCorrect == Spec => []TypeOK
<1>1. IInv => TypeOK
  BY DEF IInv
<1> QED
  BY <1>1, Invariance, PTL

\* Thread t calls the hook of the plug-in named in slot t, whatever the
\* directory holds, its order, and the loads that fail (startThreads()).
THEOREM HooksMatchNames == Spec => []HookMatchesName
<1>1. IInv => HookMatchesName
  BY DEF IInv
<1> QED
  BY <1>1, Invariance, PTL

\* Fewer plug-ins than array elements keep every index of the arrays in bounds,
\* that of the reloading thread included.
THEOREM IndicesStayInBounds == Spec => []IndicesInBounds
<1>1. IInv => IndicesInBounds
  BY CountInBounds DEF IInv, IndicesInBounds, QueueMatchesNames, TypeOK
<1> QED
  BY <1>1, Invariance, PTL

\* The code of every hook is mapped while the threads run, whatever other loads
\* have failed (startThreads()).
THEOREM HooksAreMapped == Spec => []HooksStayMapped
<1>1. IInv => HooksStayMapped
  <2> SUFFICES ASSUME IInv, phase = "run", NEW s \in Slot, s < count
               PROVE  hooks[s] \in mapped
    BY DEF HooksStayMapped
  <2>1. fetched = count /\ Len(handles) = count
    BY DEF IInv, PhaseInv, HandlesMatchNames
  <2> QED
    BY <2>1 DEF IInv, HookMatchesName, HandlesMatchNames
<1> QED
  BY <1>1, Invariance, PTL

\* What provided a hook is released in the end, once each (cleanup_plugins()).
THEOREM LibrariesAreReleased == Spec => []HooksAreReleased
<1>1. IInv => HooksAreReleased
  BY SlotAssumption DEF IInv, HooksAreReleased, HandlesMatchNames, TypeOK, Slot
<1> QED
  BY <1>1, Invariance, PTL
=============================================================================
