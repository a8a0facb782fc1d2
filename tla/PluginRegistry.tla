--------------------------- MODULE PluginRegistry ---------------------------
(***************************************************************************)
(* Discovery, registration and release of the agent's plug-ins:            *)
(* plugin_discover.c, plugin_manager.c and the hook loop of startThreads() *)
(* (thread_handler.c).                                                     *)
(*                                                                         *)
(* discover_plugins() writes the NAME of a library into the array          *)
(* plugins_name[]; the library's init function pushes its HOOK on a queue; *)
(* startThreads() later pops the queue into the array hooks[].  Nothing in *)
(* the code ties the two arrays together, yet thread t samples hooks[t] at *)
(* the interval configured for plugins_name[t].                            *)
(***************************************************************************)
EXTENDS Naturals, Sequences, FiniteSets

CONSTANTS
    Plugin,     \* the entries "<name>.so" of the plug-in directory
    Foreign,    \* its other entries (".", "..", other suffixes)
    MaxSlots,   \* length of plugins_name[], threads[], sleep_tims[]: 256
    None        \* an empty slot; also readdir() at the end of the directory

ASSUME EntryAssumption ==
    /\ IsFiniteSet(Plugin)
    /\ Plugin \cap Foreign = {}
    /\ None \notin Plugin
\* One array element is left for the thread that reloads the configuration.
ASSUME SlotAssumption ==
    /\ MaxSlots \in Nat
    /\ Cardinality(Plugin) < MaxSlots

VARIABLES
    phase,      \* where startThreads() is
    switch,     \* the section [plugins] of mf_config.ini
    unread,     \* directory entries readdir() has not returned yet
    names,      \* plugins_name[]
    count,      \* pluginCount
    queue,      \* pm->hook_queue; a hook is named by its plug-in
    handles,    \* pds->handle_list, its head first
    mapped,     \* libraries that dlopen() mapped and no dlclose() released
    hooks,      \* hooks[]
    fetched     \* t of the hook loop

vars == <<phase, switch, unread, names, count, queue, handles, mapped, hooks, fetched>>

Slot == 0 .. MaxSlots - 1
Phase == {"discover", "fetch", "run", "cleanup", "freed", "exited"}

TypeOK ==
    /\ phase \in Phase
    /\ switch \in [Plugin -> {"on", "off", "absent"}]
    /\ unread \in SUBSET (Plugin \cup Foreign)
    /\ names \in [Slot -> Plugin \cup {None}]
    /\ count \in Nat
    /\ queue \in Seq(Plugin)
    /\ handles \in Seq(Plugin)
    /\ mapped \in SUBSET Plugin
    /\ hooks \in [Slot -> Plugin \cup {None}]
    /\ fetched \in Nat

\* The plug-in directory is read in whatever order the file system gives; the
\* configuration has been parsed and no other thread exists yet.
Init ==
    /\ phase = "discover"
    /\ switch \in [Plugin -> {"on", "off", "absent"}]
    /\ unread = Plugin \cup Foreign
    /\ names = [s \in Slot |-> None]
    /\ count = 0
    /\ queue = << >>
    /\ handles = << >>
    /\ mapped = {}
    /\ hooks = [s \in Slot |-> None]
    /\ fetched = 0

-----------------------------------------------------------------------------
(* discover_plugins() *)

\* opendir() failed: startThreads() carries on without plug-ins.
OpenDirFails ==
    /\ phase = "discover"
    /\ unread = Plugin \cup Foreign
    /\ phase' = "fetch"
    /\ UNCHANGED <<switch, unread, names, count, queue, handles, mapped, hooks, fetched>>

\* An entry that is not a ".so" file.
SkipForeign(e) ==
    /\ phase = "discover"
    /\ e \in unread \cap Foreign
    /\ unread' = unread \ {e}
    /\ UNCHANGED <<phase, switch, names, count, queue, handles, mapped, hooks, fetched>>

\* A plug-in that [plugins] switches off; one it does not mention is loaded.
SkipOff(p) ==
    /\ phase = "discover"
    /\ p \in unread \cap Plugin
    /\ switch[p] = "off"
    /\ unread' = unread \ {p}
    /\ UNCHANGED <<phase, switch, names, count, queue, handles, mapped, hooks, fetched>>

\* The name is written to the next slot before the load is attempted, so a
\* failed load leaves it there and the next plug-in overwrites it.
NameSlot(p) ==
    /\ phase = "discover"
    /\ p \in unread \cap Plugin
    /\ switch[p] # "off"
    /\ unread' = unread \ {p}
    /\ names' = [names EXCEPT ![count] = p]

\* Fault: pluginCount++ outside "if (handle)".
LoadFails_Counted(p) ==
    /\ NameSlot(p)
    /\ count' = count + 1
    /\ UNCHANGED <<phase, switch, queue, handles, mapped, hooks, fetched>>

\* dlopen() fails, or init_<name>() returns 0 and the library is closed again.
LoadFails(p) ==
    /\ NameSlot(p)
    /\ UNCHANGED <<phase, switch, count, queue, handles, mapped, hooks, fetched>>

\* The library has no init_<name>(): load_plugin() returns without dlclose().
LoadFindsNoInit(p) ==
    /\ NameSlot(p)
    /\ mapped' = mapped \cup {p}
    /\ UNCHANGED <<phase, switch, count, queue, handles, hooks, fetched>>

\* init_<name>() calls exit() (Board_power, for a device it does not know): the
\* agent ends in the middle of discovery, its other plug-ins with it.
LoadExits(p) ==
    /\ NameSlot(p)
    /\ phase' = "exited"
    /\ mapped' = mapped \cup {p}
    /\ UNCHANGED <<switch, count, queue, handles, hooks, fetched>>

\* Fault: the hook is queued without its plug-in.
RegisterHook_Unnamed(p) == p \in Plugin /\ queue' = Append(queue, None)

\* PluginManager_register_hook(), called by init_<name>() when it succeeds.
RegisterHook(p) == queue' = Append(queue, p)

\* Fault: the test of rc inverted, dlclose() on success.
LoadSucceeds_Unmaps(p) ==
    /\ NameSlot(p)
    /\ RegisterHook(p)
    /\ handles' = <<p>> \o handles
    /\ count' = count + 1
    /\ UNCHANGED <<phase, switch, mapped, hooks, fetched>>

\* Fault: handle_node->next is not set.
LoadSucceeds_DropsList(p) ==
    /\ NameSlot(p)
    /\ RegisterHook(p)
    /\ mapped' = mapped \cup {p}
    /\ handles' = <<p>>
    /\ count' = count + 1
    /\ UNCHANGED <<phase, switch, hooks, fetched>>

\* Fault: pluginCount++ in load_plugin() as well.
LoadSucceeds_CountsTwice(p) ==
    /\ NameSlot(p)
    /\ RegisterHook(p)
    /\ mapped' = mapped \cup {p}
    /\ handles' = <<p>> \o handles
    /\ count' = count + 2
    /\ UNCHANGED <<phase, switch, hooks, fetched>>

\* init_<name>() registers its hook and returns 1; the handle is pushed.
LoadSucceeds(p) ==
    /\ NameSlot(p)
    /\ RegisterHook(p)
    /\ mapped' = mapped \cup {p}
    /\ handles' = <<p>> \o handles
    /\ count' = count + 1
    /\ UNCHANGED <<phase, switch, hooks, fetched>>

DiscoveryEnds ==
    /\ phase = "discover"
    /\ unread = {}
    /\ phase' = "fetch"
    /\ UNCHANGED <<switch, unread, names, count, queue, handles, mapped, hooks, fetched>>

-----------------------------------------------------------------------------
(* startThreads(), PluginManager_get_hook(), cleanup_plugins() *)

\* PluginManager_get_hook(): NULL when the queue is empty.
HookAtFront == IF queue = << >> THEN None ELSE Head(queue)
RestOfQueue == IF queue = << >> THEN << >> ELSE Tail(queue)

FetchHook ==
    /\ phase = "fetch"
    /\ fetched < count
    /\ hooks' = [hooks EXCEPT ![fetched] = HookAtFront]
    /\ queue' = RestOfQueue
    /\ fetched' = fetched + 1
    /\ UNCHANGED <<phase, switch, unread, names, count, handles, mapped>>

\* All threads are created; they run until the agent is told to stop.
StartSampling ==
    /\ phase = "fetch"
    /\ fetched = count
    /\ phase' = "run"
    /\ UNCHANGED <<switch, unread, names, count, queue, handles, mapped, hooks, fetched>>

\* The sampling threads have been joined (module AgentThreads).
SamplingEnds ==
    /\ phase = "run"
    /\ phase' = "cleanup"
    /\ UNCHANGED <<switch, unread, names, count, queue, handles, mapped, hooks, fetched>>

CloseHandle ==
    /\ phase = "cleanup"
    /\ handles # << >>
    /\ mapped' = mapped \ {Head(handles)}
    /\ handles' = Tail(handles)
    /\ UNCHANGED <<phase, switch, unread, names, count, queue, hooks, fetched>>

\* PluginManager_free()
FreeManager ==
    /\ phase = "cleanup"
    /\ handles = << >>
    /\ phase' = "freed"
    /\ UNCHANGED <<switch, unread, names, count, queue, handles, mapped, hooks, fetched>>

Discover ==
    \/ OpenDirFails
    \/ \E e \in Foreign : SkipForeign(e)
    \/ \E p \in Plugin : SkipOff(p) \/ LoadFails(p) \/ LoadFindsNoInit(p) \/ LoadExits(p)
                         \/ LoadSucceeds(p)
    \/ DiscoveryEnds

Next ==
    \/ Discover
    \/ FetchHook
    \/ StartSampling
    \/ SamplingEnds
    \/ CloseHandle
    \/ FreeManager

Spec == Init /\ [][Next]_vars

-----------------------------------------------------------------------------
(* Properties *)

\* Thread t of thread_handler.c calls the hook of the plug-in whose name, and
\* so whose configured interval, is in slot t: the FIFO queue, the slot that a
\* failed load leaves behind and the later pops agree for every directory.
HookMatchesName ==
    \A s \in Slot : s < fetched => hooks[s] = names[s] /\ hooks[s] \in Plugin

\* While threads may call hooks[], the code of every hook stays mapped.
HooksStayMapped ==
    phase = "run" => \A s \in Slot : s < count => hooks[s] \in mapped

\* cleanup_plugins() releases every library that provided a hook, even when
\* other loads failed in between.
HooksAreReleased ==
    phase = "freed" => \A s \in Slot : s < count => names[s] \notin mapped

\* No index of plugins_name[], hooks[] or threads[] runs past the arrays, the
\* element threads[pluginCount] of the reloading thread included.
IndicesInBounds ==
    /\ count < MaxSlots
    /\ fetched <= count
    /\ Len(queue) + fetched <= count
=============================================================================
