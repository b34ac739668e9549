------------------------------ MODULE Startup -------------------------------
(***************************************************************************)
(* How a process comes up: main mounts the configurations port by port,    *)
(* starts the plugins of what it has mounted and lets each port listen     *)
(* while it goes on with the next. Any fatal error ends the process.       *)
(* Maps (ports, listenersMap) are walked in any order.                     *)
(***************************************************************************)
EXTENDS Integers, Sequences

CONSTANTS
    Ports,      \* keys of configsByPort
    Configs,    \* configuration files; mounting one makes a MountRoutesResult
    PortOf,     \* PortOf[c]: the port of configuration c
    Entries,    \* entries of the listenersMaps: one per listener and method
    ConfigOf,   \* ConfigOf[e]: the configuration entry e comes from
    Plugins,    \* schedule plugin instances
    PluginsOf,  \* PluginsOf[e]: the plugins of the listener of entry e
    Ids,        \* ids that may be configured for them
    None

\* A plugin belongs to one listener, and a listener to one configuration.
ASSUME ConstantsAssumption ==
    /\ PortOf \in [Configs -> Ports]
    /\ ConfigOf \in [Entries -> Configs]
    /\ PluginsOf \in [Entries -> SUBSET Plugins]
    /\ \A e, f \in Entries : ConfigOf[e] # ConfigOf[f] => PluginsOf[e] \cap PluginsOf[f] = {}
    /\ None \notin Ports \cup Configs

VARIABLES
    id,         \* id[p]: the id configured for plugin p
    pc,         \* where main is
    portsLeft,  \* ports main has not come to
    port,       \* the port being set up
    configsLeft,    \* configurations of port still to mount
    mountResults,   \* what has been mounted, for any port
    next,       \* index of the result whose plugins are started next
    entriesLeft,    \* its entries PluginsStart has not come to
    startedPlugins, \* the plugins this PluginsStart has started
    loops,      \* loops[p]: goroutines that OnStart of p has begun
    listening   \* ports whose server runs

\* History: starts[c] counts the calls of PluginsStart for configuration c.
VARIABLE starts

vars == <<id, pc, portsLeft, port, configsLeft, mountResults, next, entriesLeft,
          startedPlugins, loops, listening, starts>>

ConfigsOfPort(q) == {c \in Configs : PortOf[c] = q}
EntriesOf(c) == {e \in Entries : ConfigOf[e] = c}
PluginsOfConfig(c) == UNION {PluginsOf[e] : e \in EntriesOf(c)}

Init ==
    /\ id \in [Plugins -> Ids]
    /\ pc = "port"
    /\ portsLeft = Ports
    /\ port = None
    /\ configsLeft = {}
    /\ mountResults = <<>>
    /\ next = 1
    /\ entriesLeft = {}
    /\ startedPlugins = {}
    /\ loops = [p \in Plugins |-> 0]
    /\ listening = {}
    /\ starts = [c \in Configs |-> 0]

\* logrus.Fatalf: os.Exit ends every goroutine and runs no deferred function.
Fatal ==
    /\ pc' = "exit"
    /\ listening' = {}
    /\ loops' = [p \in Plugins |-> 0]

NextPort(q) ==
    /\ pc = "port"
    /\ q \in portsLeft
    /\ portsLeft' = portsLeft \ {q}
    /\ port' = q
    /\ configsLeft' = ConfigsOfPort(q)
    /\ pc' = "mount"
    /\ UNCHANGED <<id, mountResults, next, entriesLeft, startedPlugins, loops, listening, starts>>

\* MountRoutes compiles the listeners of a configuration and adds its routes.
Mount(c) ==
    /\ pc = "mount"
    /\ c \in configsLeft
    /\ configsLeft' = configsLeft \ {c}
    /\ mountResults' = Append(mountResults, c)
    /\ UNCHANGED <<id, pc, portsLeft, port, next, entriesLeft, startedPlugins, loops, listening,
                   starts>>

\* Defaults, validation, a storage, a database or a migration fails.
MountFails(c) ==
    /\ pc = "mount"
    /\ c \in configsLeft
    /\ Fatal
    /\ UNCHANGED <<id, portsLeft, port, configsLeft, mountResults, next, entriesLeft,
                   startedPlugins, starts>>

\* Variant: the results are counted from zero.
Mounted_FromZero ==
    /\ pc = "mount"
    /\ configsLeft = {}
    /\ next' = 0
    /\ pc' = "validate"
    /\ UNCHANGED <<id, portsLeft, port, configsLeft, mountResults, entriesLeft, startedPlugins,
                   loops, listening, starts>>

\* Variant: the port listens as soon as its routes are mounted.
Mounted_Listens ==
    /\ pc = "mount"
    /\ configsLeft = {}
    /\ next' = 1
    /\ pc' = "validate"
    /\ listening' = listening \cup {port}
    /\ UNCHANGED <<id, portsLeft, port, configsLeft, mountResults, entriesLeft, startedPlugins,
                   loops, starts>>

\* The port is mounted; PluginsStart is called on every result there is so far,
\* those of the ports before included.
Mounted ==
    /\ pc = "mount"
    /\ configsLeft = {}
    /\ next' = 1
    /\ pc' = "validate"
    /\ UNCHANGED <<id, portsLeft, port, configsLeft, mountResults, entriesLeft, startedPlugins,
                   loops, listening, starts>>
-----------------------------------------------------------------------------
(* MountRoutesResult.PluginsStart, on the result at index next.            *)

Current == mountResults[next]

\* Variant: only the plugins of one listener are compared.
DuplicateIds_PerListener(c) ==
    \E e \in EntriesOf(c) : \E p, q \in PluginsOf[e] : p # q /\ id[p] = id[q]

\* Two plugins, not one plugin of a listener with two methods, have one id.
\* Only the plugins of the result are compared.
DuplicateIds(c) ==
    \E p, q \in PluginsOfConfig(c) : p # q /\ id[p] = id[q]

Validate ==
    /\ pc = "validate"
    /\ next <= Len(mountResults)
    /\ ~DuplicateIds(Current)
    /\ entriesLeft' = EntriesOf(Current)
    /\ startedPlugins' = {}
    /\ starts' = [starts EXCEPT ![Current] = @ + 1]
    /\ pc' = "start"
    /\ UNCHANGED <<id, portsLeft, port, configsLeft, mountResults, next, loops, listening>>

ValidateFails ==
    /\ pc = "validate"
    /\ next <= Len(mountResults)
    /\ DuplicateIds(Current)
    /\ Fatal
    /\ UNCHANGED <<id, portsLeft, port, configsLeft, mountResults, next, entriesLeft,
                   startedPlugins, starts>>

\* Variant: what has been started is not remembered.
StartEntry_Forgets(e) ==
    /\ pc = "start"
    /\ e \in entriesLeft
    /\ entriesLeft' = entriesLeft \ {e}
    /\ loops' = [p \in Plugins |-> loops[p] + IF p \in PluginsOf[e] THEN 1 ELSE 0]
    /\ UNCHANGED <<id, pc, portsLeft, port, configsLeft, mountResults, next,
                   startedPlugins, listening, starts>>

\* OnStart of the plugins of a listener, unless an entry of the same listener has
\* started them: runLoop is raised and a goroutine runs the loop.
StartEntry(e) ==
    /\ pc = "start"
    /\ e \in entriesLeft
    /\ entriesLeft' = entriesLeft \ {e}
    /\ startedPlugins' = startedPlugins \cup PluginsOf[e]
    /\ loops' = [p \in Plugins |->
                    loops[p] + IF p \in PluginsOf[e] \ startedPlugins THEN 1 ELSE 0]
    /\ UNCHANGED <<id, pc, portsLeft, port, configsLeft, mountResults, next, listening, starts>>

\* PluginsStart returns; main takes the next result.
Started ==
    /\ pc = "start"
    /\ entriesLeft = {}
    /\ next' = next + 1
    /\ pc' = "validate"
    /\ UNCHANGED <<id, portsLeft, port, configsLeft, mountResults, entriesLeft,
                   startedPlugins, loops, listening, starts>>
-----------------------------------------------------------------------------
(* The servers.                                                            *)

\* Variant: ListenAndServe is called by main itself.
Listen_Blocks ==
    /\ pc = "validate"
    /\ next > Len(mountResults)
    /\ listening' = listening \cup {port}
    /\ pc' = "serve"
    /\ UNCHANGED <<id, portsLeft, port, configsLeft, mountResults, next, entriesLeft,
                   startedPlugins, loops, starts>>

\* A goroutine begins to serve the port; main goes on.
Listen ==
    /\ pc = "validate"
    /\ next > Len(mountResults)
    /\ listening' = listening \cup {port}
    /\ pc' = "port"
    /\ UNCHANGED <<id, portsLeft, port, configsLeft, mountResults, next, entriesLeft,
                   startedPlugins, loops, starts>>

\* ListenAndServe returns, which it only does with an error, wherever main is.
ServerFails(q) ==
    /\ q \in listening
    /\ pc # "exit"
    /\ Fatal
    /\ UNCHANGED <<id, portsLeft, port, configsLeft, mountResults, next, entriesLeft,
                   startedPlugins, starts>>

\* wg.Wait: every port has its server. It never returns, since ServerFails ends
\* the process before wg.Done: the deferred PluginsStop is never reached.
Wait ==
    /\ pc = "port"
    /\ portsLeft = {}
    /\ pc' = "wait"
    /\ UNCHANGED <<id, portsLeft, port, configsLeft, mountResults, next, entriesLeft,
                   startedPlugins, loops, listening, starts>>

Main ==
    \/ \E q \in Ports : NextPort(q)
    \/ \E c \in Configs : Mount(c) \/ MountFails(c)
    \/ Mounted
    \/ Validate
    \/ ValidateFails
    \/ \E e \in Entries : StartEntry(e)
    \/ Started
    \/ Listen
    \/ Wait

Next == Main \/ \E q \in Ports : ServerFails(q)

Spec == Init /\ [][Next]_vars /\ WF_vars(Main)
-----------------------------------------------------------------------------
(* Properties.                                                             *)

TypeOK ==
    /\ id \in [Plugins -> Ids]
    /\ pc \in {"port", "mount", "validate", "start", "wait", "exit"}
    /\ portsLeft \subseteq Ports
    /\ port \in Ports \cup {None}
    /\ configsLeft \subseteq Configs
    /\ mountResults \in Seq(Configs)
    /\ next \in 1..(Len(mountResults) + 1)
    /\ entriesLeft \subseteq Entries
    /\ startedPlugins \subseteq Plugins
    /\ loops \in [Plugins -> Nat]
    /\ listening \subseteq Ports
    /\ starts \in [Configs -> Nat]

\* A port listens, and so accepts tasks to schedule, only when every plugin behind
\* it has a loop that will execute them.
ListeningPortsHaveLoops ==
    \A c \in Configs : \A p \in PluginsOfConfig(c) :
        PortOf[c] \in listening => loops[p] > 0

\* A plugin has one loop for each call of PluginsStart that saw it, whatever methods
\* and entries stand before it and however they are walked; a call that is under way
\* may still have an entry of it to come to.
OneLoopPerPluginsStart ==
    pc # "exit" =>
        \A c \in Configs : \A p \in PluginsOfConfig(c) :
            \/ loops[p] = starts[c]
            \/ /\ pc = "start" /\ Current = c
               /\ \E e \in entriesLeft : p \in PluginsOf[e]
               /\ loops[p] = starts[c] - 1

\* Two plugins of one configuration that share an id never run together.
NoDuplicateIdsInAConfig ==
    \A c \in Configs : \A p, q \in PluginsOfConfig(c) :
        (p # q /\ id[p] = id[q]) => loops[p] = 0 /\ loops[q] = 0

\* Unless the process exits, every port is served in the end.
EveryPortIsServed == <>(pc = "exit" \/ (pc = "wait" /\ listening = Ports))

\* routes.go: which plugins have been started is kept track of "to prevent double
\* OnStart()"; a second OnStart leaves a second loop behind.
NoDoubleOnStart == \A p \in Plugins : loops[p] <= 1
=============================================================================
