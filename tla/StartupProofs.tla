---------------------------- MODULE StartupProofs ---------------------------
(***************************************************************************)
(* What Startup guarantees for any number of ports, configurations and     *)
(* plugins: a port listens only when the plugins behind it have loops, a   *)
(* call of PluginsStart begins one loop per plugin, and plugins of a       *)
(* configuration that share an id never run.                               *)
(***************************************************************************)
EXTENDS Startup, TLAPS

-----------------------------------------------------------------------------
(* The inductive invariant.                                                *)

Results == 1..Len(mountResults)

\* The results are the configurations of the ports main has come to, once each,
\* without those of the current port that are still to mount.
MountInv ==
    /\ pc \in {"mount", "validate", "start"} => port \in Ports \ portsLeft
    /\ pc \in {"port", "validate", "start", "wait"} => configsLeft = {}
    /\ \A c \in configsLeft : PortOf[c] = port /\ port \in Ports \ portsLeft
    /\ \A i \in Results :
        mountResults[i] \notin configsLeft /\ PortOf[mountResults[i]] \notin portsLeft
    /\ \A i, j \in Results : mountResults[i] = mountResults[j] => i = j
    /\ \A c \in Configs :
        PortOf[c] \notin portsLeft /\ c \notin configsLeft => \E i \in Results : mountResults[i] = c

\* Main is at a result whose ids are distinct; what it has come to in it is started.
StartInv ==
    pc = "start" =>
        /\ next \in Results
        /\ ~DuplicateIds(Current)
        /\ entriesLeft \subseteq EntriesOf(Current)
        /\ startedPlugins \subseteq PluginsOfConfig(Current)
        /\ \A e \in EntriesOf(Current) \ entriesLeft : PluginsOf[e] \subseteq startedPlugins

\* Main has come to the plugin since the current port was mounted.
ComeTo(p) ==
    \/ \E i \in Results : i < next /\ p \in PluginsOfConfig(mountResults[i])
    \/ pc = "start" /\ p \in startedPlugins

\* A plugin main has come to has a loop.
LoopInv ==
    pc \in {"validate", "start"} => \A p \in Plugins : ComeTo(p) => loops[p] > 0

\* The call that is under way has not started plugin p of configuration c yet.
ToStart(c, p) == pc = "start" /\ Current = c /\ p \notin startedPlugins

\* Every call of PluginsStart for a configuration has given each plugin one loop.
CountInv ==
    pc # "exit" =>
        \A c \in Configs : \A p \in PluginsOfConfig(c) :
            loops[p] = starts[c] - IF ToStart(c, p) THEN 1 ELSE 0

ListenInv ==
    /\ pc = "exit" => listening = {}
    /\ listening \cap portsLeft = {}
    /\ pc \in {"mount", "validate", "start"} => port \notin listening

IInv ==
    /\ TypeOK
    /\ MountInv
    /\ StartInv
    /\ LoopInv
    /\ CountInv
    /\ ListenInv
    /\ ListeningPortsHaveLoops
    /\ NoDuplicateIdsInAConfig
-----------------------------------------------------------------------------
(* Lemmas.                                                                 *)

\* A plugin belongs to one configuration.
LEMMA OneConfigPerPlugin ==
    ASSUME NEW c \in Configs, NEW d \in Configs,
           NEW p \in PluginsOfConfig(c), p \in PluginsOfConfig(d)
    PROVE  c = d
BY ConstantsAssumption DEF PluginsOfConfig, EntriesOf

LEMMA PluginsAreTyped ==
    ASSUME NEW c \in Configs
    PROVE  PluginsOfConfig(c) \subseteq Plugins
BY ConstantsAssumption DEF PluginsOfConfig, EntriesOf

LEMMA ResultsAreConfigs ==
    ASSUME TypeOK
    PROVE  /\ Len(mountResults) \in Nat
           /\ \A i \in Results : mountResults[i] \in Configs
BY DEF TypeOK, Results

\* Appending keeps the results there are and adds one.
LEMMA OneResultMore ==
    ASSUME TypeOK, NEW c \in Configs, mountResults' = Append(mountResults, c)
    PROVE  /\ mountResults' \in Seq(Configs)
           /\ Len(mountResults)' = Len(mountResults) + 1
           /\ Results' = Results \cup {Len(mountResults) + 1}
           /\ \A i \in Results : mountResults'[i] = mountResults[i]
           /\ mountResults'[Len(mountResults) + 1] = c
<1>1. mountResults \in Seq(Configs)
  BY DEF TypeOK
<1> QED BY <1>1 DEF Results

\* The configurations of a port main has mounted have all become results.
LEMMA MountedAll ==
    ASSUME TypeOK, MountInv, pc = "validate", NEW c \in Configs, PortOf[c] = port
    PROVE  \E i \in Results : mountResults[i] = c
BY DEF MountInv

-----------------------------------------------------------------------------
LEMMA InitInv == Init => IInv
<1> SUFFICES ASSUME Init PROVE IInv
  OBVIOUS
<1>1. Len(mountResults) = 0 /\ Results = {}
  BY DEF Init, Results
<1>2. TypeOK
  BY DEF Init, TypeOK
<1>3. CountInv
  BY PluginsAreTyped DEF Init, CountInv, ToStart
<1>4. MountInv
  BY <1>1, ConstantsAssumption DEF Init, MountInv
<1>5. StartInv /\ LoopInv /\ ListenInv
  BY DEF Init, StartInv, LoopInv, ListenInv
<1>6. ListeningPortsHaveLoops
  BY DEF Init, ListeningPortsHaveLoops
<1>7. NoDuplicateIdsInAConfig
  BY PluginsAreTyped DEF Init, NoDuplicateIdsInAConfig
<1> QED BY <1>2, <1>3, <1>4, <1>5, <1>6, <1>7 DEF IInv

LEMMA TypeStep == TypeOK /\ MountInv /\ StartInv /\ [Next]_vars => TypeOK'
<1> SUFFICES ASSUME TypeOK, MountInv, StartInv, [Next]_vars PROVE TypeOK'
  OBVIOUS
<1> USE DEF TypeOK
<1>1. ASSUME NEW q \in Ports, NextPort(q) PROVE TypeOK'
  BY <1>1 DEF NextPort, ConfigsOfPort
<1>2. ASSUME NEW c \in Configs, Mount(c) PROVE TypeOK'
  BY <1>2 DEF Mount
<1>3. ASSUME NEW c \in Configs, MountFails(c) PROVE TypeOK'
  BY <1>3 DEF MountFails, Fatal
<1>4. CASE Mounted
  BY <1>4 DEF Mounted
<1>5. CASE Validate
  BY <1>5, ResultsAreConfigs DEF Validate, EntriesOf, Results, Current
<1>6. CASE ValidateFails
  BY <1>6 DEF ValidateFails, Fatal
<1>7. ASSUME NEW e \in Entries, StartEntry(e) PROVE TypeOK'
  BY <1>7, ConstantsAssumption DEF StartEntry
<1>8. CASE Started
  BY <1>8 DEF Started, StartInv, Results
<1>9. CASE Listen
  BY <1>9 DEF Listen, MountInv
<1>10. CASE Wait
  BY <1>10 DEF Wait
<1>11. ASSUME NEW q \in Ports, ServerFails(q) PROVE TypeOK'
  BY <1>11 DEF ServerFails, Fatal
<1>12. CASE UNCHANGED vars
  BY <1>12 DEF vars
<1> QED BY <1>1, <1>2, <1>3, <1>4, <1>5, <1>6, <1>7, <1>8, <1>9, <1>10, <1>11,
           <1>12 DEF Next, Main

\* Main's bookkeeping of ports, configurations and results.
LEMMA MountStep == TypeOK /\ MountInv /\ [Next]_vars => MountInv'
<1> SUFFICES ASSUME TypeOK, MountInv, [Next]_vars PROVE MountInv'
  OBVIOUS
<1>1. ASSUME NEW q \in Ports, NextPort(q) PROVE MountInv'
  <2>1. /\ q \in portsLeft /\ portsLeft' = portsLeft \ {q} /\ port' = q /\ pc' = "mount"
        /\ configsLeft' = {c \in Configs : PortOf[c] = q} /\ configsLeft = {}
        /\ mountResults' = mountResults /\ Results' = Results
    BY <1>1 DEF NextPort, ConfigsOfPort, MountInv, Results
  <2> QED BY <2>1 DEF MountInv
<1>2. ASSUME NEW c \in Configs, Mount(c) PROVE MountInv'
  <2>1. /\ Results' = Results \cup {Len(mountResults) + 1}
        /\ \A i \in Results : mountResults'[i] = mountResults[i]
        /\ mountResults'[Len(mountResults) + 1] = c
    BY <1>2, OneResultMore DEF Mount
  <2>2. c \in configsLeft /\ configsLeft' = configsLeft \ {c} /\ PortOf[c] = port
    BY <1>2 DEF Mount, MountInv
  <2>3. port' = port /\ portsLeft' = portsLeft /\ pc' = "mount" /\ pc = "mount"
    BY <1>2 DEF Mount
  <2>4. \A i \in Results : mountResults[i] # c
    BY <2>2 DEF MountInv
  <2>5. \A i \in Results' :
          mountResults'[i] \notin configsLeft' /\ PortOf[mountResults'[i]] \notin portsLeft'
    BY <2>1, <2>2, <2>3 DEF MountInv
  <2>6. \A i, j \in Results' : mountResults'[i] = mountResults'[j] => i = j
    BY <2>1, <2>4 DEF MountInv
  <2>7. \A d \in Configs : PortOf[d] \notin portsLeft' /\ d \notin configsLeft'
                => \E i \in Results' : mountResults'[i] = d
    BY <2>1, <2>2, <2>3 DEF MountInv
  <2> QED BY <2>2, <2>3, <2>5, <2>6, <2>7 DEF MountInv
<1>3. ASSUME NEW c \in Configs, MountFails(c) PROVE MountInv'
  BY <1>3 DEF MountFails, Fatal, MountInv, Results
<1>4. CASE Mounted
  BY <1>4 DEF Mounted, MountInv, Results
<1>5. CASE Validate
  BY <1>5 DEF Validate, MountInv, Results
<1>6. CASE ValidateFails
  BY <1>6 DEF ValidateFails, MountInv, Results
<1>7. ASSUME NEW e \in Entries, StartEntry(e) PROVE MountInv'
  BY <1>7 DEF StartEntry, MountInv, Results
<1>8. CASE Started
  BY <1>8 DEF Started, MountInv, Results
<1>9. CASE Listen
  BY <1>9 DEF Listen, MountInv, Results
<1>10. CASE Wait
  BY <1>10 DEF Wait, MountInv, Results
<1>11. ASSUME NEW q \in Ports, ServerFails(q) PROVE MountInv'
  BY <1>11 DEF ServerFails, Fatal, MountInv, Results
<1>12. CASE UNCHANGED vars
  BY <1>12 DEF vars, MountInv, Results
<1> QED BY <1>1, <1>2, <1>3, <1>4, <1>5, <1>6, <1>7, <1>8, <1>9, <1>10, <1>11,
           <1>12 DEF Next, Main

\* What PluginsStart has come to.
LEMMA StartStep == TypeOK /\ StartInv /\ [Next]_vars => StartInv'
<1> SUFFICES ASSUME TypeOK, StartInv, [Next]_vars PROVE StartInv'
  OBVIOUS
<1>1. CASE Validate
  BY <1>1 DEF Validate, StartInv, Results, Current, DuplicateIds, TypeOK
<1>2. ASSUME NEW e \in Entries, StartEntry(e) PROVE StartInv'
  <2>1. /\ pc = "start" /\ pc' = "start" /\ e \in entriesLeft
        /\ entriesLeft' = entriesLeft \ {e}
        /\ startedPlugins' = startedPlugins \cup PluginsOf[e]
        /\ UNCHANGED <<id, mountResults, next>>
    BY <1>2 DEF StartEntry
  <2>2. Results' = Results /\ Current' = Current /\ DuplicateIds(Current)' = DuplicateIds(Current)
    BY <2>1 DEF Results, Current, DuplicateIds
  <2>3. e \in EntriesOf(Current)
    BY <2>1 DEF StartInv
  <2>4. PluginsOf[e] \subseteq PluginsOfConfig(Current)
    BY <2>3 DEF PluginsOfConfig
  <2> QED BY <2>1, <2>2, <2>4 DEF StartInv
<1>3. CASE UNCHANGED vars
  BY <1>3 DEF vars, StartInv, Results, Current, DuplicateIds
<1>4. CASE pc' # "start"
  BY <1>4 DEF StartInv
<1>5. ASSUME ~Validate, ~(\E e \in Entries : StartEntry(e)), Next PROVE pc' # "start"
  BY <1>5 DEF Next, Main, NextPort, Mount, MountFails, Fatal, Mounted,
     ValidateFails, Started, Listen, Wait, ServerFails
<1> QED BY <1>1, <1>2, <1>3, <1>4, <1>5

\* Main comes to nothing but by starting an entry or going on to the next result.
LEMMA SameComeTo ==
    ASSUME UNCHANGED <<pc, mountResults, next, startedPlugins>>
    PROVE  \A p : ComeTo(p)' = ComeTo(p)
BY DEF ComeTo, Results

\* Main goes round the results once per port.
LEMMA LoopStep ==
    TypeOK /\ StartInv /\ LoopInv /\ [Next]_vars => LoopInv'
<1> SUFFICES ASSUME TypeOK, StartInv, LoopInv, [Next]_vars PROVE LoopInv'
  OBVIOUS
<1>1. \A p \in Plugins : loops[p] \in Nat
  BY DEF TypeOK
<1>2. CASE pc' \notin {"validate", "start"}
  BY <1>2 DEF LoopInv
<1>3. CASE Mounted
  <2>1. \A p : ~ComeTo(p)'
    BY <1>3 DEF Mounted, ComeTo, Results
  <2> QED BY <2>1 DEF LoopInv
<1>4. CASE Validate
  <2>1. \A p : ComeTo(p)' => ComeTo(p)
    BY <1>4 DEF Validate, ComeTo, Results
  <2> QED BY <1>4, <2>1 DEF LoopInv, Validate
<1>5. ASSUME NEW e \in Entries, StartEntry(e) PROVE LoopInv'
  <2>1. /\ pc = "start" /\ startedPlugins' = startedPlugins \cup PluginsOf[e]
        /\ next' = next /\ mountResults' = mountResults
    BY <1>5 DEF StartEntry
  <2>2. \A p \in Plugins :
            loops'[p] = IF p \in PluginsOf[e] \ startedPlugins THEN loops[p] + 1 ELSE loops[p]
    BY <1>5, <1>1 DEF StartEntry
  <2>3. \A p \in Plugins : ComeTo(p)' => ComeTo(p) \/ p \in PluginsOf[e] \ startedPlugins
    BY <2>1 DEF ComeTo, Results
  <2> QED BY <1>1, <2>1, <2>2, <2>3 DEF LoopInv
<1>6. CASE Started
  <2>1. /\ pc = "start" /\ pc' = "validate" /\ next' = next + 1 /\ entriesLeft = {}
        /\ UNCHANGED <<loops, mountResults>>
    BY <1>6 DEF Started
  <2>2. next \in Results /\ startedPlugins = PluginsOfConfig(Current)
    BY <2>1 DEF StartInv, PluginsOfConfig
  <2>3. Results' = Results /\ \A c : PluginsOfConfig(c)' = PluginsOfConfig(c)
    BY <2>1 DEF Results
  <2>4. \A i \in Results : i < next' <=> i < next \/ i = next
    BY <2>1, <2>2 DEF Results
  <2>5. \A p \in Plugins : ComeTo(p)' => ComeTo(p)
    BY <2>1, <2>2, <2>3, <2>4 DEF ComeTo, Current
  <2> QED BY <2>1, <2>5 DEF LoopInv
<1>7. CASE UNCHANGED vars
  <2>1. UNCHANGED <<loops, pc>> /\ \A p : ComeTo(p)' = ComeTo(p)
    BY <1>7, SameComeTo DEF vars
  <2> QED BY <2>1 DEF LoopInv
<1>8. ASSUME Next, ~Mounted, ~Validate, ~(\E e \in Entries : StartEntry(e)), ~Started
      PROVE  pc' \notin {"validate", "start"}
  BY <1>8 DEF Next, Main, NextPort, Mount, MountFails, ValidateFails, Listen, Wait,
     ServerFails, Fatal
<1> QED BY <1>2, <1>3, <1>4, <1>5, <1>6, <1>7, <1>8

\* A call of PluginsStart gives each plugin of its configuration one loop, and those
\* of the others none.
LEMMA CountStep ==
    TypeOK /\ StartInv /\ CountInv /\ [Next]_vars => CountInv'
<1> SUFFICES ASSUME TypeOK, StartInv, CountInv, [Next]_vars PROVE CountInv'
  OBVIOUS
<1>1. /\ \A c \in Configs : PluginsOfConfig(c) \subseteq Plugins /\ starts[c] \in Nat
      /\ \A p \in Plugins : loops[p] \in Nat
      /\ \A c : PluginsOfConfig(c)' = PluginsOfConfig(c)
  BY PluginsAreTyped DEF TypeOK, PluginsOfConfig
<1>2. CASE pc' = "exit"
  BY <1>2 DEF CountInv
<1>3. CASE /\ UNCHANGED <<loops, starts>> /\ pc # "exit"
           /\ \A c \in Configs : \A p \in PluginsOfConfig(c) : ToStart(c, p)' = ToStart(c, p)
  BY <1>3, <1>1 DEF CountInv
<1>4. CASE Validate
  <2>1. /\ pc = "validate" /\ pc' = "start" /\ loops' = loops /\ startedPlugins' = {}
        /\ Current' = Current
    BY <1>4 DEF Validate, Current
  <2>2. Current \in Configs
    BY <1>4, ResultsAreConfigs DEF Validate, Results, Current, TypeOK
  <2>3. \A c \in Configs : starts'[c] = starts[c] + IF c = Current THEN 1 ELSE 0
    BY <1>1, <1>4 DEF Validate, TypeOK
  <2>4. \A c \in Configs : \A p \in PluginsOfConfig(c) :
            ~ToStart(c, p) /\ (ToStart(c, p)' <=> c = Current)
    BY <2>1 DEF ToStart
  <2> QED BY <1>1, <2>1, <2>3, <2>4 DEF CountInv
<1>5. ASSUME NEW e \in Entries, StartEntry(e) PROVE CountInv'
  <2>1. /\ pc = "start" /\ pc' = "start" /\ e \in entriesLeft
        /\ startedPlugins' = startedPlugins \cup PluginsOf[e]
        /\ Current' = Current /\ starts' = starts
    BY <1>5 DEF StartEntry, Current
  <2>2. \A p \in Plugins :
            loops'[p] = loops[p] + IF p \in PluginsOf[e] \ startedPlugins THEN 1 ELSE 0
    BY <1>5 DEF StartEntry
  <2>3. Current \in Configs /\ PluginsOf[e] \subseteq PluginsOfConfig(Current)
    BY <2>1, ResultsAreConfigs DEF StartInv, Current, PluginsOfConfig
  <2>4. ASSUME NEW c \in Configs, NEW p \in PluginsOfConfig(c)
        PROVE  loops'[p] = starts'[c] - IF ToStart(c, p)' THEN 1 ELSE 0
    <3>1. loops[p] = starts[c] - IF ToStart(c, p) THEN 1 ELSE 0
      BY <2>1 DEF CountInv
    <3>2. CASE p \in PluginsOf[e] \ startedPlugins
      <4>1. c = Current
        BY <2>3, <2>4, <3>2, OneConfigPerPlugin
      <4>2. ToStart(c, p) /\ ~ToStart(c, p)'
        BY <2>1, <3>2, <4>1 DEF ToStart
      <4> QED BY <1>1, <2>1, <2>2, <2>4, <3>1, <3>2, <4>2
    <3>3. CASE p \notin PluginsOf[e] \ startedPlugins
      <4>1. ToStart(c, p)' = ToStart(c, p)
        BY <2>1, <3>3 DEF ToStart
      <4> QED BY <1>1, <2>1, <2>2, <2>4, <3>1, <3>3, <4>1
    <3> QED BY <3>2, <3>3
  <2> QED BY <1>1, <2>1, <2>4 DEF CountInv
<1>6. CASE Started
  <2>1. pc = "start" /\ pc' = "validate" /\ entriesLeft = {} /\ UNCHANGED <<loops, starts>>
    BY <1>6 DEF Started
  <2>2. startedPlugins = PluginsOfConfig(Current)
    BY <2>1 DEF StartInv, PluginsOfConfig
  <2>3. \A c \in Configs : \A p \in PluginsOfConfig(c) : ~ToStart(c, p) /\ ~ToStart(c, p)'
    BY <2>1, <2>2 DEF ToStart
  <2> QED BY <1>1, <2>1, <2>3 DEF CountInv
<1>7. CASE UNCHANGED vars
  <2>1. /\ UNCHANGED <<loops, starts, pc>>
        /\ \A c, p : ToStart(c, p)' = ToStart(c, p)
    BY <1>7 DEF vars, ToStart, Current
  <2> QED BY <1>2, <1>3, <2>1
<1>8. ASSUME Next, pc' # "exit", ~Validate, ~(\E e \in Entries : StartEntry(e)), ~Started
      PROVE  CountInv'
  <2>1. /\ UNCHANGED <<loops, starts>>
        /\ pc \notin {"start", "exit"} /\ pc' # "start"
    BY <1>8 DEF Next, Main, NextPort, Mount, Mounted, MountFails, ValidateFails, Listen, Wait,
       ServerFails, Fatal
  <2>2. \A c, p : ~ToStart(c, p) /\ ~ToStart(c, p)'
    BY <2>1 DEF ToStart
  <2> QED BY <1>1, <2>1, <2>2 DEF CountInv
<1> QED BY <1>2, <1>4, <1>5, <1>6, <1>7, <1>8

\* Whose server runs.
LEMMA ListenStep == TypeOK /\ MountInv /\ ListenInv /\ [Next]_vars => ListenInv'
BY DEF MountInv, ListenInv, Next, Main, NextPort, Mount, MountFails, Mounted,
   Validate, ValidateFails, StartEntry, Started, Listen, Wait, ServerFails, Fatal,
   vars

\* The loops behind the port that begins to listen.
LEMMA ListeningStep ==
    IInv /\ [Next]_vars => ListeningPortsHaveLoops'
<1> SUFFICES ASSUME IInv, [Next]_vars PROVE ListeningPortsHaveLoops'
  OBVIOUS
<1> USE DEF IInv
<1>b. \A p \in Plugins : loops[p] \in Nat
  BY DEF TypeOK
<1>1. CASE listening' = {}
  BY <1>1 DEF ListeningPortsHaveLoops
<1>2. CASE listening' = listening /\ \A p \in Plugins : (loops[p] > 0 => loops'[p] > 0)
  BY <1>2, PluginsAreTyped DEF ListeningPortsHaveLoops
<1>3. CASE Listen
  <2>1. /\ pc = "validate" /\ next = Len(mountResults) + 1
        /\ listening' = listening \cup {port} /\ loops' = loops
    BY <1>3 DEF Listen, TypeOK
  <2>2. ASSUME NEW c \in Configs, PortOf[c] = port, NEW p \in PluginsOfConfig(c)
        PROVE  loops[p] > 0
    <3>1. PICK i \in Results : mountResults[i] = c
      BY <2>1, <2>2, MountedAll
    <3>2. i < next
      BY <2>1 DEF Results
    <3>3. p \in Plugins /\ ComeTo(p)
      BY <3>1, <3>2, PluginsAreTyped DEF ComeTo
    <3> QED BY <3>3, <2>1 DEF LoopInv
  <2> QED BY <2>1, <2>2 DEF ListeningPortsHaveLoops
<1>4. ASSUME NEW e \in Entries, StartEntry(e)
      PROVE  listening' = listening /\ \A p \in Plugins : (loops[p] > 0 => loops'[p] > 0)
  BY <1>4, <1>b DEF StartEntry
<1>5. CASE UNCHANGED <<listening, loops>>
  BY <1>5, <1>2
<1> QED
  BY <1>1, <1>2, <1>3, <1>4 DEF Next, Main, NextPort, Mount, MountFails,
     Mounted, Validate, ValidateFails, Started, Wait, ServerFails, Fatal, vars

\* Loops are begun for a configuration whose ids are distinct.
LEMMA DuplicatesStep ==
    IInv /\ [Next]_vars => NoDuplicateIdsInAConfig'
<1> SUFFICES ASSUME IInv, [Next]_vars PROVE NoDuplicateIdsInAConfig'
  OBVIOUS
<1> USE DEF IInv
<1>a. id' = id /\ \A c : PluginsOfConfig(c)' = PluginsOfConfig(c)
  BY DEF Next, Main, NextPort, Mount, MountFails, Mounted, Validate,
     ValidateFails, StartEntry, Started, Listen, Wait, ServerFails, vars
<1>1. CASE Fatal
  BY <1>1, PluginsAreTyped DEF Fatal, NoDuplicateIdsInAConfig
<1>2. CASE loops' = loops
  BY <1>2, <1>a DEF NoDuplicateIdsInAConfig
<1>3. ASSUME NEW e \in Entries, StartEntry(e) PROVE NoDuplicateIdsInAConfig'
  <2>1. /\ next \in Results /\ Current \in Configs
        /\ e \in EntriesOf(Current) /\ ~DuplicateIds(Current)
    BY <1>3, ResultsAreConfigs DEF StartEntry, StartInv, Current
  <2>2. ASSUME NEW c \in Configs, NEW p \in PluginsOfConfig(c), NEW q \in PluginsOfConfig(c),
               p # q, id[p] = id[q]
        PROVE  p \notin PluginsOf[e]
    <3>1. SUFFICES ASSUME p \in PluginsOf[e] PROVE FALSE
      OBVIOUS
    <3>2. p \in PluginsOfConfig(Current)
      BY <3>1, <2>1 DEF PluginsOfConfig
    <3>3. c = Current
      BY <3>2, <2>1, OneConfigPerPlugin
    <3> QED BY <3>3, <2>1, <2>2 DEF DuplicateIds
  <2>3. \A p \in Plugins : p \notin PluginsOf[e] /\ loops[p] = 0 => loops'[p] = 0
    BY <1>3 DEF StartEntry
  <2> QED BY <2>2, <2>3, <1>a, PluginsAreTyped DEF NoDuplicateIdsInAConfig
<1> QED
  BY <1>1, <1>2, <1>3 DEF Next, Main, NextPort, Mount, MountFails, Mounted,
     Validate, ValidateFails, Started, Listen, Wait, ServerFails, vars

-----------------------------------------------------------------------------
(* Theorems.                                                               *)

\* The inductive invariant holds in every reachable state.
THEOREM Invariance == Spec => []IInv
<1>1. IInv /\ [Next]_vars => IInv'
  BY TypeStep, MountStep, StartStep, LoopStep, CountStep, ListenStep, ListeningStep,
     DuplicatesStep DEF IInv
<1> QED BY InitInv, <1>1, PTL DEF Spec

\* Every variable of a process that comes up keeps its type; main never asks for a
\* result that is not there.
THEOREM TypeCorrect == Spec => []TypeOK
<1>1. IInv => TypeOK
  BY DEF IInv
<1> QED BY <1>1, Invariance, PTL

\* No port accepts a request before the plugins behind it have their loops, however
\* many ports and configurations there are and however their maps are walked.
THEOREM PortsListenAfterLoops == Spec => []ListeningPortsHaveLoops
<1>1. IInv => ListeningPortsHaveLoops
  BY DEF IInv
<1> QED BY <1>1, Invariance, PTL

\* Every call of PluginsStart begins one loop of each plugin of its configuration,
\* whatever methods and entries stand before it, and nothing else begins one.
THEOREM OneLoopPerCall == Spec => []OneLoopPerPluginsStart
<1>1. IInv => OneLoopPerPluginsStart
  <2> SUFFICES ASSUME TypeOK, StartInv, CountInv, pc # "exit",
                      NEW c \in Configs, NEW p \in PluginsOfConfig(c), ToStart(c, p)
               PROVE  \E e \in entriesLeft : p \in PluginsOf[e]
    BY PluginsAreTyped DEF IInv, TypeOK, CountInv, ToStart, OneLoopPerPluginsStart
  <2>1. PICK e \in EntriesOf(Current) : p \in PluginsOf[e]
    BY DEF ToStart, PluginsOfConfig
  <2> QED BY <2>1 DEF ToStart, StartInv
<1> QED BY <1>1, Invariance, PTL

\* No two plugins of a configuration with one id ever have a loop.
THEOREM DuplicatesNeverRun == Spec => []NoDuplicateIdsInAConfig
<1>1. IInv => NoDuplicateIdsInAConfig
  BY DEF IInv
<1> QED BY <1>1, Invariance, PTL
=============================================================================
