---------------------------- MODULE Configuration ----------------------------
(***************************************************************************)
(* How the listeners get their configuration, from the files to the        *)
(* compiled listener: the defaults of a file merged below those of each    *)
(* configuration (main), those below each listener and below its error     *)
(* handler (compileListener), the storages and databases opened on the     *)
(* way. One goroutine, but the order of its maps is not fixed.             *)
(*                                                                         *)
(* mergo.Merge copies what a struct holds but keeps the pointers: the      *)
(* merged configuration points to the storage, the database and the error  *)
(* handler of the defaults, and what is merged on top of them is written   *)
(* there. The structs behind pointers are therefore variables here.        *)
(***************************************************************************)
EXTENDS Naturals, Sequences, SequencesExt

CONSTANTS
    None,
    Configs,    \* the configurations, each on a port of its own
    Listeners,
    File,       \* the file of --defaults
    ConfigOf,   \* the configuration that has the listener
    Texts,      \* what a field of a storage or a database may hold
    Worlds      \* what the files may say

Owners == {File} \cup Configs \cup Listeners
Kinds == {"storage", "database"}
Fields == {"address", "rest"}
Plain == {"command", "auth", "plugins", "log"}

(* A world says what each owner gives, for itself (FALSE) and for its error
   handler (TRUE): None or [plain, services], where services[kind] is None or a
   struct [address, rest]: Conn and Store, or the host and the name of a database.
   It also says which configurations have debug set. Plugins are given as a list
   of entries, each the set of the kinds of plugin it has.                  *)

VARIABLES
    world,
    pc,
    structs,    \* the storage and database structs, by the pointer to them
    handlers,   \* the structs of the error handlers, by their owner
    defaults,   \* Defaults of each configuration
    todo,       \* configurations that are not mounted yet
    config,     \* the configuration that is being mounted
    unmounted,  \* its listeners that are not compiled yet
    listener,   \* the listener that is being compiled
    frames,     \* the calls of compileListener, that of the error handler on top
    storagers,  \* storageCache of this MountRoutes
    databases,  \* databaseConnectionCache
    compiled

vars == <<world, pc, structs, handlers, defaults, todo, config, unmounted, listener, frames,
          storagers, databases, compiled>>

Pointers == Owners \X BOOLEAN \X Kinds

WorldsAssumption ==
    /\ ConfigOf \in [Listeners -> Configs]
    /\ File \notin Configs \cup Listeners /\ Configs \cap Listeners = {}
    /\ None \notin Owners \cup Pointers \cup [Fields -> Texts]
    /\ \A w \in Worlds : \A x \in Owners \X BOOLEAN : w.given[x] # None =>
            /\ DOMAIN w.given[x].plain = Plain
            /\ w.given[x].services \in [Kinds -> [Fields -> Texts] \cup {None}]
ASSUME WorldsAssumption

Nothing == [p \in Plain |-> None]

\* What a file says of o, as it is decoded: each struct has a pointer of its own.
Decoded(w, o, h) ==
    [plain |-> IF w.given[<<o, h>>] = None THEN Nothing ELSE w.given[<<o, h>>].plain,
     services |-> [k \in Kinds |->
        IF w.given[<<o, h>>] = None THEN None
        ELSE IF w.given[<<o, h>>].services[k] = None THEN None ELSE <<o, h, k>>],
     handler |-> IF h \/ w.given[<<o, TRUE>>] = None THEN None ELSE o]

Init ==
    /\ world \in Worlds
    /\ pc = "load"
    /\ structs = [p \in Pointers |->
            IF world.given[<<p[1], p[2]>>] = None THEN None
            ELSE world.given[<<p[1], p[2]>>].services[p[3]]]
    /\ handlers = [o \in Owners |-> Decoded(world, o, TRUE)]
    /\ defaults = [c \in Configs |-> Decoded(world, c, FALSE)]
    /\ todo = Configs
    /\ config = None
    /\ unmounted = {}
    /\ listener = None
    /\ frames = <<>>
    /\ storagers = {}
    /\ databases = {}
    /\ compiled = [l \in Listeners |-> None]
-----------------------------------------------------------------------------
(* MergeListenerConfig.                                                    *)

Over(top, below) == IF top = None THEN below ELSE top
OverPlain(top, below) == [p \in Plain |-> Over(top[p], below[p])]
OverStruct(top, below) ==
    IF top = None THEN below
    ELSE IF below = None THEN top
    ELSE [f \in Fields |-> Over(top[f], below[f])]

\* Values of the second replace those of the first; a pointer that the first has stays.
Merged(below, top) ==
    [plain |-> OverPlain(top.plain, below.plain),
     services |-> [k \in Kinds |-> Over(below.services[k], top.services[k])],
     handler |-> Over(below.handler, top.handler)]

\* Variant: only what the first lacks is written.
WrittenInto_Fills(s, below, top) ==
    [p \in Pointers |->
        IF \E k \in Kinds : p = below.services[k] /\ top.services[k] # None
        THEN OverStruct(s[p], s[top.services[p[3]]]) ELSE s[p]]

\* Where both have a struct, that of the second is written into that of the first.
WrittenInto(s, below, top) ==
    [p \in Pointers |->
        IF \E k \in Kinds : p = below.services[k] /\ top.services[k] # None
        THEN OverStruct(s[top.services[p[3]]], s[p]) ELSE s[p]]

\* Both have an error handler: the struct of the first is merged in place as well.
BothHandle(below, top) == below.handler # None /\ top.handler # None

Handlers(below, top) ==
    IF BothHandle(below, top)
    THEN [handlers EXCEPT ![below.handler] = Merged(@, handlers[top.handler])]
    ELSE handlers

Structs(below, top) ==
    WrittenInto(IF BothHandle(below, top)
                THEN WrittenInto(structs, handlers[below.handler], handlers[top.handler])
                ELSE structs,
                below, top)

\* The three together: what Merge leaves behind the pointers. The value is Merged.
Merge(below, top) == structs' = Structs(below, top) /\ handlers' = Handlers(below, top)
-----------------------------------------------------------------------------
(* Loading (MustLoadConfigs) and main's loop over the configurations.      *)

DebugDefaults ==
    [plain |-> [Nothing EXCEPT !["log"] = "all"],
     services |-> [k \in Kinds |-> None], handler |-> None]

\* Variant: the debug options replace what the defaults say.
LoadConfigs_DebugOnTop ==
    /\ pc = "load"
    /\ defaults' = [c \in Configs |->
            IF c \in world.debug THEN Merged(defaults[c], DebugDefaults) ELSE defaults[c]]
    /\ pc' = "ports"
    /\ UNCHANGED <<world, structs, handlers, todo, config, unmounted, listener, frames,
                   storagers, databases, compiled>>

\* With debug, everything is logged and returned unless the defaults say otherwise.
LoadConfigs ==
    /\ pc = "load"
    /\ defaults' = [c \in Configs |->
            IF c \in world.debug THEN Merged(DebugDefaults, defaults[c]) ELSE defaults[c]]
    /\ pc' = "ports"
    /\ UNCHANGED <<world, structs, handlers, todo, config, unmounted, listener, frames,
                   storagers, databases, compiled>>

\* The next configuration, in any order of the ports; MountRoutes begins.
BeginConfig(c) ==
    LET file == Decoded(world, File, FALSE)
    IN  /\ pc = "ports"
        /\ c \in todo
        /\ defaults' = [defaults EXCEPT ![c] = Merged(file, @)]
        /\ Merge(file, defaults[c])
        /\ todo' = todo \ {c}
        /\ config' = c
        /\ unmounted' = {l \in Listeners : ConfigOf[l] = c}
        /\ storagers' = {}
        /\ pc' = "mount"
        /\ UNCHANGED <<world, listener, frames, databases, compiled>>

EndConfig ==
    /\ pc = "mount"
    /\ unmounted = {}
    /\ pc' = IF todo = {} THEN "serving" ELSE "ports"
    /\ UNCHANGED <<world, structs, handlers, defaults, todo, config, unmounted, listener, frames,
                   storagers, databases, compiled>>
-----------------------------------------------------------------------------
(* compileListener.                                                        *)

\* uniquePlugins: the kinds a listener may have once, however its entries are cut.
UniqueKinds == {"awsSNS", "httpResponse"}
UniquePlugins(entries) ==
    \A i, j \in DOMAIN entries : i # j => entries[i] \cap entries[j] \cap UniqueKinds = {}

EntriesOf(c) == Over(c.plain["plugins"], <<>>)

\* A command is required, and of the services that are configured what they need.
Required == [k \in Kinds |-> IF k = "storage" THEN Fields ELSE {"rest"}]

IsValid(c) ==
    /\ c.plain["command"] # None
    /\ UniquePlugins(EntriesOf(c))
    /\ \A k \in Kinds :
            c.services[k] # None => \A f \in Required[k] : structs'[c.services[k]][f] # None

\* The compiled handler is a set of at most one: none is the nil of compileListener.
Frame(c) == [config |-> c, storage |-> None, handler |-> {}]
Top == Last(frames)
IsHandler == Len(frames) = 2

\* Variant: the error handler keeps the one of the defaults.
AsHandler_Keeps(c) == [c EXCEPT !.plain["auth"] = None]

\* An error handler needs neither authentication nor an error handler.
AsHandler(c) == [c EXCEPT !.plain["auth"] = None, !.handler = None]

\* The next listener, in any order of the routes; its merge and its validation.
BeginListener(l) ==
    LET merged == Merged(defaults[config], Decoded(world, l, FALSE))
    IN  /\ pc = "mount"
        /\ l \in unmounted
        /\ Merge(defaults[config], Decoded(world, l, FALSE))
        /\ unmounted' = unmounted \ {l}
        /\ listener' = l
        /\ frames' = <<Frame(merged)>>
        /\ pc' = IF IsValid(merged) THEN "handler" ELSE "fatal"
        /\ UNCHANGED <<world, defaults, todo, config, storagers, databases, compiled>>

\* Variant: the error handler is taken as it is.
BeginHandler_NoDefaults ==
    LET own == handlers[Top.config.handler]
    IN  /\ pc = "handler"
        /\ Top.config.handler # None
        /\ UNCHANGED <<structs, handlers>>
        /\ frames' = Append(frames, Frame(AsHandler(own)))
        /\ pc' = IF IsValid(own) THEN "storage" ELSE "fatal"
        /\ UNCHANGED <<world, defaults, todo, config, unmounted, listener, storagers, databases,
                       compiled>>

\* The error handler is compiled first, from the same defaults.
BeginHandler ==
    LET own == handlers[Top.config.handler]
        merged == Merged(defaults[config], own)
    IN  /\ pc = "handler"
        /\ Top.config.handler # None
        /\ Merge(defaults[config], own)
        /\ frames' = Append(frames, Frame(AsHandler(merged)))
        /\ pc' = IF IsValid(merged) THEN "storage" ELSE "fatal"
        /\ UNCHANGED <<world, defaults, todo, config, unmounted, listener, storagers, databases,
                       compiled>>

NoHandler ==
    /\ pc = "handler"
    /\ Top.config.handler = None
    /\ pc' = "storage"
    /\ UNCHANGED <<world, structs, handlers, defaults, todo, config, unmounted, listener, frames,
                   storagers, databases, compiled>>

Struct(k) == structs[Top.config.services[k]]

\* A storage of that connection is opened and tried, unless this MountRoutes has one.
OpenStorage ==
    /\ pc = "storage"
    /\ IF Top.config.services["storage"] = None
       THEN UNCHANGED <<frames, storagers>>
       ELSE /\ frames' = [frames EXCEPT ![Len(frames)].storage = Struct("storage").address]
            /\ storagers' = storagers \cup {Struct("storage").address}
    /\ pc' = "database"
    /\ UNCHANGED <<world, structs, handlers, defaults, todo, config, unmounted, listener,
                   databases, compiled>>

OpenStorageFails ==
    /\ pc = "storage"
    /\ Top.config.services["storage"] # None
    /\ Struct("storage").address \notin storagers
    /\ pc' = "fatal"
    /\ UNCHANGED <<world, structs, handlers, defaults, todo, config, unmounted, listener, frames,
                   storagers, databases, compiled>>

\* ToPluginList of every entry.
PluginsOf(c) == UNION {EntriesOf(c)[i] : i \in DOMAIN EntriesOf(c)}

\* Some plugin keeps its data in a database.
NeedsDb == "schedule" \in PluginsOf(Top.config)

\* What compileListener returns: a listener.
Result(database) ==
    [config |-> Top.config, storage |-> Top.storage, handler |-> Top.handler,
     database |-> database]

ReturnToListener(results) ==
    /\ frames' = <<[frames[1] EXCEPT !.handler = results]>>
    /\ pc' = "storage"
    /\ UNCHANGED compiled

Return(result) ==
    IF IsHandler
    THEN ReturnToListener({result})
    ELSE /\ compiled' = [compiled EXCEPT ![listener] = result]
         /\ frames' = <<>>
         /\ pc' = "mount"

NoDatabase ==
    /\ pc = "database"
    /\ ~NeedsDb
    /\ Return(Result(None))
    /\ UNCHANGED <<world, structs, handlers, defaults, todo, config, unmounted, listener,
                   storagers, databases>>

\* NewDB and ApplyMigrations: one connection for each database of the process.
OpenDatabase ==
    /\ pc = "database"
    /\ NeedsDb
    /\ Top.config.services["database"] # None
    /\ databases' = databases \cup {Struct("database")}
    /\ Return(Result(Struct("database")))
    /\ UNCHANGED <<world, structs, handlers, defaults, todo, config, unmounted, listener,
                   storagers>>

\* A connection or its migrations, which are tried for each listener, may fail.
OpenDatabaseFails ==
    /\ pc = "database"
    /\ NeedsDb
    /\ Top.config.services["database"] # None
    /\ pc' = "fatal"
    /\ UNCHANGED <<world, structs, handlers, defaults, todo, config, unmounted, listener, frames,
                   storagers, databases, compiled>>

\* The error for a missing database is built from a nil error and is nil, as is the
\* listener returned with it: MountRoutes panics, a listener goes without its handler.
DatabaseIsMissing ==
    /\ pc = "database"
    /\ NeedsDb
    /\ Top.config.services["database"] = None
    /\ IF IsHandler
       THEN ReturnToListener({})
       ELSE pc' = "panic" /\ UNCHANGED <<frames, compiled>>
    /\ UNCHANGED <<world, structs, handlers, defaults, todo, config, unmounted, listener,
                   storagers, databases>>

Next ==
    \/ LoadConfigs
    \/ \E c \in Configs : BeginConfig(c)
    \/ EndConfig
    \/ \E l \in Listeners : BeginListener(l)
    \/ BeginHandler
    \/ NoHandler
    \/ OpenStorage
    \/ OpenStorageFails
    \/ NoDatabase
    \/ OpenDatabase
    \/ OpenDatabaseFails
    \/ DatabaseIsMissing

Spec == Init /\ [][Next]_vars
-----------------------------------------------------------------------------
(* Properties.                                                             *)

IsListenerConfig(c) ==
    /\ DOMAIN c = {"plain", "services", "handler"}
    /\ DOMAIN c.plain = Plain
    /\ c.services \in [Kinds -> Pointers \cup {None}]
    /\ c.handler \in Owners \cup {None}

\* A pointer leads to a struct, a handler has none of its own, and the call of
\* compileListener for a handler is made by that for its listener.
TypeOK ==
    /\ pc \in {"load", "ports", "mount", "handler", "storage", "database", "serving", "fatal", "panic"}
    /\ \A o \in Owners : IsListenerConfig(handlers[o]) /\ handlers[o].handler = None
    /\ \A c \in Configs : IsListenerConfig(defaults[c])
    /\ todo \subseteq Configs /\ unmounted \subseteq Listeners
    /\ pc \in {"handler", "storage", "database"} => listener \in Listeners /\ Len(frames) \in 1..2
    /\ \A i \in DOMAIN frames :
        /\ IsListenerConfig(frames[i].config)
        /\ \A k \in Kinds : frames[i].config.services[k] # None =>
                structs[frames[i].config.services[k]] # None
    /\ Len(frames) = 2 => frames[1].config.handler # None /\ frames[2].config.handler = None

GivenPlain(o, p) == IF world.given[<<o, FALSE>>] = None THEN None ELSE world.given[<<o, FALSE>>].plain[p]
Given(o, h, k) == IF world.given[<<o, h>>] = None THEN None ELSE world.given[<<o, h>>].services[k]
DebugPlain(c, p) == IF c \in world.debug /\ p = "log" THEN "all" ELSE None

\* What is not behind a pointer is decided by the listener, else the defaults of its
\* configuration, else its debug flag, else the file of defaults, in whatever order
\* the listeners and the ports are taken and whatever is merged in between.
PlainFieldsByPrecedence ==
    \A l \in Listeners : compiled[l] # None => \A p \in Plain :
        compiled[l].config.plain[p] =
            Over(GivenPlain(l, p),
                 Over(GivenPlain(ConfigOf[l], p),
                      Over(DebugPlain(ConfigOf[l], p), GivenPlain(File, p))))

\* What the files say that a listener opens.
Expected(l, k) ==
    OverStruct(Given(l, FALSE, k),
               OverStruct(Given(ConfigOf[l], FALSE, k), Given(File, FALSE, k)))

\* What a compiled listener has opened of kind k in field f.
Opened(l, k, f) == IF k = "storage" THEN compiled[l].storage ELSE compiled[l].database[f]
HasOpened(l, k) == compiled[l] # None /\ compiled[l][k] # None
FieldsOf(k) == IF k = "storage" THEN {"address"} ELSE Fields

\* config.go: "Values defined in each listener will overwrite the default ones", which
\* are "valid for all listeners in this config". It is violated: one listener's, or
\* one error handler's, values become the defaults of the others.
OwnAndDefaultsDecide ==
    \A l \in Listeners, k \in Kinds : HasOpened(l, k) =>
        \A f \in FieldsOf(k) : Opened(l, k, f) = Expected(l, k)[f]

\* A listener opens what the files say for it, except that a value of somebody else
\* may come in through a struct of the defaults that both have: that of its
\* configuration or, for somebody of another configuration, that of the file or of
\* the file's error handler.
SurprisesComeFromSharedDefaults ==
    \A l \in Listeners, k \in Kinds : HasOpened(l, k) =>
        \A f \in FieldsOf(k) :
            \/ Expected(l, k) # None /\ Opened(l, k, f) = Expected(l, k)[f]
            \/ \E o \in Owners, h \in BOOLEAN :
                /\ h \/ o \notin {File, ConfigOf[l], l}
                /\ Given(o, h, k) # None
                /\ Opened(l, k, f) = Given(o, h, k)[f]
                /\ \/ Given(File, FALSE, k) # None
                   \/ /\ Given(ConfigOf[l], FALSE, k) # None
                      /\ \/ o \in {File, ConfigOf[l]}
                         \/ o \in Listeners /\ ConfigOf[o] = ConfigOf[l]
                         \/ h /\ world.given[<<File, TRUE>>] # None

\* A listener, or an error handler, whose plugins need a database has one.
Equipped(result) == "schedule" \in PluginsOf(result.config) => result.database # None

\* Neither l's error handler nor the defaults of anybody it has defaults from.
NobodyGives(l, k) ==
    \A o \in {File, ConfigOf[l], l}, h \in BOOLEAN : h \/ o # l => Given(o, h, k) = None

\* A listener or handler that keeps its data in a database has one. An error handler
\* that is configured is there, unless its plugins need a database and nobody gave one.
MissingOnlyWithoutDatabase ==
    \A l \in Listeners : compiled[l] # None =>
        /\ Equipped(compiled[l]) /\ \A r \in compiled[l].handler : Equipped(r)
        /\ compiled[l].config.handler # None /\ compiled[l].handler = {} =>
                NobodyGives(l, "database")
=============================================================================
