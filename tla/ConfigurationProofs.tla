------------------------- MODULE ConfigurationProofs -------------------------
(***************************************************************************)
(* What Configuration guarantees for any configurations, listeners and     *)
(* contents of the files: the precedence of what is not behind a pointer,  *)
(* and where a value that is behind one can have come from.                *)
(***************************************************************************)
EXTENDS Configuration, SequenceTheorems, TLAPS

-----------------------------------------------------------------------------
(* The inductive invariant: types.                                         *)

Compiling == {"handler", "storage", "database"}
Mounting == Compiling \cup {"mount"}
MaybeStructs == [Fields -> Texts] \cup {None}

Leads(c) == \A k \in Kinds : c.services[k] # None => structs[c.services[k]] # None

KindsFit(c) == \A k \in Kinds : c.services[k] # None => c.services[k][3] = k

\* A pointer leads to a struct and is for the kind it is filed under.
Sound(c) == IsListenerConfig(c) /\ Leads(c) /\ KindsFit(c)

IsFrame(f) ==
    /\ f = [config |-> f.config, storage |-> f.storage, handler |-> f.handler]
    /\ IsListenerConfig(f.config) /\ Leads(f.config)

DataInv ==
    /\ world \in Worlds
    /\ structs \in [Pointers -> MaybeStructs]
    /\ handlers = [o \in Owners |-> handlers[o]]
    /\ defaults = [c \in Configs |-> defaults[c]]
    /\ compiled = [l \in Listeners |-> compiled[l]]
    /\ \A o \in Owners : Sound(handlers[o]) /\ handlers[o].handler = None
    /\ \A c \in Configs : Sound(defaults[c])
    /\ \A o \in Owners, h \in BOOLEAN, k \in Kinds :
            Given(o, h, k) # None => structs[<<o, h, k>>] # None

PlaceInv ==
    /\ pc \in Mounting \cup {"load", "ports", "serving", "fatal", "panic"}
    /\ todo \subseteq Configs /\ unmounted \subseteq Listeners
    /\ pc = "load" => todo = Configs
    /\ pc \in Mounting =>
            /\ config \in Configs \ todo
            /\ \A l \in unmounted : ConfigOf[l] = config
    /\ pc \in Compiling =>
            /\ listener \in Listeners /\ ConfigOf[listener] = config
            /\ listener \notin unmounted

\* The call of compileListener for a handler is made by that for its listener, which
\* is the first.
FrameInv ==
    /\ frames = <<>> \/ frames = <<frames[1]>> \/ frames = <<frames[1], frames[2]>>
    /\ pc \in {"load", "ports", "mount", "serving"} => frames = <<>>
    /\ pc = "handler" => frames = <<frames[1]>>
    /\ pc \in Compiling => frames # <<>>
    /\ \A i \in DOMAIN frames : IsFrame(frames[i])
    /\ Len(frames) = 2 => frames[1].config.handler # None /\ frames[2].config.handler = None

TypeInv == DataInv /\ PlaceInv /\ FrameInv
-----------------------------------------------------------------------------
(* Lemmas on types.                                                        *)

LEMMA Distinct ==
    /\ None \notin Owners /\ None \notin Pointers /\ None \notin [Fields -> Texts]
    /\ File \in Owners /\ Configs \subseteq Owners /\ Listeners \subseteq Owners
    /\ ConfigOf \in [Listeners -> Configs]
BY WorldsAssumption DEF WorldsAssumption, Owners

LEMMA PointersAreTriples ==
    /\ \A o \in Owners, h \in BOOLEAN, k \in Kinds : <<o, h, k>> \in Pointers
    /\ \A p \in Pointers : p = <<p[1], p[2], p[3]>>
        /\ p[1] \in Owners /\ p[2] \in BOOLEAN /\ p[3] \in Kinds
BY DEF Pointers

LEMMA OverStructs ==
    ASSUME NEW a \in MaybeStructs, NEW b \in MaybeStructs
    PROVE  /\ OverStruct(a, b) \in MaybeStructs
           /\ a # None \/ b # None => OverStruct(a, b) # None
           /\ a # None /\ b # None => \A f \in Fields : OverStruct(a, b)[f] = Over(a[f], b[f])
BY Distinct DEF MaybeStructs, OverStruct, Over

LEMMA GivenTypes ==
    ASSUME world \in Worlds, NEW o \in Owners, NEW h \in BOOLEAN
    PROVE  /\ \A k \in Kinds : Given(o, h, k) \in MaybeStructs
           /\ world.given[<<o, h>>] # None => DOMAIN world.given[<<o, h>>].plain = Plain
<1>1. <<o, h>> \in Owners \X BOOLEAN
    OBVIOUS
<1>2. CASE world.given[<<o, h>>] = None
    BY <1>2 DEF Given, MaybeStructs
<1>3. CASE world.given[<<o, h>>] # None
    <2>1. /\ DOMAIN world.given[<<o, h>>].plain = Plain
          /\ world.given[<<o, h>>].services \in [Kinds -> MaybeStructs]
        BY <1>1, <1>3, WorldsAssumption DEF WorldsAssumption, MaybeStructs
    <2> QED BY <1>3, <2>1 DEF Given
<1> QED BY <1>2, <1>3

LEMMA DecodedTypes ==
    ASSUME world \in Worlds, NEW o \in Owners, NEW h \in BOOLEAN
    PROVE  LET d == Decoded(world, o, h)
           IN  /\ IsListenerConfig(d)
               /\ \A k \in Kinds :
                        d.services[k] = IF Given(o, h, k) = None THEN None ELSE <<o, h, k>>
               /\ d.handler = IF h \/ world.given[<<o, TRUE>>] = None THEN None ELSE o
               /\ \A p \in Plain : ~h => d.plain[p] = GivenPlain(o, p)
<1> DEFINE d == Decoded(world, o, h)
<1>1. \A k \in Kinds : d.services[k] = IF Given(o, h, k) = None THEN None ELSE <<o, h, k>>
    BY DEF Decoded, Given
<1>2. d.services \in [Kinds -> Pointers \cup {None}]
    BY <1>1, PointersAreTriples DEF Decoded
<1>3. DOMAIN d.plain = Plain /\ d.handler \in Owners \cup {None}
    BY GivenTypes DEF Decoded, Nothing
<1>4. DOMAIN d = {"plain", "services", "handler"}
    BY DEF Decoded
<1>5. d.handler = IF h \/ world.given[<<o, TRUE>>] = None THEN None ELSE o
    BY DEF Decoded
<1>6. \A p \in Plain : ~h => d.plain[p] = GivenPlain(o, p)
    BY DEF Decoded, GivenPlain, Nothing
<1> QED BY <1>1, <1>2, <1>3, <1>4, <1>5, <1>6 DEF IsListenerConfig

LEMMA MergedTypes ==
    ASSUME NEW below, NEW top, IsListenerConfig(below), IsListenerConfig(top)
    PROVE  IsListenerConfig(Merged(below, top))
<1>1. [k \in Kinds |-> Over(below.services[k], top.services[k])] \in [Kinds -> Pointers \cup {None}]
    BY DEF IsListenerConfig, Over
<1>2. Over(below.handler, top.handler) \in Owners \cup {None}
    BY DEF IsListenerConfig, Over
<1>3. DOMAIN OverPlain(top.plain, below.plain) = Plain
    BY DEF OverPlain
<1> QED BY <1>1, <1>2, <1>3 DEF Merged, IsListenerConfig

\* Two structs of one kind: the second is written into the first, nothing else changes.
LEMMA WrittenStructs ==
    ASSUME NEW s \in [Pointers -> MaybeStructs], NEW below, NEW top,
           IsListenerConfig(below), IsListenerConfig(top), KindsFit(below)
    PROVE  /\ WrittenInto(s, below, top) \in [Pointers -> MaybeStructs]
           /\ \A p \in Pointers : s[p] # None => WrittenInto(s, below, top)[p] # None
           /\ \A p \in Pointers :
                \/ WrittenInto(s, below, top)[p] = s[p]
                   /\ \A k \in Kinds : p = below.services[k] => top.services[k] = None
                \/ \E k \in Kinds :
                    /\ p = below.services[k] /\ top.services[k] \in Pointers
                    /\ WrittenInto(s, below, top)[p] = OverStruct(s[top.services[k]], s[p])
<1> DEFINE W == WrittenInto(s, below, top)
<1>1. ASSUME NEW p \in Pointers
      PROVE  \/ W[p] = s[p] /\ \A k \in Kinds : p = below.services[k] => top.services[k] = None
             \/ \E k \in Kinds :
                    /\ p = below.services[k] /\ top.services[k] \in Pointers
                    /\ W[p] = OverStruct(s[top.services[k]], s[p])
    <2>1. CASE \E k \in Kinds : p = below.services[k] /\ top.services[k] # None
        <3>1. PICK k \in Kinds : p = below.services[k] /\ top.services[k] # None
            BY <2>1
        <3>2. p[3] = k
            BY <3>1, Distinct DEF KindsFit
        <3>3. W[p] = OverStruct(s[top.services[p[3]]], s[p])
            BY <2>1 DEF WrittenInto
        <3> QED BY <3>1, <3>2, <3>3 DEF IsListenerConfig
    <2>2. CASE ~ \E k \in Kinds : p = below.services[k] /\ top.services[k] # None
        BY <2>2 DEF WrittenInto
    <2> QED BY <2>1, <2>2
<1>2. \A p \in Pointers : W[p] \in MaybeStructs /\ (s[p] # None => W[p] # None)
    BY <1>1, OverStructs
<1>3. W = [p \in Pointers |-> W[p]]
    BY DEF WrittenInto
<1>4. W \in [Pointers -> MaybeStructs]
    BY <1>2, <1>3
<1> QED BY <1>1, <1>2, <1>4

\* What a merge leaves behind the pointers, whoever is merged.
LEMMA MergeSound ==
    ASSUME DataInv, NEW below, NEW top, Sound(below), Sound(top),
           Merge(below, top), world' = world
    PROVE  /\ structs' \in [Pointers -> MaybeStructs]
           /\ \A p \in Pointers : structs[p] # None => structs'[p] # None
           /\ handlers' = [o \in Owners |-> handlers'[o]]
           /\ \A o \in Owners : Sound(handlers[o])' /\ handlers'[o].handler = None
           /\ Sound(Merged(below, top))'
<1>1. IsListenerConfig(below) /\ IsListenerConfig(top) /\ IsListenerConfig(Merged(below, top))
    BY MergedTypes DEF Sound
<1>2. BothHandle(below, top) => below.handler \in Owners /\ top.handler \in Owners
    BY <1>1 DEF BothHandle, IsListenerConfig
<1> DEFINE first == IF BothHandle(below, top)
                    THEN WrittenInto(structs, handlers[below.handler], handlers[top.handler])
                    ELSE structs
<1>3. /\ first \in [Pointers -> MaybeStructs]
      /\ \A p \in Pointers : structs[p] # None => first[p] # None
    <2>1. CASE BothHandle(below, top)
        <3> DEFINE a == handlers[below.handler]
                   b == handlers[top.handler]
        <3>1. /\ IsListenerConfig(a) /\ KindsFit(a) /\ IsListenerConfig(b)
            BY <1>2, <2>1 DEF DataInv, Sound
        <3>2. structs \in [Pointers -> MaybeStructs]
            BY DEF DataInv
        <3> HIDE DEF a, b
        <3>3. /\ WrittenInto(structs, a, b) \in [Pointers -> MaybeStructs]
              /\ \A p \in Pointers : structs[p] # None => WrittenInto(structs, a, b)[p] # None
            BY <3>1, <3>2, WrittenStructs
        <3> QED BY <2>1, <3>3 DEF a, b
    <2>2. CASE ~BothHandle(below, top)
        BY <2>2 DEF DataInv
    <2> QED BY <2>1, <2>2
<1>4. structs' = WrittenInto(first, below, top)
    BY DEF Merge, Structs
<1>5. /\ structs' \in [Pointers -> MaybeStructs]
      /\ \A p \in Pointers : first[p] # None => structs'[p] # None
    BY <1>3, <1>4, WrittenStructs DEF Sound
<1>6. \A p \in Pointers : structs[p] # None => structs'[p] # None
    BY <1>3, <1>5
<1>7. ASSUME NEW c, IsListenerConfig(c), Leads(c) PROVE Leads(c)'
    BY <1>6, <1>7 DEF Leads, IsListenerConfig
<1>8. ASSUME NEW a, NEW b, IsListenerConfig(a), IsListenerConfig(b), Leads(a), Leads(b)
      PROVE  Leads(Merged(a, b))
    BY <1>8 DEF Leads, Merged, Over
<1>9. ASSUME NEW a, NEW b, KindsFit(a), KindsFit(b)
      PROVE  KindsFit(Merged(a, b))
    BY <1>9 DEF KindsFit, Merged, Over
<1>10. ASSUME NEW o \in Owners PROVE Sound(handlers[o])' /\ handlers'[o].handler = None
    <2>1. CASE handlers'[o] = handlers[o]
        BY <1>7, <2>1 DEF DataInv, Sound
    <2>2. CASE handlers'[o] # handlers[o]
        <3>1. /\ BothHandle(below, top) /\ top.handler \in Owners
              /\ handlers'[o] = Merged(handlers[o], handlers[top.handler])
            BY <1>2, <2>2 DEF Merge, Handlers, DataInv
        <3>2. Sound(handlers[o]) /\ Sound(handlers[top.handler])
              /\ handlers[o].handler = None /\ handlers[top.handler].handler = None
            BY <3>1 DEF DataInv
        <3>3. /\ IsListenerConfig(handlers'[o]) /\ Leads(handlers'[o])
              /\ KindsFit(handlers'[o]) /\ handlers'[o].handler = None
            <4>1. IsListenerConfig(handlers'[o]) /\ Leads(handlers'[o])
                BY <1>8, <3>1, <3>2, MergedTypes DEF Sound
            <4>2. KindsFit(handlers'[o])
                BY <1>9, <3>1, <3>2 DEF Sound
            <4>3. handlers'[o].handler = None
                BY <3>1, <3>2 DEF Merged, Over
            <4> QED BY <4>1, <4>2, <4>3
        <3> QED BY <1>7, <3>3 DEF Sound
    <2> QED BY <2>1, <2>2
<1>11. handlers' = [o \in Owners |-> handlers'[o]]
    BY DEF Merge, Handlers, DataInv
<1>12. Sound(Merged(below, top))'
    <2>1. Leads(Merged(below, top)) /\ KindsFit(Merged(below, top))
        BY <1>1, <1>8, <1>9 DEF Sound
    <2> QED BY <1>1, <1>7, <2>1 DEF Sound
<1> QED BY <1>5, <1>6, <1>10, <1>11, <1>12

LEMMA AppendFrame ==
    ASSUME NEW f, NEW g
    PROVE  Append(<<f>>, g) = <<f, g>>
<1> DEFINE s == Append(<<f>>, g)
           t == <<f, g>>
<1>1. <<f>> \in Seq({f, g})
    OBVIOUS
<1>2. t \in Seq({f, g}) /\ Len(t) = 2 /\ t[1] = f /\ t[2] = g
    OBVIOUS
<1>3. s \in Seq({f, g}) /\ Len(s) = 2 /\ s[1] = f /\ s[2] = g
    BY <1>1, AppendProperties
<1>4. \A i \in 1..2 : i = 1 \/ i = 2
    OBVIOUS
<1> HIDE DEF s, t
<1>5. s = t
    BY <1>2, <1>3, <1>4, SeqEqual
<1> QED BY <1>5 DEF s, t

\* What a file says is sound before and after whatever was merged.
LEMMA DecodedSound ==
    ASSUME DataInv, NEW o \in Owners, NEW h \in BOOLEAN
    PROVE  Sound(Decoded(world, o, h))
<1> DEFINE d == Decoded(world, o, h)
<1>1. /\ IsListenerConfig(d)
      /\ \A k \in Kinds : d.services[k] = IF Given(o, h, k) = None THEN None ELSE <<o, h, k>>
    BY DecodedTypes DEF DataInv
<1> HIDE DEF d
<1>2. ASSUME NEW k \in Kinds, d.services[k] # None
      PROVE  structs[d.services[k]] # None /\ d.services[k][3] = k
    <2>1. d.services[k] = <<o, h, k>> /\ Given(o, h, k) # None
        BY <1>1, <1>2
    <2>2. structs[<<o, h, k>>] # None
        BY <2>1 DEF DataInv
    <2> QED BY <2>1, <2>2
<1> QED BY <1>1, <1>2 DEF Sound, Leads, KindsFit, d

LEMMA LeadsKept ==
    ASSUME \A p \in Pointers : structs[p] # None => structs'[p] # None,
           NEW c, IsListenerConfig(c), Leads(c)
    PROVE  Leads(c)'
BY DEF Leads, IsListenerConfig

LEMMA MergedSound ==
    ASSUME NEW a, NEW b, Sound(a), Sound(b)
    PROVE  Sound(Merged(a, b))
<1>1. IsListenerConfig(Merged(a, b))
    BY MergedTypes DEF Sound
<1>2. \A k \in Kinds : Merged(a, b).services[k] = Over(a.services[k], b.services[k])
    BY DEF Merged
<1> QED BY <1>1, <1>2 DEF Sound, Leads, KindsFit, Over

LEMMA AsHandlerTypes ==
    ASSUME NEW a, NEW b, IsListenerConfig(Merged(a, b))
    PROVE  LET c == AsHandler(Merged(a, b))
           IN  IsListenerConfig(c) /\ c.services = Merged(a, b).services /\ c.handler = None
<1> DEFINE c == AsHandler(Merged(a, b))
<1>1. /\ c.services = Merged(a, b).services /\ c.handler = None
      /\ DOMAIN c = {"plain", "services", "handler"}
    BY DEF AsHandler, Merged
<1>2. DOMAIN c.plain = Plain
    BY DEF AsHandler, Merged, OverPlain
<1> QED BY <1>1, <1>2 DEF IsListenerConfig

\* The configuration of the call on top is sound; what it returns to is the first.
LEMMA TopFrame ==
    ASSUME FrameInv, pc \in Compiling
    PROVE  /\ Top = frames[Len(frames)] /\ Len(frames) \in 1..2 /\ Len(frames) \in DOMAIN frames
           /\ 1 \in DOMAIN frames /\ IsFrame(Top) /\ IsFrame(frames[1])
           /\ IsHandler => frames = <<frames[1], frames[2]>> /\ Top = frames[2]
           /\ ~IsHandler => frames = <<frames[1]>> /\ Top = frames[1]
<1>1. CASE frames = <<frames[1]>>
    <2>1. Len(frames) = 1 /\ DOMAIN frames = {1}
        BY <1>1
    <2> QED BY <1>1, <2>1 DEF FrameInv, Top, Last, IsHandler
<1>2. CASE frames = <<frames[1], frames[2]>>
    <2>1. Len(frames) = 2 /\ DOMAIN frames = 1..2
        BY <1>2
    <2> QED BY <1>2, <2>1 DEF FrameInv, Top, Last, IsHandler
<1> QED BY <1>1, <1>2 DEF FrameInv
-----------------------------------------------------------------------------
(* The types are kept.                                                     *)

\* All actions that merge nothing.
Quiet == UNCHANGED <<world, structs, handlers, defaults>>

\* All others.
LEMMA MergeKeepsData ==
    ASSUME DataInv, NEW below, NEW top, Sound(below), Sound(top), Merge(below, top),
           world' = world, compiled' = compiled, defaults' = [c \in Configs |-> defaults'[c]],
           \A c \in Configs : defaults'[c] = defaults[c] \/ defaults'[c] = Merged(below, top)
    PROVE  DataInv'
<1>1. /\ structs' \in [Pointers -> MaybeStructs]
      /\ \A p \in Pointers : structs[p] # None => structs'[p] # None
      /\ handlers' = [o \in Owners |-> handlers'[o]]
      /\ \A o \in Owners : Sound(handlers[o])' /\ handlers'[o].handler = None
      /\ Sound(Merged(below, top))'
    BY MergeSound
<1>2. ASSUME NEW c \in Configs PROVE Sound(defaults[c])'
    <2>1. CASE defaults'[c] = defaults[c]
        BY <1>1, <2>1, LeadsKept DEF DataInv, Sound, KindsFit
    <2>2. CASE defaults'[c] = Merged(below, top)
        BY <1>1, <2>2 DEF Sound, Leads
    <2> QED BY <2>1, <2>2
<1>3. ASSUME NEW o \in Owners, NEW h \in BOOLEAN, NEW k \in Kinds, Given(o, h, k)' # None
      PROVE  structs'[<<o, h, k>>] # None
    <2>1. Given(o, h, k) # None
        BY <1>3 DEF Given
    <2> QED BY <1>1, <2>1, PointersAreTriples DEF DataInv
<1> QED BY <1>1, <1>2, <1>3 DEF DataInv

LEMMA DataStep ==
    ASSUME TypeInv, Next
    PROVE  DataInv'
<1>1. CASE LoadConfigs
    <2>1. Sound(DebugDefaults)
        <3>1. DebugDefaults.services \in [Kinds -> Pointers \cup {None}]
            BY DEF DebugDefaults
        <3>2. DOMAIN DebugDefaults = {"plain", "services", "handler"}
              /\ DOMAIN DebugDefaults.plain = Plain /\ DebugDefaults.handler = None
            BY DEF DebugDefaults, Nothing
        <3>3. \A k \in Kinds : DebugDefaults.services[k] = None
            BY DEF DebugDefaults
        <3> QED BY <3>1, <3>2, <3>3 DEF Sound, IsListenerConfig, Leads, KindsFit
    <2>2. \A c \in Configs : Sound(defaults'[c])
        BY <1>1, <2>1, MergedSound DEF LoadConfigs, TypeInv, DataInv
    <2>3. /\ UNCHANGED <<world, structs, handlers, compiled>>
          /\ defaults' = [c \in Configs |-> defaults'[c]]
        BY <1>1 DEF LoadConfigs
    <2> QED BY <2>2, <2>3 DEF TypeInv, DataInv, Sound, IsListenerConfig, Leads, KindsFit, Given
<1>2. ASSUME NEW c \in Configs, BeginConfig(c) PROVE DataInv'
    <2> DEFINE file == Decoded(world, File, FALSE)
    <2>1. Sound(file) /\ Sound(defaults[c])
        BY <1>2, DecodedSound, Distinct DEF TypeInv, DataInv
    <2>2. Merge(file, defaults[c]) /\ world' = world /\ compiled' = compiled
        BY <1>2 DEF BeginConfig
    <2>3. defaults' = [defaults EXCEPT ![c] = Merged(file, defaults[c])]
        BY <1>2 DEF BeginConfig
    <2> HIDE DEF file
    <2>4. /\ defaults' = [d \in Configs |-> defaults'[d]]
          /\ \A d \in Configs :
                defaults'[d] = defaults[d] \/ defaults'[d] = Merged(file, defaults[c])
        BY <2>3 DEF TypeInv, DataInv
    <2> QED BY <2>1, <2>2, <2>4, MergeKeepsData DEF TypeInv
<1>3. ASSUME NEW l \in Listeners, BeginListener(l) PROVE DataInv'
    <2> DEFINE own == Decoded(world, l, FALSE)
    <2>1. Sound(own) /\ Sound(defaults[config])
        BY <1>3, DecodedSound, Distinct DEF TypeInv, DataInv, PlaceInv, Mounting, BeginListener
    <2>2. Merge(defaults[config], own) /\ UNCHANGED <<world, compiled, defaults>>
        BY <1>3 DEF BeginListener
    <2> HIDE DEF own
    <2> QED BY <2>1, <2>2, MergeKeepsData DEF TypeInv, DataInv
<1>4. CASE BeginHandler
    <2> DEFINE own == handlers[Top.config.handler]
    <2>1. Top.config.handler \in Owners
        BY <1>4, TopFrame DEF BeginHandler, TypeInv, Compiling, IsFrame, IsListenerConfig
    <2>2. Sound(own) /\ Sound(defaults[config])
        BY <1>4, <2>1 DEF TypeInv, DataInv, PlaceInv, Mounting, Compiling, BeginHandler
    <2>3. Merge(defaults[config], own) /\ UNCHANGED <<world, compiled, defaults>>
        BY <1>4 DEF BeginHandler
    <2> HIDE DEF own
    <2> QED BY <2>2, <2>3, MergeKeepsData DEF TypeInv, DataInv
<1>5. CASE \/ EndConfig \/ NoHandler \/ OpenStorage \/ OpenStorageFails \/ NoDatabase
           \/ OpenDatabase \/ OpenDatabaseFails \/ DatabaseIsMissing
    <2>1. Quiet /\ compiled' = [l \in Listeners |-> compiled'[l]]
        BY <1>5 DEF Quiet, TypeInv, DataInv, EndConfig, NoHandler, OpenStorage, OpenStorageFails,
           NoDatabase, OpenDatabase, OpenDatabaseFails, DatabaseIsMissing, Return, ReturnToListener
    <2> QED BY <2>1 DEF Quiet, TypeInv, DataInv, Sound, Leads, Given
<1> QED BY <1>1, <1>2, <1>3, <1>4, <1>5 DEF Next

LEMMA PlaceStep ==
    ASSUME TypeInv, Next
    PROVE  PlaceInv'
<1> USE DEF Mounting, Compiling
<1>1. CASE LoadConfigs
    BY <1>1 DEF LoadConfigs, TypeInv, PlaceInv
<1>2. ASSUME NEW c \in Configs, BeginConfig(c) PROVE PlaceInv'
    BY <1>2 DEF BeginConfig, TypeInv, PlaceInv
<1>3. ASSUME NEW l \in Listeners, BeginListener(l) PROVE PlaceInv'
    BY <1>3 DEF BeginListener, TypeInv, PlaceInv
<1>4. CASE BeginHandler
    BY <1>4 DEF BeginHandler, TypeInv, PlaceInv
<1>5. CASE EndConfig \/ NoHandler \/ OpenStorage \/ OpenStorageFails \/ OpenDatabaseFails
    BY <1>5 DEF EndConfig, NoHandler, OpenStorage, OpenStorageFails, OpenDatabaseFails, TypeInv,
       PlaceInv
<1>6. CASE NoDatabase \/ OpenDatabase \/ DatabaseIsMissing
    BY <1>6 DEF NoDatabase, OpenDatabase, DatabaseIsMissing, Return, ReturnToListener, TypeInv, PlaceInv
<1> QED BY <1>1, <1>2, <1>3, <1>4, <1>5, <1>6 DEF Next

LEMMA FrameStep ==
    ASSUME TypeInv, Next
    PROVE  FrameInv'
<1> USE DEF Compiling
<1>0. FrameInv /\ pc \in Mounting \cup {"load", "ports", "serving", "fatal", "panic"}
    BY DEF TypeInv, PlaceInv
<1>1. CASE LoadConfigs \/ EndConfig
    BY <1>0, <1>1 DEF LoadConfigs, EndConfig, FrameInv, IsFrame, Leads
<1>2. ASSUME NEW c \in Configs, BeginConfig(c) PROVE FrameInv'
    BY <1>0, <1>2 DEF BeginConfig, FrameInv
<1>3. ASSUME NEW l \in Listeners, BeginListener(l) PROVE FrameInv'
    <2>1. PICK below, top : below = defaults[config] /\ top = Decoded(world, l, FALSE)
        OBVIOUS
    <2>2. Sound(below) /\ Sound(top)
        BY <1>3, <2>1, DecodedSound, Distinct
           DEF TypeInv, DataInv, PlaceInv, Mounting, BeginListener
    <2>3. /\ Merge(below, top) /\ world' = world /\ frames' = <<Frame(Merged(below, top))>>
          /\ pc' \in {"handler", "fatal"}
        BY <1>3, <2>1 DEF BeginListener
    <2>4. Sound(Merged(below, top))'
        BY <2>2, <2>3, MergeSound DEF TypeInv
    <2>5. /\ frames' = <<frames'[1]>> /\ DOMAIN frames' = {1} /\ Len(frames') = 1
          /\ frames'[1] = Frame(Merged(below, top))
        BY <2>3
    <2>6. IsFrame(frames[1])'
        BY <2>4, <2>5 DEF IsFrame, Frame, Sound, Leads
    <2> QED BY <2>3, <2>5, <2>6 DEF FrameInv
<1>4. CASE BeginHandler
    <2>1. PICK below, top : below = defaults[config] /\ top = handlers[Top.config.handler]
        OBVIOUS
    <2>2. Sound(below) /\ Sound(top)
        BY <1>4, <2>1, TopFrame DEF TypeInv, DataInv, PlaceInv, Mounting, BeginHandler, IsFrame,
           IsListenerConfig
    <2>3. /\ Merge(below, top) /\ world' = world
          /\ frames' = Append(frames, Frame(AsHandler(Merged(below, top))))
          /\ pc' \in {"storage", "fatal"}
        BY <1>4, <2>1 DEF BeginHandler
    <2>4. /\ Sound(Merged(below, top))'
          /\ \A p \in Pointers : structs[p] # None => structs'[p] # None
        BY <2>2, <2>3, MergeSound DEF TypeInv
    <2>5. LET c == AsHandler(Merged(below, top))
          IN  IsListenerConfig(c) /\ Leads(c)' /\ c.handler = None
        BY <2>4, AsHandlerTypes DEF Sound, Leads, IsListenerConfig
    <2>6. /\ frames = <<frames[1]>> /\ IsFrame(frames[1]) /\ frames[1].config.handler # None
        BY <1>0, <1>4, TopFrame DEF FrameInv, BeginHandler, IsHandler
    <2>7. frames' = <<frames[1], Frame(AsHandler(Merged(below, top)))>>
        BY <2>3, <2>6, AppendFrame
    <2>8. /\ DOMAIN frames' = {1, 2} /\ Len(frames') = 2 /\ frames'[1] = frames[1]
          /\ frames'[2] = Frame(AsHandler(Merged(below, top)))
        BY <2>7
    <2>9. IsFrame(frames[1])'
        BY <2>4, <2>6, <2>8, LeadsKept DEF IsFrame
    <2>10. IsFrame(frames[2])'
        BY <2>5, <2>8 DEF IsFrame, Frame, Leads, IsListenerConfig
    <2>11. frames'[2].config.handler = None
        BY <2>5, <2>8 DEF Frame
    <2> QED BY <2>3, <2>6, <2>7, <2>8, <2>9, <2>10, <2>11 DEF FrameInv
<1>5. CASE NoHandler \/ OpenStorageFails \/ OpenDatabaseFails
    BY <1>0, <1>5 DEF NoHandler, OpenStorageFails, OpenDatabaseFails, FrameInv, IsFrame, Leads
<1>6. CASE OpenStorage
    <2>1. CASE frames' = frames
        BY <1>0, <1>6, <2>1 DEF OpenStorage, FrameInv, IsFrame, Leads
    <2>2. ASSUME NEW x, frames' = [frames EXCEPT ![Len(frames)].storage = x] PROVE FrameInv'
        <3>1. IsFrame(frames[Len(frames)]) /\ Len(frames) \in DOMAIN frames
            BY <1>0, <1>6, TopFrame DEF OpenStorage
        <3>2. /\ Len(frames') = Len(frames) /\ DOMAIN frames' = DOMAIN frames
              /\ \A i \in DOMAIN frames : i # Len(frames) => frames'[i] = frames[i]
              /\ frames'[Len(frames)] = [frames[Len(frames)] EXCEPT !.storage = x]
            BY <1>0, <1>6, <2>2, <3>1 DEF FrameInv, OpenStorage
        <3>3. \A i \in DOMAIN frames' :
                /\ IsFrame(frames[i])'
                /\ frames'[i].config = frames[i].config
            BY <1>0, <1>6, <3>1, <3>2 DEF FrameInv, IsFrame, Leads, OpenStorage
        <3>4. CASE frames = <<frames[1]>>
            BY SMTT(30), <1>0, <1>6, <2>2, <3>2, <3>3, <3>4 DEF FrameInv, OpenStorage
        <3>5. CASE frames = <<frames[1], frames[2]>>
            BY <1>0, <1>6, <2>2, <3>2, <3>3, <3>5 DEF FrameInv, OpenStorage
        <3> QED BY <1>0, <1>6, <3>4, <3>5 DEF FrameInv, OpenStorage
    <2> QED BY <1>6, <2>1, <2>2 DEF OpenStorage
<1>7. CASE NoDatabase \/ OpenDatabase \/ DatabaseIsMissing
    <2>1. CASE frames' = <<>>
        BY <1>0, <1>7, <2>1
           DEF NoDatabase, OpenDatabase, DatabaseIsMissing, Return, ReturnToListener, FrameInv
    <2>2. CASE frames' = frames /\ pc' = "panic"
        BY <1>0, <1>7, <2>2
           DEF NoDatabase, OpenDatabase, DatabaseIsMissing, Return, ReturnToListener, FrameInv, IsFrame, Leads
    <2>3. ASSUME NEW r, frames' = <<[frames[1] EXCEPT !.handler = r]>>, pc' = "storage"
          PROVE  FrameInv'
        <3>1. IsFrame(frames[1])
            BY <1>0, <1>7, TopFrame DEF NoDatabase, OpenDatabase, DatabaseIsMissing
        <3>2. /\ frames' = <<frames'[1]>> /\ DOMAIN frames' = {1} /\ Len(frames') = 1
              /\ frames'[1] = [frames[1] EXCEPT !.handler = r]
            BY <2>3
        <3>3. IsFrame(frames[1])'
            BY <1>7, <3>1, <3>2
               DEF IsFrame, Leads, IsListenerConfig, NoDatabase, OpenDatabase, DatabaseIsMissing
        <3> QED BY <2>3, <3>2, <3>3 DEF FrameInv
    <2> QED BY <1>7, <2>1, <2>2, <2>3 DEF NoDatabase, OpenDatabase, DatabaseIsMissing, Return, ReturnToListener
<1> QED BY <1>1, <1>2, <1>3, <1>4, <1>5, <1>6, <1>7 DEF Next

\* The listener's own call while one for its error handler is begun, or goes on.
LEMMA FirstFrame ==
    ASSUME TypeInv,
           BeginHandler \/ NoHandler \/ OpenStorage \/ OpenStorageFails \/ OpenDatabaseFails
    PROVE  /\ pc \in Compiling /\ pc' \in Compiling \cup {"fatal"}
           /\ frames'[1].config = frames[1].config
           /\ \/ frames'[1].storage = frames[1].storage
              \/ /\ OpenStorage /\ frames[1].config.services["storage"] # None
                 /\ frames'[1].storage = structs[frames[1].config.services["storage"]].address
           /\ UNCHANGED <<world, defaults, todo, config, unmounted, listener, compiled>>
<1> USE DEF Compiling
<1>1. CASE BeginHandler
    <2>1. frames = <<frames[1]>>
        BY <1>1 DEF BeginHandler, TypeInv, FrameInv
    <2>2. \E g : frames' = Append(<<frames[1]>>, g)
        BY <1>1, <2>1 DEF BeginHandler
    <2>3. frames'[1] = frames[1]
        BY <2>2, AppendFrame
    <2> QED BY <1>1, <2>3 DEF BeginHandler
<1>2. CASE NoHandler \/ OpenStorageFails \/ OpenDatabaseFails
    BY <1>2 DEF NoHandler, OpenStorageFails, OpenDatabaseFails
<1>3. CASE OpenStorage
    <2>1. CASE frames' = frames
        BY <1>3, <2>1 DEF OpenStorage
    <2>2. CASE frames' = [frames EXCEPT ![Len(frames)].storage = Struct("storage").address]
               /\ Top.config.services["storage"] # None
        <3>1. /\ IsFrame(frames[1]) /\ 1 \in DOMAIN frames /\ Len(frames) \in 1..2
              /\ Len(frames) = 1 => Top = frames[1]
            BY <1>3, TopFrame DEF OpenStorage, TypeInv, IsHandler
        <3>2. CASE Len(frames) = 1
            <4>1. frames'[1] = [frames[1] EXCEPT !.storage = Struct("storage").address]
                BY <2>2, <3>1, <3>2
            <4> QED BY <1>3, <2>2, <3>1, <3>2, <4>1 DEF IsFrame, OpenStorage, Struct
        <3>3. CASE Len(frames) = 2
            BY <1>3, <2>2, <3>1, <3>3 DEF OpenStorage
        <3> QED BY <3>1, <3>2, <3>3
    <2> QED BY <1>3, <2>1, <2>2 DEF OpenStorage
<1> QED BY <1>1, <1>2, <1>3

\* The end of a call: of an error handler's, of a listener's, or of the process.
LEMMA Returned ==
    ASSUME TypeInv, NoDatabase \/ OpenDatabase \/ DatabaseIsMissing
    PROVE  /\ pc = "database"
           /\ UNCHANGED <<world, structs, handlers, defaults, todo, config, unmounted, listener>>
           /\ \/ /\ pc' = "storage" /\ compiled' = compiled
                 /\ frames'[1].config = frames[1].config /\ frames'[1].storage = frames[1].storage
              \/ pc' = "panic" /\ compiled' = compiled /\ frames' = frames
              \/ \E r : /\ pc' = "mount" /\ frames' = <<>>
                        /\ compiled' = [compiled EXCEPT ![listener] = r]
                        /\ r.config = frames[1].config /\ r.storage = frames[1].storage
                        /\ \/ r.database = None
                           \/ /\ frames[1].config.services["database"] # None
                              /\ r.database = structs[frames[1].config.services["database"]]
<1>1. /\ IsFrame(frames[1])
      /\ ~IsHandler => Top = frames[1]
    BY TopFrame DEF TypeInv, Compiling, NoDatabase, OpenDatabase, DatabaseIsMissing
<1>2. ASSUME NEW d, Return(Result(d)), ~IsHandler
      PROVE  \E r : /\ pc' = "mount" /\ frames' = <<>>
                    /\ compiled' = [compiled EXCEPT ![listener] = r]
                    /\ r.config = frames[1].config /\ r.storage = frames[1].storage
                    /\ r.database = d
    <2>1. /\ Result(d).config = frames[1].config /\ Result(d).storage = frames[1].storage
          /\ Result(d).database = d
        BY <1>1, <1>2 DEF Result
    <2> QED BY <1>2, <2>1 DEF Return
<1>3. ASSUME NEW r, ReturnToListener(r), IsHandler
      PROVE  /\ pc' = "storage" /\ compiled' = compiled
             /\ frames'[1].config = frames[1].config /\ frames'[1].storage = frames[1].storage
    <2>1. frames' = <<[frames[1] EXCEPT !.handler = r]>> /\ pc' = "storage" /\ compiled' = compiled
        BY <1>3 DEF ReturnToListener
    <2> QED BY <1>1, <2>1 DEF IsFrame
<1>4. CASE NoDatabase
    BY <1>2, <1>3, <1>4 DEF NoDatabase, Return
<1>5. CASE OpenDatabase
    <2>1. CASE IsHandler
        BY <1>3, <1>5, <2>1 DEF OpenDatabase, Return
    <2>2. CASE ~IsHandler
        BY <1>1, <1>2, <1>5, <2>2 DEF OpenDatabase, Struct
    <2> QED BY <2>1, <2>2
<1>6. CASE DatabaseIsMissing
    BY <1>3, <1>6 DEF DatabaseIsMissing
<1> QED BY <1>4, <1>5, <1>6
-----------------------------------------------------------------------------
(* What is not behind a pointer.                                           *)

OfDefaults(c, p) == Over(GivenPlain(c, p), DebugPlain(c, p))
OfConfig(c, p) == Over(GivenPlain(c, p), Over(DebugPlain(c, p), GivenPlain(File, p)))

\* The defaults of a configuration in their three stages, and what the listener that
\* is being compiled has made of them; its error handler is another frame.
PlainInv ==
    /\ \A c \in Configs : \A p \in Plain :
            defaults[c].plain[p] = IF pc = "load" THEN GivenPlain(c, p)
                                   ELSE IF c \in todo THEN OfDefaults(c, p) ELSE OfConfig(c, p)
    /\ pc \in Compiling =>
            \A p \in Plain :
                frames[1].config.plain[p] = Over(GivenPlain(listener, p), OfConfig(config, p))
    /\ PlainFieldsByPrecedence

LEMMA MergedPlain ==
    ASSUME NEW a, NEW b
    PROVE  \A p \in Plain : Merged(a, b).plain[p] = Over(b.plain[p], a.plain[p])
BY DEF Merged, OverPlain

LEMMA PlainStep ==
    ASSUME TypeInv, PlainInv, Next
    PROVE  PlainInv'
<1> USE DEF Compiling
<1>1. world' = world
    BY DEF Next, LoadConfigs, BeginConfig, EndConfig, BeginListener, BeginHandler, NoHandler,
       OpenStorage, OpenStorageFails, NoDatabase, OpenDatabase, OpenDatabaseFails, DatabaseIsMissing
<1>2. /\ \A o, p : GivenPlain(o, p)' = GivenPlain(o, p)
      /\ \A c, p : OfDefaults(c, p)' = OfDefaults(c, p) /\ OfConfig(c, p)' = OfConfig(c, p)
      /\ \A c, p : DebugPlain(c, p)' = DebugPlain(c, p)
    BY <1>1 DEF GivenPlain, OfDefaults, OfConfig, DebugPlain
<1>3. compiled' = compiled => PlainFieldsByPrecedence'
    BY <1>2 DEF PlainInv, PlainFieldsByPrecedence
<1>4. CASE LoadConfigs
    <2>1. ASSUME NEW c \in Configs, NEW p \in Plain PROVE defaults'[c].plain[p] = OfDefaults(c, p)
        <3>1. defaults[c].plain[p] = GivenPlain(c, p)
            BY <1>4 DEF LoadConfigs, PlainInv
        <3>2. CASE c \in world.debug
            <4>1. defaults'[c] = Merged(DebugDefaults, defaults[c])
                BY <1>4, <3>2 DEF LoadConfigs
            <4>2. DebugDefaults.plain[p] = DebugPlain(c, p)
                BY <3>2 DEF DebugDefaults, Nothing, DebugPlain
            <4> QED BY <3>1, <4>1, <4>2, MergedPlain DEF OfDefaults
        <3>3. CASE c \notin world.debug
            BY <1>4, <3>1, <3>3 DEF LoadConfigs, OfDefaults, DebugPlain, Over
        <3> QED BY <3>2, <3>3
    <2>2. todo = Configs /\ todo' = todo /\ pc' = "ports" /\ compiled' = compiled
        BY <1>4 DEF LoadConfigs, TypeInv, PlaceInv
    <2> QED BY <1>2, <1>3, <2>1, <2>2 DEF PlainInv
<1>5. ASSUME NEW c \in Configs, BeginConfig(c) PROVE PlainInv'
    <2>1. \A p \in Plain : Decoded(world, File, FALSE).plain[p] = GivenPlain(File, p)
        BY DecodedTypes, Distinct DEF TypeInv, DataInv
    <2>2. /\ c \in todo /\ todo' = todo \ {c}
          /\ pc = "ports" /\ pc' = "mount" /\ compiled' = compiled
          /\ defaults' = [defaults EXCEPT ![c] = Merged(Decoded(world, File, FALSE), defaults[c])]
        BY <1>5 DEF BeginConfig
    <2>3. ASSUME NEW p \in Plain PROVE defaults'[c].plain[p] = OfConfig(c, p)
        <3>1. defaults'[c] = Merged(Decoded(world, File, FALSE), defaults[c])
            BY <2>2 DEF TypeInv, DataInv
        <3>2. defaults'[c].plain[p] = Over(OfDefaults(c, p), GivenPlain(File, p))
            <4>1. defaults'[c].plain[p]
                    = Over(defaults[c].plain[p], Decoded(world, File, FALSE).plain[p])
                BY <3>1, MergedPlain
            <4>2. defaults[c].plain[p] = OfDefaults(c, p)
                BY <2>2 DEF PlainInv
            <4> QED BY <2>1, <4>1, <4>2
        <3> QED BY <3>2 DEF OfDefaults, OfConfig, Over
    <2>4. \A d \in Configs : d # c => defaults'[d] = defaults[d]
        BY <2>2 DEF TypeInv, DataInv
    <2> QED BY ZenonT(60), <1>2, <1>3, <2>2, <2>3, <2>4 DEF PlainInv
<1>6. ASSUME NEW l \in Listeners, BeginListener(l) PROVE PlainInv'
    <2>1. \A p \in Plain : Decoded(world, l, FALSE).plain[p] = GivenPlain(l, p)
        BY DecodedTypes, Distinct DEF TypeInv, DataInv
    <2>2. /\ pc = "mount" /\ UNCHANGED <<defaults, todo, config, compiled>>
          /\ pc' \in {"handler", "fatal"} /\ listener' = l
          /\ frames'[1].config = Merged(defaults[config], Decoded(world, l, FALSE))
        BY <1>6 DEF BeginListener, Frame
    <2>3. config \in Configs \ todo
        BY <2>2 DEF TypeInv, PlaceInv, Mounting
    <2>4. \A p \in Plain : frames'[1].config.plain[p] = Over(GivenPlain(l, p), OfConfig(config, p))
        <3>1. \A p \in Plain : defaults[config].plain[p] = OfConfig(config, p)
            BY <2>2, <2>3 DEF PlainInv
        <3>2. \A p \in Plain : frames'[1].config.plain[p]
                    = Over(Decoded(world, l, FALSE).plain[p], defaults[config].plain[p])
            BY ZenonT(60), <2>2, MergedPlain
        <3> QED BY <2>1, <3>1, <3>2
    <2> QED BY <1>2, <1>3, <2>2, <2>4 DEF PlainInv
<1>7. CASE EndConfig
    BY <1>2, <1>3, <1>7 DEF EndConfig, PlainInv
<1>8. CASE BeginHandler \/ NoHandler \/ OpenStorage \/ OpenStorageFails \/ OpenDatabaseFails
    <2>1. /\ frames'[1].config = frames[1].config
          /\ pc \in Compiling /\ pc' \in Compiling \cup {"fatal"}
          /\ UNCHANGED <<defaults, todo, config, listener, compiled>>
        BY <1>8, FirstFrame
    <2> QED BY <1>2, <1>3, <2>1 DEF PlainInv
<1>9. CASE NoDatabase \/ OpenDatabase \/ DatabaseIsMissing
    <2>1. pc = "database" /\ UNCHANGED <<defaults, todo, config, listener>>
        BY <1>9, Returned
    <2>2. CASE compiled' = compiled
        <3>1. \/ pc' = "storage" /\ frames'[1].config = frames[1].config
              \/ pc' \in {"panic", "mount"}
            BY <1>9, Returned
        <3> QED BY <1>2, <1>3, <2>1, <2>2, <3>1 DEF PlainInv
    <2>3. ASSUME NEW r, compiled' = [compiled EXCEPT ![listener] = r], pc' = "mount",
                 r.config = frames[1].config
          PROVE  PlainInv'
        <3>1. listener \in Listeners /\ ConfigOf[listener] = config
            BY <2>1 DEF TypeInv, PlaceInv
        <3>2. \A l \in Listeners : compiled'[l] = IF l = listener THEN r ELSE compiled[l]
            BY <2>3, <3>1 DEF TypeInv, DataInv
        <3>3. \A p \in Plain :
                r.config.plain[p] = Over(GivenPlain(listener, p), OfConfig(config, p))
            BY <2>1, <2>3 DEF PlainInv
        <3>4. PlainFieldsByPrecedence'
            BY <1>2, <3>1, <3>2, <3>3 DEF PlainInv, PlainFieldsByPrecedence, OfConfig
        <3> QED BY <1>2, <2>1, <2>3, <3>4 DEF PlainInv
    <2> QED BY <1>9, <2>2, <2>3, Returned
<1> QED BY <1>4, <1>5, <1>6, <1>7, <1>8, <1>9 DEF Next

-----------------------------------------------------------------------------
(* What is behind a pointer: who writes where.                             *)

Own(o, k) == IF Given(o, FALSE, k) = None THEN None ELSE <<o, FALSE, k>>

\* The struct of the defaults that the listeners of c share.
Root(c, k) == Over(Own(File, k), Own(c, k))

OwnPointers(c) ==
    \A k \in Kinds : c.services[k] # None => \E o \in Owners : c.services[k] = <<o, FALSE, k>>
HandlerPointers(c) ==
    \A k \in Kinds : c.services[k] # None => \E o \in Owners : c.services[k] = <<o, TRUE, k>>

\* What is written into s for one pointer of kind k.
WrittenAt(s, p, k, below, top) ==
    IF p = below.services[k] /\ top.services[k] # None
    THEN OverStruct(s[top.services[k]], s[p]) ELSE s[p]

LEMMA BothPointers ==
    ASSUME NEW o \in Owners, NEW k \in Kinds
    PROVE  /\ <<o, FALSE, k>> \in Pointers /\ <<o, FALSE, k>> # None
           /\ <<o, TRUE, k>> \in Pointers /\ <<o, TRUE, k>> # None
<1>1. <<o, FALSE, k>> \in Pointers
    BY DEF Pointers
<1>2. <<o, TRUE, k>> \in Pointers
    BY DEF Pointers
<1> QED BY <1>1, <1>2, Distinct

LEMMA OwnIsNotHandlers ==
    ASSUME NEW a, NEW b, NEW j, NEW k
    PROVE  <<a, FALSE, j>> # <<b, TRUE, k>>
<1>1. <<a, FALSE, j>>[2] = FALSE /\ <<b, TRUE, k>>[2] = TRUE
    OBVIOUS
<1> QED BY <1>1

LEMMA WritesAt ==
    ASSUME NEW s, NEW below, NEW top, KindsFit(below), NEW p \in Pointers
    PROVE  WrittenInto(s, below, top)[p] = WrittenAt(s, p, p[3], below, top)
<1>1. ASSUME NEW k \in Kinds, p = below.services[k] PROVE k = p[3]
    BY <1>1, Distinct DEF KindsFit
<1>2. p[3] \in Kinds
    BY DEF Pointers
<1>3. CASE \E k \in Kinds : p = below.services[k] /\ top.services[k] # None
    <2>1. WrittenInto(s, below, top)[p] = OverStruct(s[top.services[p[3]]], s[p])
        BY <1>3 DEF WrittenInto
    <2>2. p = below.services[p[3]] /\ top.services[p[3]] # None
        BY <1>1, <1>3
    <2> QED BY <2>1, <2>2 DEF WrittenAt
<1>4. CASE ~ \E k \in Kinds : p = below.services[k] /\ top.services[k] # None
    <2>1. WrittenInto(s, below, top)[p] = s[p]
        BY <1>4 DEF WrittenInto
    <2> QED BY <1>2, <1>4, <2>1 DEF WrittenAt
<1> QED BY <1>3, <1>4

\* A merge onto defaults writes a struct of the defaults from what is merged, and a
\* struct of a handler from one of the other handler.
LEMMA MergeWrites ==
    ASSUME DataInv, \A o \in Owners : HandlerPointers(handlers[o]),
           NEW below, NEW top, Sound(below), Sound(top), OwnPointers(below), Merge(below, top),
           OwnPointers(top) \/ ~BothHandle(below, top)
    PROVE  /\ \A o \in Owners, k \in Kinds :
                structs'[<<o, FALSE, k>>] = WrittenAt(structs, <<o, FALSE, k>>, k, below, top)
           /\ \A o \in Owners, k \in Kinds :
                structs'[<<o, TRUE, k>>] =
                    IF BothHandle(below, top)
                    THEN WrittenAt(structs, <<o, TRUE, k>>, k,
                                   handlers[below.handler], handlers[top.handler])
                    ELSE structs[<<o, TRUE, k>>]
<1> DEFINE a == handlers[below.handler]
           b == handlers[top.handler]
           first == IF BothHandle(below, top) THEN WrittenInto(structs, a, b) ELSE structs
<1>1. structs' = WrittenInto(first, below, top)
    BY DEF Merge, Structs
<1>2. ASSUME BothHandle(below, top) PROVE Sound(a) /\ HandlerPointers(a)
    BY <1>2 DEF BothHandle, DataInv, Sound, IsListenerConfig
<1>3. ASSUME NEW o \in Owners, NEW h \in BOOLEAN, NEW k \in Kinds
      PROVE  /\ structs'[<<o, h, k>>] = WrittenAt(first, <<o, h, k>>, k, below, top)
             /\ first[<<o, h, k>>] = IF BothHandle(below, top)
                    THEN WrittenAt(structs, <<o, h, k>>, k, a, b) ELSE structs[<<o, h, k>>]
    <2>1. <<o, h, k>> \in Pointers /\ <<o, h, k>>[3] = k
        BY PointersAreTriples
    <2> HIDE DEF a, b, first
    <2>2. structs'[<<o, h, k>>] = WrittenAt(first, <<o, h, k>>, k, below, top)
        BY <1>1, <2>1, WritesAt DEF Sound
    <2>3. BothHandle(below, top) => WrittenInto(structs, a, b)[<<o, h, k>>]
                                        = WrittenAt(structs, <<o, h, k>>, k, a, b)
        BY <1>2, <2>1, WritesAt DEF Sound
    <2> QED BY <2>2, <2>3 DEF first
<1> HIDE DEF a, b, first
<1>4. ASSUME NEW o \in Owners, NEW k \in Kinds
      PROVE  first[<<o, FALSE, k>>] = structs[<<o, FALSE, k>>]
    <2>1. BothHandle(below, top) => a.services[k] # <<o, FALSE, k>>
        <3>1. <<o, FALSE, k>> # None
            BY BothPointers
        <3>2. ASSUME BothHandle(below, top), a.services[k] # None
              PROVE  a.services[k] # <<o, FALSE, k>>
            <4>1. PICK x \in Owners : a.services[k] = <<x, TRUE, k>>
                BY <1>2, <3>2 DEF HandlerPointers
            <4> QED BY <4>1, OwnIsNotHandlers
        <3> QED BY <3>1, <3>2
    <2> QED BY <1>3, <2>1 DEF WrittenAt
<1>5. ASSUME NEW o \in Owners, NEW k \in Kinds
      PROVE  structs'[<<o, TRUE, k>>] = first[<<o, TRUE, k>>]
    <2>1. below.services[k] # <<o, TRUE, k>>
        <3>1. <<o, TRUE, k>> # None
            BY BothPointers
        <3>2. ASSUME below.services[k] # None PROVE below.services[k] # <<o, TRUE, k>>
            <4>1. PICK x \in Owners : below.services[k] = <<x, FALSE, k>>
                BY <3>2 DEF OwnPointers
            <4> QED BY <4>1, OwnIsNotHandlers
        <3> QED BY <3>1, <3>2
    <2> QED BY <1>3, <2>1 DEF WrittenAt
<1>6. ASSUME NEW k \in Kinds, top.services[k] # None
      PROVE  first[top.services[k]] = structs[top.services[k]]
    <2>1. CASE OwnPointers(top)
        BY ZenonT(60), <1>4, <1>6, <2>1 DEF OwnPointers
    <2>2. CASE ~BothHandle(below, top)
        BY <2>2 DEF first
    <2> QED BY <2>1, <2>2
<1>7. \A o \in Owners, k \in Kinds :
        structs'[<<o, FALSE, k>>] = WrittenAt(structs, <<o, FALSE, k>>, k, below, top)
    <2>1. ASSUME NEW o \in Owners, NEW k \in Kinds
          PROVE  structs'[<<o, FALSE, k>>] = WrittenAt(structs, <<o, FALSE, k>>, k, below, top)
        <3>1. structs'[<<o, FALSE, k>>] = WrittenAt(first, <<o, FALSE, k>>, k, below, top)
            BY <1>3
        <3>2. first[<<o, FALSE, k>>] = structs[<<o, FALSE, k>>]
            BY <1>4
        <3> QED BY <1>6, <3>1, <3>2 DEF WrittenAt
    <2> QED BY <2>1
<1>8. \A o \in Owners, k \in Kinds :
        structs'[<<o, TRUE, k>>] =
            IF BothHandle(below, top)
            THEN WrittenAt(structs, <<o, TRUE, k>>, k, a, b) ELSE structs[<<o, TRUE, k>>]
    BY <1>3, <1>5
<1> QED BY <1>7, <1>8 DEF a, b

-----------------------------------------------------------------------------
(* What is behind a pointer: where a value can have come from.             *)

FileHandler == world.given[<<File, TRUE>>] # None
Near(c, o) == o = c \/ (o \in Listeners /\ ConfigOf[o] = c)

\* The handlers that a pointer to one may lead to.
Kin(a, b) == FileHandler \/ \E c \in Configs : Near(c, a) /\ Near(c, b)

\* A value of kind k, field f, of somebody whose struct is merged into those that the
\* listeners of c have.
Source(c, k, o, h) ==
    /\ Given(o, h, k) # None
    /\ \/ Given(File, FALSE, k) # None
       \/ Given(c, FALSE, k) # None /\ (Near(c, o) \/ (h /\ FileHandler))
OfHandler(c, k, f, v) == \E o \in Owners : Source(c, k, o, TRUE) /\ v = Given(o, TRUE, k)[f]
OfOther(c, k, f, v, excluded) ==
    \E o \in Owners \ excluded : Source(c, k, o, FALSE) /\ v = Given(o, FALSE, k)[f]

OfDefaultsOf(c, k) == OverStruct(Given(c, FALSE, k), Given(File, FALSE, k))

\* The structs of the handlers hold values of handlers.
HandlerInv ==
    \A o \in Owners, k \in Kinds :
        /\ handlers[o].services[k] # None =>
                \E a \in Owners : Kin(o, a) /\ handlers[o].services[k] = <<a, TRUE, k>>
        /\ structs[<<o, TRUE, k>>] # None =>
                \A f \in Fields : \E a \in Owners :
                    /\ Kin(o, a) /\ Given(a, TRUE, k) # None
                    /\ structs[<<o, TRUE, k>>][f] = Given(a, TRUE, k)[f]

\* Whose handler a configuration and its listeners have.
OwnerInv ==
    /\ \A c \in Configs : defaults[c].handler # None => FileHandler \/ Near(c, defaults[c].handler)
    /\ pc \in Compiling /\ frames[1].config.handler # None =>
            FileHandler \/ Near(config, frames[1].config.handler)

\* Listeners and the configurations that are not merged yet, or are merged into the
\* struct of the file, keep what they were given.
PointerInv ==
    /\ \A c \in Configs, k \in Kinds :
            defaults[c].services[k] = IF c \in todo THEN Own(c, k) ELSE Root(c, k)
    /\ pc \in Compiling => \A k \in Kinds :
            frames[1].config.services[k] = Over(Root(config, k), Own(listener, k))
    /\ \A l \in Listeners, k \in Kinds : structs[<<l, FALSE, k>>] = Given(l, FALSE, k)
    /\ \A c \in Configs, k \in Kinds : c \in todo \/ Given(File, FALSE, k) # None =>
            structs[<<c, FALSE, k>>] = Given(c, FALSE, k)

\* Who has not been merged into the struct of the file yet.
Outside == {File} \cup todo \cup {l \in Listeners : ConfigOf[l] \in todo}

OfFile(k, f, v, outside) ==
    \/ v = Given(File, FALSE, k)[f]
    \/ \E o \in Owners : Given(o, TRUE, k) # None /\ v = Given(o, TRUE, k)[f]
    \/ \E o \in Owners \ outside : Given(o, FALSE, k) # None /\ v = Given(o, FALSE, k)[f]

OfRoot(c, k, f, v, waiting) ==
    \/ v = OfDefaultsOf(c, k)[f]
    \/ OfHandler(c, k, f, v)
    \/ OfOther(c, k, f, v, {File, c} \cup waiting)

OfListener(l, k, f, v) ==
    \/ Expected(l, k) # None /\ v = Expected(l, k)[f]
    \/ OfHandler(ConfigOf[l], k, f, v)
    \/ OfOther(ConfigOf[l], k, f, v, {File, ConfigOf[l], l})

\* From the struct of the file to that of the configuration that is mounted, to what
\* its listener uses, to what it has opened.
SourceInv ==
    /\ \A k \in Kinds : Given(File, FALSE, k) # None =>
            \A f \in Fields : OfFile(k, f, structs[<<File, FALSE, k>>][f], Outside)
    /\ pc \in Mounting => \A k \in Kinds : Root(config, k) # None =>
            \A f \in Fields : OfRoot(config, k, f, structs[Root(config, k)][f], unmounted)
    /\ pc \in Compiling => \A k \in Kinds : frames[1].config.services[k] # None =>
            \A f \in Fields : OfListener(listener, k, f, structs[frames[1].config.services[k]][f])
    /\ pc \in Compiling /\ frames[1].storage # None =>
            OfListener(listener, "storage", "address", frames[1].storage)
    /\ \A l \in Listeners, k \in Kinds : HasOpened(l, k) =>
            \A f \in FieldsOf(k) : OfListener(l, k, f, Opened(l, k, f))

LEMMA NearOne ==
    ASSUME NEW c \in Configs, NEW d \in Configs, NEW o, Near(c, o), Near(d, o)
    PROVE  c = d
BY WorldsAssumption DEF WorldsAssumption, Near

LEMMA KinIsTransitive ==
    ASSUME NEW a, NEW b, NEW c, Kin(a, b), Kin(b, c)
    PROVE  Kin(a, c)
BY NearOne DEF Kin

LEMMA KinIsSymmetric ==
    ASSUME NEW a, NEW b, Kin(a, b)
    PROVE  Kin(b, a)
BY DEF Kin

LEMMA KinOfNear ==
    ASSUME NEW c \in Configs, NEW a, NEW b, FileHandler \/ Near(c, a), Kin(a, b)
    PROVE  FileHandler \/ Near(c, b)
BY NearOne DEF Kin

\* A value of one handler is a value of all its kin.
LEMMA HandlerValues ==
    ASSUME DataInv, HandlerInv, NEW o \in Owners, NEW k \in Kinds, handlers[o].services[k] # None
    PROVE  /\ structs[handlers[o].services[k]] \in [Fields -> Texts]
           /\ \A f \in Fields : \E a \in Owners :
                /\ Kin(o, a) /\ Given(a, TRUE, k) # None
                /\ structs[handlers[o].services[k]][f] = Given(a, TRUE, k)[f]
<1>1. PICK b \in Owners : Kin(o, b) /\ handlers[o].services[k] = <<b, TRUE, k>>
    BY DEF HandlerInv
<1>2. structs[<<b, TRUE, k>>] # None
    BY <1>1 DEF DataInv, Sound, Leads
<1>3. structs[<<b, TRUE, k>>] \in [Fields -> Texts]
    BY <1>2, BothPointers DEF DataInv, MaybeStructs
<1>4. \A f \in Fields : \E a \in Owners :
            /\ Kin(b, a) /\ Given(a, TRUE, k) # None
            /\ structs[<<b, TRUE, k>>][f] = Given(a, TRUE, k)[f]
    BY <1>2 DEF HandlerInv
<1> QED BY <1>1, <1>3, <1>4, KinIsTransitive

LEMMA HandlersPoint ==
    ASSUME HandlerInv
    PROVE  \A o \in Owners : HandlerPointers(handlers[o])
BY DEF HandlerInv, HandlerPointers

LEMMA MergeHandlers ==
    ASSUME DataInv, HandlerInv, world' = world,
           NEW below, NEW top, Sound(below), Sound(top), OwnPointers(below), Merge(below, top),
           OwnPointers(top) \/ ~BothHandle(below, top),
           BothHandle(below, top) => Kin(below.handler, top.handler)
    PROVE  HandlerInv'
<1>1. \A o \in Owners : HandlerPointers(handlers[o])
    BY HandlersPoint
<1>2. BothHandle(below, top) => below.handler \in Owners /\ top.handler \in Owners
    BY DEF BothHandle, Sound, IsListenerConfig
<1>3. ASSUME NEW o \in Owners, NEW k \in Kinds, handlers'[o].services[k] # None
      PROVE  \E a \in Owners : Kin(o, a) /\ handlers'[o].services[k] = <<a, TRUE, k>>
    <2>1. CASE handlers'[o] = handlers[o]
        BY ZenonT(60), <1>3, <2>1 DEF HandlerInv
    <2>2. CASE handlers'[o] # handlers[o]
        <3>1. /\ BothHandle(below, top) /\ o = below.handler
              /\ handlers'[o] = Merged(handlers[o], handlers[top.handler])
            BY <1>2, <2>2 DEF Merge, Handlers, DataInv
        <3>2. handlers'[o].services[k]
                \in {handlers[o].services[k], handlers[top.handler].services[k]}
            BY <3>1 DEF Merged, Over
        <3>3. CASE handlers'[o].services[k] = handlers[o].services[k]
            <4>1. handlers[o].services[k] # None
                BY <1>3, <3>3
            <4>2. PICK a \in Owners : Kin(o, a) /\ handlers[o].services[k] = <<a, TRUE, k>>
                BY <4>1 DEF HandlerInv
            <4> QED BY <3>3, <4>2
        <3>4. CASE handlers'[o].services[k] = handlers[top.handler].services[k]
            <4>1. PICK a \in Owners : /\ Kin(top.handler, a)
                                      /\ handlers[top.handler].services[k] = <<a, TRUE, k>>
                BY <1>2, <1>3, <3>1, <3>4 DEF HandlerInv
            <4> QED BY <3>1, <3>4, <4>1, KinIsTransitive
        <3> QED BY <3>2, <3>3, <3>4
    <2> QED BY <2>1, <2>2
<1>4. ASSUME NEW o \in Owners, NEW k \in Kinds, structs'[<<o, TRUE, k>>] # None, NEW f \in Fields
      PROVE  \E a \in Owners : /\ Kin(o, a) /\ Given(a, TRUE, k) # None
                               /\ structs'[<<o, TRUE, k>>][f] = Given(a, TRUE, k)[f]
    <2>1. CASE structs'[<<o, TRUE, k>>] = structs[<<o, TRUE, k>>]
        BY ZenonT(60), <1>4, <2>1 DEF HandlerInv
    <2>2. CASE structs'[<<o, TRUE, k>>] # structs[<<o, TRUE, k>>]
        <3> DEFINE a == handlers[below.handler]
                   b == handlers[top.handler]
        <3>1. /\ BothHandle(below, top)
              /\ structs'[<<o, TRUE, k>>] = WrittenAt(structs, <<o, TRUE, k>>, k, a, b)
            <4>1. structs'[<<o, TRUE, k>>] =
                    IF BothHandle(below, top)
                    THEN WrittenAt(structs, <<o, TRUE, k>>, k, a, b) ELSE structs[<<o, TRUE, k>>]
                BY <1>1, MergeWrites
            <4> HIDE DEF a, b
            <4> QED BY <2>2, <4>1
        <3>2. /\ a.services[k] = <<o, TRUE, k>> /\ b.services[k] # None
              /\ structs'[<<o, TRUE, k>>]
                    = OverStruct(structs[b.services[k]], structs[a.services[k]])
            BY <2>2, <3>1 DEF WrittenAt
        <3>3. a.services[k] # None
            BY <3>2, BothPointers
        <3>4. Kin(below.handler, o)
            <4>1. PICK x \in Owners : Kin(below.handler, x) /\ a.services[k] = <<x, TRUE, k>>
                BY <1>2, <3>1, <3>3 DEF HandlerInv
            <4>2. x = o
                BY <3>2, <4>1
            <4> QED BY <4>1, <4>2
        <3>5. /\ structs[a.services[k]] \in [Fields -> Texts]
              /\ \E x \in Owners : /\ Kin(below.handler, x) /\ Given(x, TRUE, k) # None
                                   /\ structs[a.services[k]][f] = Given(x, TRUE, k)[f]
            BY <1>2, <3>1, <3>3, HandlerValues
        <3>6. /\ structs[b.services[k]] \in [Fields -> Texts]
              /\ \E x \in Owners : /\ Kin(top.handler, x) /\ Given(x, TRUE, k) # None
                                   /\ structs[b.services[k]][f] = Given(x, TRUE, k)[f]
            BY <1>2, <3>1, <3>2, HandlerValues
        <3> HIDE DEF a, b
        <3>7. structs'[<<o, TRUE, k>>][f] \in {structs[a.services[k]][f], structs[b.services[k]][f]}
            <4>1. ASSUME NEW u \in [Fields -> Texts], NEW v \in [Fields -> Texts]
                  PROVE  OverStruct(u, v)[f] \in {u[f], v[f]}
                BY <4>1, Distinct DEF OverStruct, Over
            <4>2. OverStruct(structs[b.services[k]], structs[a.services[k]])[f]
                    \in {structs[b.services[k]][f], structs[a.services[k]][f]}
                BY <3>5, <3>6, <4>1
            <4> QED BY <3>2, <4>2
        <3>8. Kin(below.handler, top.handler) /\ Kin(o, below.handler)
            BY <3>1, <3>4, KinIsSymmetric
        <3>9. \A x : Kin(below.handler, x) \/ Kin(top.handler, x) => Kin(o, x)
            BY <3>8, KinIsTransitive
        <3> QED BY <3>5, <3>6, <3>7, <3>9
    <2> QED BY <2>1, <2>2
<1>5. ASSUME NEW o \in Owners, NEW k \in Kinds, handlers'[o].services[k] # None
      PROVE  \E a \in Owners : Kin(o, a)' /\ handlers'[o].services[k] = <<a, TRUE, k>>
    BY <1>3, <1>5 DEF Kin, FileHandler
<1>6. ASSUME NEW o \in Owners, NEW k \in Kinds, structs'[<<o, TRUE, k>>] # None, NEW f \in Fields
      PROVE  \E a \in Owners : /\ Kin(o, a)' /\ Given(a, TRUE, k)' # None
                               /\ structs'[<<o, TRUE, k>>][f] = Given(a, TRUE, k)'[f]
    BY <1>4, <1>6 DEF Kin, FileHandler, Given
<1> QED BY <1>5, <1>6 DEF HandlerInv

DataInvs == TypeInv /\ HandlerInv /\ OwnerInv /\ PointerInv

LEMMA OwnFacts ==
    ASSUME world \in Worlds, NEW o \in Owners, NEW k \in Kinds
    PROVE  /\ Given(o, FALSE, k) \in MaybeStructs
           /\ Given(o, FALSE, k) # None => Own(o, k) = <<o, FALSE, k>>
           /\ Given(o, FALSE, k) = None => Own(o, k) = None
           /\ <<o, FALSE, k>> # None
           /\ \A p \in Owners : Own(o, k) = <<p, FALSE, k>> <=> p = o /\ Given(o, FALSE, k) # None
<1>1. Given(o, FALSE, k) \in MaybeStructs
    BY GivenTypes
<1>2. \A p \in Owners : <<o, FALSE, k>> = <<p, FALSE, k>> <=> p = o
    OBVIOUS
<1> QED BY <1>1, <1>2, BothPointers DEF Own

LEMMA RootFacts ==
    ASSUME world \in Worlds, NEW c \in Configs, NEW k \in Kinds
    PROVE  /\ Given(File, FALSE, k) # None => Root(c, k) = <<File, FALSE, k>>
           /\ Given(File, FALSE, k) = None => Root(c, k) = Own(c, k)
           /\ Root(c, k) = None <=> Given(File, FALSE, k) = None /\ Given(c, FALSE, k) = None
           /\ Root(c, k) # None => \E o \in {File, c} : Root(c, k) = <<o, FALSE, k>>
           /\ \A o \in Owners : Root(c, k) = <<o, FALSE, k>> =>
                    o = File \/ (o = c /\ Given(File, FALSE, k) = None)
<1>1. /\ Given(File, FALSE, k) # None => Own(File, k) = <<File, FALSE, k>>
      /\ Given(File, FALSE, k) = None => Own(File, k) = None
      /\ <<File, FALSE, k>> # None
    BY OwnFacts, Distinct
<1>2. /\ Given(c, FALSE, k) # None => Own(c, k) = <<c, FALSE, k>>
      /\ Given(c, FALSE, k) = None => Own(c, k) = None
      /\ <<c, FALSE, k>> # None
    BY OwnFacts, Distinct
<1>3. \A o, p : <<o, FALSE, k>> = <<p, FALSE, k>> => o = p
    OBVIOUS
<1>4. CASE Given(File, FALSE, k) # None
    BY <1>1, <1>3, <1>4 DEF Root, Over
<1>5. CASE Given(File, FALSE, k) = None
    <2>1. Root(c, k) = Own(c, k)
        BY <1>1, <1>5 DEF Root, Over
    <2>2. \A o \in Owners : <<o, FALSE, k>> # None
        BY BothPointers
    <2> QED BY <1>2, <1>3, <1>5, <2>1, <2>2
<1> QED BY <1>4, <1>5

\* The defaults of the file and those of c become one.
LEMMA ConfigBegun ==
    ASSUME DataInvs, NEW c \in Configs, BeginConfig(c)
    PROVE  /\ HandlerInv'
           /\ \A o \in Owners, k \in Kinds :
                structs'[<<o, FALSE, k>>] =
                    IF o = File /\ Given(File, FALSE, k) # None /\ Given(c, FALSE, k) # None
                    THEN OverStruct(Given(c, FALSE, k), structs[<<o, FALSE, k>>])
                    ELSE structs[<<o, FALSE, k>>]
           /\ \A k \in Kinds : defaults'[c].services[k] = Root(c, k)
           /\ defaults'[c].handler # None => FileHandler \/ Near(c, defaults'[c].handler)
           /\ \A d \in Configs : d # c => defaults'[d] = defaults[d]
<1>1. PICK below, top : below = Decoded(world, File, FALSE) /\ top = defaults[c]
    OBVIOUS
<1>2. /\ Merge(below, top) /\ world' = world /\ c \in todo
      /\ defaults' = [defaults EXCEPT ![c] = Merged(below, top)]
    BY <1>1 DEF BeginConfig
<1>3. world \in Worlds /\ DataInv
    BY DEF DataInvs, TypeInv, DataInv
<1>4. Sound(below) /\ Sound(top)
    BY <1>1, <1>3, DecodedSound, Distinct DEF DataInv
<1>5. /\ \A k \in Kinds : below.services[k] = Own(File, k) /\ top.services[k] = Own(c, k)
      /\ below.handler = IF FileHandler THEN File ELSE None
    BY <1>1, <1>2, <1>3, DecodedTypes, Distinct DEF DataInvs, PointerInv, Own, FileHandler
<1>6. OwnPointers(below) /\ OwnPointers(top)
    BY <1>5, Distinct DEF OwnPointers, Own
<1>7. BothHandle(below, top) => Kin(below.handler, top.handler)
    BY <1>5 DEF BothHandle, Kin
<1>8. HandlerInv'
    BY <1>2, <1>3, <1>4, <1>6, <1>7, MergeHandlers DEF DataInvs
<1>9. ASSUME NEW o \in Owners, NEW k \in Kinds
      PROVE  structs'[<<o, FALSE, k>>] =
                    IF o = File /\ Given(File, FALSE, k) # None /\ Given(c, FALSE, k) # None
                    THEN OverStruct(Given(c, FALSE, k), structs[<<o, FALSE, k>>])
                    ELSE structs[<<o, FALSE, k>>]
    <2>1. structs'[<<o, FALSE, k>>] = WrittenAt(structs, <<o, FALSE, k>>, k, below, top)
        BY <1>2, <1>3, <1>4, <1>6, HandlersPoint, MergeWrites DEF DataInvs
    <2>2. <<o, FALSE, k>> = below.services[k] <=> o = File /\ Given(File, FALSE, k) # None
        <3>1. \A p \in Owners : Own(File, k) = <<p, FALSE, k>>
                    <=> p = File /\ Given(File, FALSE, k) # None
            BY <1>3, OwnFacts, Distinct
        <3> QED BY <1>5, <3>1
    <2>3. /\ top.services[k] # None <=> Given(c, FALSE, k) # None
          /\ Given(c, FALSE, k) # None => structs[top.services[k]] = Given(c, FALSE, k)
        <3>1. /\ Given(c, FALSE, k) # None => Own(c, k) = <<c, FALSE, k>>
              /\ <<c, FALSE, k>> # None
              /\ Given(c, FALSE, k) = None => Own(c, k) = None
            BY <1>3, OwnFacts, Distinct
        <3>2. structs[<<c, FALSE, k>>] = Given(c, FALSE, k)
            BY <1>2 DEF DataInvs, PointerInv
        <3> QED BY <1>5, <3>1, <3>2
    <2> QED BY <2>1, <2>2, <2>3 DEF WrittenAt
<1>10. defaults'[c] = Merged(below, top) /\ \A d \in Configs : d # c => defaults'[d] = defaults[d]
    BY <1>2, <1>3 DEF DataInv
<1>11. \A k \in Kinds : defaults'[c].services[k] = Root(c, k)
    BY <1>5, <1>10 DEF Merged, Root
<1>12. defaults'[c].handler # None => FileHandler \/ Near(c, defaults'[c].handler)
    BY <1>1, <1>5, <1>10 DEF Merged, Over, DataInvs, OwnerInv
<1> QED BY <1>8, <1>9, <1>10, <1>11, <1>12

\* What a listener says is written into the structs that its configuration shares.
LEMMA ListenerBegun ==
    ASSUME DataInvs, NEW l \in Listeners, BeginListener(l)
    PROVE  /\ HandlerInv'
           /\ \A o \in Owners, k \in Kinds :
                structs'[<<o, FALSE, k>>] =
                    IF Root(config, k) = <<o, FALSE, k>> /\ Given(l, FALSE, k) # None
                    THEN OverStruct(Given(l, FALSE, k), structs[<<o, FALSE, k>>])
                    ELSE structs[<<o, FALSE, k>>]
           /\ \A k \in Kinds : frames'[1].config.services[k] = Over(Root(config, k), Own(l, k))
           /\ frames'[1].config.handler # None =>
                    FileHandler \/ Near(config, frames'[1].config.handler)
           /\ frames'[1].storage = None
<1>1. PICK below, top : below = defaults[config] /\ top = Decoded(world, l, FALSE)
    OBVIOUS
<1>2. /\ Merge(below, top) /\ world' = world /\ config \in Configs \ todo /\ ConfigOf[l] = config
      /\ frames' = <<Frame(Merged(below, top))>>
    BY <1>1 DEF BeginListener, DataInvs, TypeInv, PlaceInv, Mounting
<1>3. world \in Worlds /\ DataInv
    BY DEF DataInvs, TypeInv, DataInv
<1>4. Sound(below) /\ Sound(top)
    BY <1>1, <1>2, <1>3, DecodedSound, Distinct DEF DataInv
<1>5. /\ \A k \in Kinds : below.services[k] = Root(config, k) /\ top.services[k] = Own(l, k)
      /\ below.handler # None => FileHandler \/ Near(config, below.handler)
      /\ top.handler \in {None, l}
    BY <1>1, <1>2, <1>3, DecodedTypes, Distinct DEF DataInvs, PointerInv, OwnerInv, Own
<1>6. OwnPointers(below) /\ OwnPointers(top)
    <2>1. ASSUME NEW k \in Kinds, below.services[k] # None
          PROVE  \E o \in Owners : below.services[k] = <<o, FALSE, k>>
        <3>1. \E o \in {File, config} : Root(config, k) = <<o, FALSE, k>>
            BY <1>2, <1>3, <1>5, <2>1, RootFacts
        <3> QED BY <1>2, <1>5, <3>1, Distinct
    <2>2. ASSUME NEW k \in Kinds, top.services[k] # None
          PROVE  \E o \in Owners : top.services[k] = <<o, FALSE, k>>
        BY <1>5, <2>2, Distinct DEF Own
    <2> QED BY <2>1, <2>2 DEF OwnPointers
<1>7. BothHandle(below, top) => Kin(below.handler, top.handler)
    BY <1>2, <1>5 DEF BothHandle, Kin, Near
<1>8. HandlerInv'
    BY <1>2, <1>3, <1>4, <1>6, <1>7, MergeHandlers DEF DataInvs
<1>9. ASSUME NEW o \in Owners, NEW k \in Kinds
      PROVE  structs'[<<o, FALSE, k>>] =
                    IF Root(config, k) = <<o, FALSE, k>> /\ Given(l, FALSE, k) # None
                    THEN OverStruct(Given(l, FALSE, k), structs[<<o, FALSE, k>>])
                    ELSE structs[<<o, FALSE, k>>]
    <2>1. structs'[<<o, FALSE, k>>] = WrittenAt(structs, <<o, FALSE, k>>, k, below, top)
        BY <1>2, <1>3, <1>4, <1>6, HandlersPoint, MergeWrites DEF DataInvs
    <2>2. /\ top.services[k] # None <=> Given(l, FALSE, k) # None
          /\ Given(l, FALSE, k) # None => structs[top.services[k]] = Given(l, FALSE, k)
        <3>1. /\ Given(l, FALSE, k) # None => Own(l, k) = <<l, FALSE, k>>
              /\ <<l, FALSE, k>> # None
              /\ Given(l, FALSE, k) = None => Own(l, k) = None
            BY <1>3, OwnFacts, Distinct
        <3>2. structs[<<l, FALSE, k>>] = Given(l, FALSE, k)
            BY DEF DataInvs, PointerInv
        <3> QED BY <1>5, <3>1, <3>2
    <2> QED BY <1>5, <2>1, <2>2 DEF WrittenAt
<1>10. frames'[1].config = Merged(below, top) /\ frames'[1].storage = None
    BY <1>2 DEF Frame
<1>11. \A k \in Kinds : frames'[1].config.services[k] = Over(Root(config, k), Own(l, k))
    BY <1>5, <1>10 DEF Merged
<1>12. frames'[1].config.handler # None => FileHandler \/ Near(config, frames'[1].config.handler)
    <2>1. frames'[1].config.handler \in {below.handler, top.handler}
        BY <1>10 DEF Merged, Over
    <2> QED BY <1>2, <1>5, <2>1 DEF Near
<1> QED BY <1>8, <1>9, <1>10, <1>11, <1>12

\* What an error handler says as well, from whichever handler it has its struct.
LEMMA HandlerBegun ==
    ASSUME DataInvs, BeginHandler
    PROVE  /\ HandlerInv'
           /\ \A o \in Owners, k \in Kinds :
                \/ structs'[<<o, FALSE, k>>] = structs[<<o, FALSE, k>>]
                \/ /\ Root(config, k) = <<o, FALSE, k>>
                   /\ \A f \in Fields :
                        \/ structs'[<<o, FALSE, k>>][f] = structs[<<o, FALSE, k>>][f]
                        \/ OfHandler(config, k, f, structs'[<<o, FALSE, k>>][f])
<1>1. PICK below, top : below = defaults[config] /\ top = handlers[Top.config.handler]
    OBVIOUS
<1>2. /\ Merge(below, top) /\ world' = world /\ config \in Configs \ todo
      /\ frames = <<frames[1]>> /\ Top.config.handler # None
    BY <1>1 DEF BeginHandler, DataInvs, TypeInv, PlaceInv, FrameInv, Mounting, Compiling
<1>3. world \in Worlds /\ DataInv
    BY DEF DataInvs, TypeInv, DataInv
<1> DEFINE h == Top.config.handler
<1>4. h \in Owners /\ (FileHandler \/ Near(config, h))
    <2>1. Top = frames[1] /\ IsFrame(frames[1])
        BY <1>2, TopFrame DEF BeginHandler, DataInvs, TypeInv, Compiling, IsHandler
    <2> QED BY <1>2, <2>1
           DEF DataInvs, OwnerInv, BeginHandler, Compiling, IsFrame, IsListenerConfig
<1> HIDE DEF h
<1>5. top = handlers[h] /\ Sound(below) /\ Sound(top) /\ top.handler = None
    BY <1>1, <1>2, <1>3, <1>4 DEF DataInv, h
<1>6. \A k \in Kinds : below.services[k] = Root(config, k)
    BY <1>1, <1>2 DEF DataInvs, PointerInv
<1>7. OwnPointers(below)
    <2>1. ASSUME NEW k \in Kinds, below.services[k] # None
          PROVE  \E o \in Owners : below.services[k] = <<o, FALSE, k>>
        <3>1. \E o \in {File, config} : Root(config, k) = <<o, FALSE, k>>
            BY <1>2, <1>3, <1>6, <2>1, RootFacts
        <3> QED BY <1>2, <1>6, <3>1, Distinct
    <2> QED BY <2>1 DEF OwnPointers
<1>8. ~BothHandle(below, top)
    BY <1>5 DEF BothHandle
<1>9. HandlerInv'
    BY <1>2, <1>3, <1>5, <1>7, <1>8, MergeHandlers DEF DataInvs
<1>10. ASSUME NEW o \in Owners, NEW k \in Kinds,
              structs'[<<o, FALSE, k>>] # structs[<<o, FALSE, k>>], NEW f \in Fields
       PROVE  /\ Root(config, k) = <<o, FALSE, k>>
              /\ \/ structs'[<<o, FALSE, k>>][f] = structs[<<o, FALSE, k>>][f]
                 \/ OfHandler(config, k, f, structs'[<<o, FALSE, k>>][f])
    <2>1. structs'[<<o, FALSE, k>>] = WrittenAt(structs, <<o, FALSE, k>>, k, below, top)
        <3>1. \A x \in Owners : HandlerPointers(handlers[x])
            BY HandlersPoint DEF DataInvs
        <3>2. Sound(below) /\ Sound(top) /\ OwnPointers(below) /\ ~BothHandle(below, top)
            BY <1>5, <1>7, <1>8
        <3>3. Merge(below, top)
            BY <1>2
        <3> QED BY <1>3, <3>1, <3>2, <3>3, MergeWrites
    <2>2. /\ Root(config, k) = <<o, FALSE, k>> /\ top.services[k] # None
          /\ structs'[<<o, FALSE, k>>]
                = OverStruct(structs[top.services[k]], structs[<<o, FALSE, k>>])
        BY <1>6, <1>10, <2>1 DEF WrittenAt
    <2>3. structs[<<o, FALSE, k>>] \in [Fields -> Texts]
        <3>1. <<o, FALSE, k>> \in Pointers /\ <<o, FALSE, k>> # None
            BY BothPointers
        <3>2. structs[<<o, FALSE, k>>] # None
            BY <1>5, <1>6, <2>2, <3>1 DEF Sound, Leads
        <3> QED BY <1>3, <3>1, <3>2 DEF DataInv, MaybeStructs
    <2>4. /\ structs[top.services[k]] \in [Fields -> Texts]
          /\ \E a \in Owners : /\ Kin(h, a) /\ Given(a, TRUE, k) # None
                               /\ structs[top.services[k]][f] = Given(a, TRUE, k)[f]
        BY <1>3, <1>4, <1>5, <2>2, HandlerValues DEF DataInvs
    <2>5. OfHandler(config, k, f, structs[top.services[k]][f])
        <3>1. PICK a \in Owners : /\ Kin(h, a) /\ Given(a, TRUE, k) # None
                                  /\ structs[top.services[k]][f] = Given(a, TRUE, k)[f]
            BY <2>4
        <3>2. FileHandler \/ Near(config, a)
            BY <1>2, <1>4, <3>1, KinOfNear
        <3>3. Given(File, FALSE, k) # None \/ Given(config, FALSE, k) # None
            BY ZenonT(60), <1>2, <1>3, <2>2, RootFacts, BothPointers
        <3> QED BY <3>1, <3>2, <3>3 DEF OfHandler, Source
    <2>6. structs'[<<o, FALSE, k>>][f]
            \in {structs[top.services[k]][f], structs[<<o, FALSE, k>>][f]}
        <3>1. ASSUME NEW u \in [Fields -> Texts], NEW v \in [Fields -> Texts]
              PROVE  OverStruct(u, v)[f] \in {u[f], v[f]}
            BY <3>1, Distinct DEF OverStruct, Over
        <3>2. OverStruct(structs[top.services[k]], structs[<<o, FALSE, k>>])[f]
                \in {structs[top.services[k]][f], structs[<<o, FALSE, k>>][f]}
            BY <2>3, <2>4, <3>1
        <3> QED BY <2>2, <3>2
    <2> QED BY <2>2, <2>5, <2>6
<1>11. ASSUME NEW o \in Owners, NEW k \in Kinds
       PROVE  \/ structs'[<<o, FALSE, k>>] = structs[<<o, FALSE, k>>]
              \/ /\ Root(config, k) = <<o, FALSE, k>>
                 /\ \A f \in Fields :
                        \/ structs'[<<o, FALSE, k>>][f] = structs[<<o, FALSE, k>>][f]
                        \/ OfHandler(config, k, f, structs'[<<o, FALSE, k>>][f])
    <2>1. Fields # {}
        BY DEF Fields
    <2> QED BY <1>10, <2>1
<1> QED BY <1>9, <1>11

-----------------------------------------------------------------------------
(* The steps, for what is behind pointers.                                 *)

\* The actions that write behind no pointer.
Merging ==
    \/ \E c \in Configs : BeginConfig(c)
    \/ \E l \in Listeners : BeginListener(l)
    \/ BeginHandler

LEMMA NothingWritten ==
    ASSUME Next, ~Merging
    PROVE  UNCHANGED <<world, structs, handlers>>
BY DEF Next, Merging, LoadConfigs, EndConfig, NoHandler, OpenStorage, OpenStorageFails, NoDatabase,
   OpenDatabase, OpenDatabaseFails, DatabaseIsMissing

LEMMA WorldKept ==
    ASSUME Next
    PROVE  world' = world
BY DEF Next, LoadConfigs, BeginConfig, EndConfig, BeginListener, BeginHandler, NoHandler,
   OpenStorage, OpenStorageFails, NoDatabase, OpenDatabase, OpenDatabaseFails, DatabaseIsMissing

LEMMA HandlerStep ==
    ASSUME DataInvs, Next
    PROVE  HandlerInv'
<1>1. CASE Merging
    BY <1>1, ConfigBegun, ListenerBegun, HandlerBegun DEF Merging
<1>2. CASE ~Merging
    <2>1. UNCHANGED <<world, structs, handlers>>
        BY <1>2, NothingWritten
    <2> QED BY ZenonT(60), <2>1 DEF DataInvs, HandlerInv, Kin, FileHandler, Given
<1> QED BY <1>1, <1>2

LEMMA OwnerStep ==
    ASSUME DataInvs, Next
    PROVE  OwnerInv'
<1> USE DEF Compiling
<1>1. world' = world /\ OwnerInv
    BY WorldKept DEF DataInvs
<1>2. CASE LoadConfigs
    <2>1. \A c \in Configs : defaults'[c].handler = defaults[c].handler
        BY <1>2 DEF LoadConfigs, Merged, DebugDefaults, Over
    <2> QED BY <1>1, <1>2, <2>1 DEF LoadConfigs, OwnerInv, FileHandler
<1>3. ASSUME NEW c \in Configs, BeginConfig(c) PROVE OwnerInv'
    <2>1. /\ defaults'[c].handler # None => FileHandler \/ Near(c, defaults'[c].handler)
          /\ \A d \in Configs : d # c => defaults'[d] = defaults[d]
        BY <1>3, ConfigBegun
    <2>2. pc' = "mount"
        BY <1>3 DEF BeginConfig
    <2> QED BY <1>1, <2>1, <2>2 DEF OwnerInv, FileHandler
<1>4. ASSUME NEW l \in Listeners, BeginListener(l) PROVE OwnerInv'
    <2>1. frames'[1].config.handler # None =>
                FileHandler \/ Near(config, frames'[1].config.handler)
        BY <1>4, ListenerBegun
    <2>2. UNCHANGED <<defaults, config>>
        BY <1>4 DEF BeginListener
    <2> QED BY <1>1, <2>1, <2>2 DEF OwnerInv, FileHandler
<1>5. CASE EndConfig
    <2>1. pc' \in {"serving", "ports"} /\ defaults' = defaults
        BY <1>5 DEF EndConfig
    <2> QED BY <1>1, <2>1 DEF OwnerInv, FileHandler
<1>6. CASE BeginHandler \/ NoHandler \/ OpenStorage \/ OpenStorageFails \/ OpenDatabaseFails
    <2>1. /\ frames'[1].config = frames[1].config /\ pc \in Compiling
          /\ UNCHANGED <<defaults, config>>
        BY <1>6, FirstFrame DEF DataInvs
    <2> QED BY <1>1, <2>1 DEF OwnerInv, FileHandler
<1>7. CASE NoDatabase \/ OpenDatabase \/ DatabaseIsMissing
    <2>1. /\ pc = "database" /\ UNCHANGED <<defaults, config>>
          /\ frames'[1].config = frames[1].config \/ pc' \in {"panic", "mount"}
        BY <1>7, Returned DEF DataInvs
    <2> QED BY <1>1, <2>1 DEF OwnerInv, FileHandler
<1> QED BY <1>2, <1>3, <1>4, <1>5, <1>6, <1>7 DEF Next

\* The structs of listeners, of configurations that are not merged yet, and of those
\* that are merged into the struct of the file.
Untouched(o, k) ==
    \/ o \in Listeners
    \/ o \in Configs /\ (o \in todo \/ Given(File, FALSE, k) # None)

LEMMA StaysUntouched ==
    ASSUME DataInvs, Next, NEW o \in Owners, NEW k \in Kinds, Untouched(o, k)'
    PROVE  Untouched(o, k) /\ structs'[<<o, FALSE, k>>] = structs[<<o, FALSE, k>>]
<1>1. world' = world /\ world \in Worlds /\ o # File
    BY WorldKept, WorldsAssumption DEF DataInvs, TypeInv, DataInv, WorldsAssumption, Untouched
<1>2. todo' \subseteq todo
    BY DEF Next, LoadConfigs, BeginConfig, EndConfig, BeginListener, BeginHandler, NoHandler,
       OpenStorage, OpenStorageFails, NoDatabase, OpenDatabase, OpenDatabaseFails, DatabaseIsMissing
<1>3. Untouched(o, k)
    BY <1>1, <1>2 DEF Untouched, Given
<1>4. ASSUME NEW c \in Configs, BeginConfig(c)
      PROVE  structs'[<<o, FALSE, k>>] = structs[<<o, FALSE, k>>]
    BY <1>1, <1>4, ConfigBegun
<1>5. ASSUME pc \in Mounting PROVE Root(config, k) # <<o, FALSE, k>>
    <2>1. config \in Configs \ todo
        BY <1>5 DEF DataInvs, TypeInv, PlaceInv
    <2>2. Root(config, k) = <<o, FALSE, k>> => o = config /\ Given(File, FALSE, k) = None
        BY ZenonT(60), <1>1, <2>1, RootFacts
    <2> QED BY <1>3, <2>1, <2>2, WorldsAssumption DEF Untouched, WorldsAssumption
<1>6. ASSUME NEW l \in Listeners, BeginListener(l)
      PROVE  structs'[<<o, FALSE, k>>] = structs[<<o, FALSE, k>>]
    <2>1. Root(config, k) # <<o, FALSE, k>>
        BY <1>5, <1>6 DEF BeginListener, Mounting
    <2> QED BY <1>6, <2>1, ListenerBegun
<1>7. CASE BeginHandler
    <2>1. Root(config, k) # <<o, FALSE, k>>
        BY <1>5, <1>7 DEF BeginHandler, Mounting, Compiling
    <2> QED BY <1>3, <1>7, <2>1, HandlerBegun
<1>8. CASE ~Merging
    BY <1>3, <1>8, NothingWritten
<1> QED BY <1>3, <1>4, <1>6, <1>7, <1>8 DEF Merging

LEMMA PointerStep ==
    ASSUME DataInvs, Next
    PROVE  PointerInv'
<1> USE DEF Compiling
<1> DEFINE Defaults == \A c \in Configs, k \in Kinds :
                defaults[c].services[k] = IF c \in todo THEN Own(c, k) ELSE Root(c, k)
           Uses == pc \in Compiling => \A k \in Kinds :
                frames[1].config.services[k] = Over(Root(config, k), Own(listener, k))
<1>1. world' = world /\ Defaults /\ Uses
    BY WorldKept DEF DataInvs, PointerInv
<1>2. \A o, k : Own(o, k)' = Own(o, k) /\ Root(o, k)' = Root(o, k)
    BY <1>1 DEF Own, Root, Given
<1>3. Defaults' /\ Uses'
    <2>1. CASE LoadConfigs
        <3>1. \A c \in Configs, k \in Kinds : defaults'[c].services[k] = defaults[c].services[k]
            BY <2>1 DEF LoadConfigs, Merged, DebugDefaults, Over
        <3> QED BY <1>1, <1>2, <2>1, <3>1 DEF LoadConfigs
    <2>2. ASSUME NEW c \in Configs, BeginConfig(c) PROVE Defaults' /\ Uses'
        <3>1. /\ \A k \in Kinds : defaults'[c].services[k] = Root(c, k)
              /\ \A d \in Configs : d # c => defaults'[d] = defaults[d]
            BY <2>2, ConfigBegun
        <3>2. todo' = todo \ {c} /\ pc' = "mount"
            BY <2>2 DEF BeginConfig
        <3> QED BY <1>1, <1>2, <3>1, <3>2
    <2>3. ASSUME NEW l \in Listeners, BeginListener(l) PROVE Defaults' /\ Uses'
        <3>1. \A k \in Kinds : frames'[1].config.services[k] = Over(Root(config, k), Own(l, k))
            BY <2>3, ListenerBegun
        <3>2. UNCHANGED <<defaults, todo, config>> /\ listener' = l
            BY <2>3 DEF BeginListener
        <3> QED BY <1>1, <1>2, <3>1, <3>2
    <2>4. CASE EndConfig
        BY <1>1, <1>2, <2>4 DEF EndConfig
    <2>5. CASE BeginHandler \/ NoHandler \/ OpenStorage \/ OpenStorageFails \/ OpenDatabaseFails
        <3>1. /\ frames'[1].config = frames[1].config /\ pc \in Compiling
              /\ UNCHANGED <<defaults, todo, config, listener>>
            BY <2>5, FirstFrame DEF DataInvs
        <3> QED BY <1>1, <1>2, <3>1
    <2>6. CASE NoDatabase \/ OpenDatabase \/ DatabaseIsMissing
        <3>1. /\ pc = "database" /\ UNCHANGED <<defaults, todo, config, listener>>
              /\ frames'[1].config = frames[1].config \/ pc' \in {"panic", "mount"}
            BY <2>6, Returned DEF DataInvs
        <3> QED BY <1>1, <1>2, <3>1
    <2> QED BY <2>1, <2>2, <2>3, <2>4, <2>5, <2>6 DEF Next
<1>4. \A o \in Owners, k \in Kinds :
        Untouched(o, k)' => structs'[<<o, FALSE, k>>] = Given(o, FALSE, k)'
    <2>1. ASSUME NEW o \in Owners, NEW k \in Kinds, Untouched(o, k)
          PROVE  structs[<<o, FALSE, k>>] = Given(o, FALSE, k)
        BY <2>1 DEF Untouched, DataInvs, PointerInv
    <2>2. \A o \in Owners, k \in Kinds : Given(o, FALSE, k)' = Given(o, FALSE, k)
        BY <1>1 DEF Given
    <2> QED BY <2>1, <2>2, StaysUntouched
<1> QED BY <1>3, <1>4, Distinct DEF PointerInv, Untouched

\* What the file's struct, that of the configuration and that of the listener hold.
FileSourced ==
    \A k \in Kinds : Given(File, FALSE, k) # None =>
        \A f \in Fields : OfFile(k, f, structs'[<<File, FALSE, k>>][f], Outside')
RootSourced(c) ==
    \A k \in Kinds : Root(c, k) # None =>
        \A f \in Fields : OfRoot(c, k, f, structs'[Root(c, k)][f], unmounted')
UseSourced(l, c) ==
    \A k \in Kinds : c.services[k] # None =>
        \A f \in Fields : OfListener(l, k, f, structs'[c.services[k]][f])

LEMMA OverStructFields ==
    ASSUME NEW a \in [Fields -> Texts], NEW b \in [Fields -> Texts]
    PROVE  /\ OverStruct(a, b) \in [Fields -> Texts] /\ OverStruct(a, b) # None
           /\ \A f \in Fields : OverStruct(a, b)[f] = IF a[f] = None THEN b[f] ELSE a[f]
           /\ OverStruct(a, None) = a /\ OverStruct(None, b) = b
<1>1. a # None /\ b # None
    BY Distinct
<1> QED BY <1>1, Distinct DEF OverStruct, Over

\* A pointer of the defaults leads to a struct.
LEMMA RootStruct ==
    ASSUME DataInv, NEW c \in Configs, NEW k \in Kinds, Root(c, k) # None
    PROVE  /\ structs[Root(c, k)] \in [Fields -> Texts]
           /\ OfDefaultsOf(c, k) \in [Fields -> Texts]
           /\ \E o \in {File, c} : Root(c, k) = <<o, FALSE, k>> /\ Given(o, FALSE, k) # None
<1>1. world \in Worlds
    BY DEF DataInv
<1>2. /\ Given(File, FALSE, k) # None => Root(c, k) = <<File, FALSE, k>>
      /\ Given(File, FALSE, k) = None => Root(c, k) = <<c, FALSE, k>> /\ Given(c, FALSE, k) # None
    <2>1. Given(c, FALSE, k) # None => Own(c, k) = <<c, FALSE, k>>
        BY <1>1, OwnFacts, Distinct
    <2> QED BY <1>1, <2>1, RootFacts
<1>3. PICK o \in {File, c} : Root(c, k) = <<o, FALSE, k>> /\ Given(o, FALSE, k) # None
    BY <1>2
<1>4. structs[<<o, FALSE, k>>] # None /\ structs[<<o, FALSE, k>>] \in MaybeStructs
    BY <1>3, BothPointers, Distinct DEF DataInv
<1>5. OfDefaultsOf(c, k) \in MaybeStructs /\ OfDefaultsOf(c, k) # None
    <2>1. Given(File, FALSE, k) \in MaybeStructs /\ Given(c, FALSE, k) \in MaybeStructs
        BY <1>1, OwnFacts, Distinct
    <2>2. Given(File, FALSE, k) # None \/ Given(c, FALSE, k) # None
        BY <1>3
    <2> QED BY <2>1, <2>2, OverStructs DEF OfDefaultsOf
<1> QED BY <1>3, <1>4, <1>5 DEF MaybeStructs

LEMMA FileStep ==
    ASSUME DataInvs, SourceInv, Next
    PROVE  FileSourced
<1> SUFFICES ASSUME NEW k \in Kinds, Given(File, FALSE, k) # None, NEW f \in Fields
             PROVE  OfFile(k, f, structs'[<<File, FALSE, k>>][f], Outside')
    BY DEF FileSourced
<1>1. world \in Worlds /\ DataInv
    BY DEF DataInvs, TypeInv, DataInv
<1>2. structs[<<File, FALSE, k>>] \in [Fields -> Texts]
    <2>1. structs[<<File, FALSE, k>>] # None /\ <<File, FALSE, k>> \in Pointers
        BY <1>1, BothPointers, Distinct DEF DataInv
    <2> QED BY <1>1, <2>1 DEF DataInv, MaybeStructs
<1>3. OfFile(k, f, structs[<<File, FALSE, k>>][f], Outside)
    BY DEF SourceInv
<1>4. todo' \subseteq todo
    BY DEF Next, LoadConfigs, BeginConfig, EndConfig, BeginListener, BeginHandler, NoHandler,
       OpenStorage, OpenStorageFails, NoDatabase, OpenDatabase, OpenDatabaseFails, DatabaseIsMissing
<1>5. OfFile(k, f, structs[<<File, FALSE, k>>][f], Outside')
    BY <1>3, <1>4 DEF OfFile, Outside
<1>6. ASSUME NEW o \in Owners \ Outside', Given(o, FALSE, k) # None,
             structs'[<<File, FALSE, k>>]
                = OverStruct(Given(o, FALSE, k), structs[<<File, FALSE, k>>])
      PROVE  OfFile(k, f, structs'[<<File, FALSE, k>>][f], Outside')
    <2>1. Given(o, FALSE, k) \in [Fields -> Texts]
        BY <1>1, <1>6, OwnFacts DEF MaybeStructs
    <2>2. structs'[<<File, FALSE, k>>][f]
            \in {Given(o, FALSE, k)[f], structs[<<File, FALSE, k>>][f]}
        <3>1. PICK g, s : g = Given(o, FALSE, k) /\ s = structs[<<File, FALSE, k>>]
            OBVIOUS
        <3>2. g \in [Fields -> Texts] /\ s \in [Fields -> Texts]
            BY <1>2, <2>1, <3>1
        <3>3. OverStruct(g, s)[f] \in {g[f], s[f]}
            BY <3>2, OverStructFields
        <3> QED BY <1>6, <3>1, <3>3
    <2>3. OfFile(k, f, Given(o, FALSE, k)[f], Outside')
        BY <1>6 DEF OfFile
    <2> QED BY <1>5, <2>2, <2>3
<1>7. ASSUME NEW c \in Configs, BeginConfig(c)
      PROVE  OfFile(k, f, structs'[<<File, FALSE, k>>][f], Outside')
    <2>1. structs'[<<File, FALSE, k>>] =
            IF Given(c, FALSE, k) # None
            THEN OverStruct(Given(c, FALSE, k), structs[<<File, FALSE, k>>])
            ELSE structs[<<File, FALSE, k>>]
        BY <1>7, ConfigBegun, Distinct
    <2>2. c \in Owners \ Outside'
        BY <1>7, WorldsAssumption DEF BeginConfig, Outside, WorldsAssumption, Owners
    <2> QED BY <1>5, <1>6, <2>1, <2>2
<1>8. ASSUME NEW l \in Listeners, BeginListener(l)
      PROVE  OfFile(k, f, structs'[<<File, FALSE, k>>][f], Outside')
    <2>1. \/ structs'[<<File, FALSE, k>>] = structs[<<File, FALSE, k>>]
          \/ /\ Given(l, FALSE, k) # None
             /\ structs'[<<File, FALSE, k>>]
                    = OverStruct(Given(l, FALSE, k), structs[<<File, FALSE, k>>])
        BY <1>8, ListenerBegun, Distinct
    <2>2. config \in Configs \ todo /\ ConfigOf[l] = config /\ todo \subseteq Configs
        BY <1>8 DEF BeginListener, DataInvs, TypeInv, PlaceInv, Mounting
    <2>3. l \in Owners \ Outside'
        BY <1>4, <2>2, WorldsAssumption DEF Outside, WorldsAssumption, Owners
    <2> QED BY <1>5, <1>6, <2>1, <2>3
<1>9. CASE BeginHandler
    <2>1. \/ structs'[<<File, FALSE, k>>][f] = structs[<<File, FALSE, k>>][f]
          \/ OfHandler(config, k, f, structs'[<<File, FALSE, k>>][f])
        BY <1>9, HandlerBegun, Distinct
    <2> QED BY <1>5, <2>1 DEF OfFile, OfHandler, Source
<1>10. CASE ~Merging
    BY <1>5, <1>10, NothingWritten
<1> QED BY <1>7, <1>8, <1>9, <1>10 DEF Merging

LEMMA OwnStructs ==
    ASSUME DataInv, NEW o \in Owners, NEW k \in Kinds, Given(o, FALSE, k) # None
    PROVE  Given(o, FALSE, k) \in [Fields -> Texts]
BY OwnFacts DEF DataInv, MaybeStructs

\* What is merged into the struct that the listeners of the configuration share: first
\* the defaults of the configuration itself, in the order of the ports.
LEMMA RootBegun ==
    ASSUME DataInvs, SourceInv, NEW c \in Configs, BeginConfig(c)
    PROVE  RootSourced(c)
<1> SUFFICES ASSUME NEW k \in Kinds, Root(c, k) # None, NEW f \in Fields
             PROVE  OfRoot(c, k, f, structs'[Root(c, k)][f], unmounted')
    BY DEF RootSourced
<1>1. world \in Worlds /\ DataInv /\ c \in todo /\ unmounted' = {l \in Listeners : ConfigOf[l] = c}
    BY DEF DataInvs, TypeInv, DataInv, BeginConfig
<1>2. \A o \in Owners : structs'[<<o, FALSE, k>>] =
            IF o = File /\ Given(File, FALSE, k) # None /\ Given(c, FALSE, k) # None
            THEN OverStruct(Given(c, FALSE, k), structs[<<o, FALSE, k>>])
            ELSE structs[<<o, FALSE, k>>]
    BY ConfigBegun
<1>3. CASE Given(File, FALSE, k) = None
    <2>1. Root(c, k) = <<c, FALSE, k>> /\ Given(c, FALSE, k) # None
        <3>1. Root(c, k) = Own(c, k)
            BY <1>1, <1>3, RootFacts
        <3> QED BY <3>1 DEF Own
    <2>2. structs'[<<c, FALSE, k>>] = Given(c, FALSE, k)
        BY <1>1, <1>2, <1>3, Distinct DEF DataInvs, PointerInv
    <2>3. OfDefaultsOf(c, k) = Given(c, FALSE, k)
        BY <1>3, <2>1 DEF OfDefaultsOf, OverStruct
    <2> QED BY <2>1, <2>2, <2>3 DEF OfRoot
<1>4. CASE Given(File, FALSE, k) # None
    <2>1. PICK s, g : s = structs[<<File, FALSE, k>>] /\ g = Given(File, FALSE, k)
        OBVIOUS
    <2>2. Root(c, k) = <<File, FALSE, k>>
        BY <1>1, <1>4, RootFacts
    <2>3. s \in [Fields -> Texts] /\ g \in [Fields -> Texts]
        BY <1>1, <1>4, <2>1, <2>2, RootStruct, OwnStructs, Distinct
    <2>4. OfFile(k, f, s[f], Outside)
        BY <1>4, <2>1 DEF SourceInv
    <2>5. s[f] = g[f] \/ OfRoot(c, k, f, s[f], unmounted')
        <3>1. ASSUME NEW o \in Owners, Given(o, TRUE, k) # None, s[f] = Given(o, TRUE, k)[f]
              PROVE  OfRoot(c, k, f, s[f], unmounted')
            BY <1>4, <3>1 DEF OfRoot, OfHandler, Source
        <3>2. ASSUME NEW o \in Owners \ Outside, Given(o, FALSE, k) # None,
                     s[f] = Given(o, FALSE, k)[f]
              PROVE  OfRoot(c, k, f, s[f], unmounted')
            <4>1. o \notin {File, c} \cup unmounted'
                BY <1>1, <3>2 DEF Outside
            <4> QED BY <1>4, <3>2, <4>1 DEF OfRoot, OfOther, Source
        <3> QED BY <2>1, <2>4, <3>1, <3>2 DEF OfFile
    <2>6. CASE Given(c, FALSE, k) = None
        <3>1. structs'[<<File, FALSE, k>>] = s
            BY <1>2, <2>1, <2>6, Distinct
        <3>2. OfDefaultsOf(c, k) = g
            BY <2>1, <2>6 DEF OfDefaultsOf, OverStruct
        <3> QED BY <2>2, <2>5, <3>1, <3>2 DEF OfRoot
    <2>7. CASE Given(c, FALSE, k) # None
        <3>1. PICK d : d = Given(c, FALSE, k)
            OBVIOUS
        <3>2. d \in [Fields -> Texts]
            BY <1>1, <2>7, <3>1, OwnStructs, Distinct
        <3>3. structs'[<<File, FALSE, k>>] = OverStruct(d, s)
            BY <1>2, <1>4, <2>1, <2>7, <3>1, Distinct
        <3>4. OfDefaultsOf(c, k) = OverStruct(d, g)
            BY <2>1, <3>1 DEF OfDefaultsOf
        <3>5. /\ OverStruct(d, s)[f] = IF d[f] = None THEN s[f] ELSE d[f]
              /\ OverStruct(d, g)[f] = IF d[f] = None THEN g[f] ELSE d[f]
            BY <2>3, <3>2, OverStructFields
        <3>6. structs'[Root(c, k)][f] = OfDefaultsOf(c, k)[f] \/ structs'[Root(c, k)][f] = s[f]
            BY <2>2, <3>3, <3>4, <3>5
        <3>7. \/ structs'[Root(c, k)][f] = OfDefaultsOf(c, k)[f]
              \/ OfRoot(c, k, f, structs'[Root(c, k)][f], unmounted')
            BY <2>2, <2>5, <3>3, <3>4, <3>5, <3>6
        <3> QED BY <3>7 DEF OfRoot
    <2> QED BY <2>6, <2>7
<1> QED BY <1>3, <1>4

\* Then what its listeners and their handlers say, in the order of the routes.
LEMMA RootStep ==
    ASSUME DataInvs, SourceInv, Next, pc' \in Mounting
    PROVE  RootSourced(config')
<1> USE DEF Mounting, Compiling
<1>1. ASSUME NEW c \in Configs, BeginConfig(c) PROVE RootSourced(config')
    <2>1. config' = c
        BY <1>1 DEF BeginConfig
    <2> QED BY <1>1, <2>1, RootBegun
<1>2. ASSUME ~ \E c \in Configs : BeginConfig(c)
      PROVE  /\ pc \in Mounting /\ config' = config /\ unmounted' \subseteq unmounted
             /\ config \in Configs \ todo
    BY <1>2 DEF DataInvs, TypeInv, PlaceInv, Next, LoadConfigs, EndConfig, BeginListener,
       BeginHandler, NoHandler, OpenStorage, OpenStorageFails, NoDatabase, OpenDatabase,
       OpenDatabaseFails, DatabaseIsMissing, Return, ReturnToListener
<1>3. ASSUME NEW k \in Kinds, Root(config, k) # None, NEW f \in Fields,
             ~ \E c \in Configs : BeginConfig(c)
      PROVE  OfRoot(config, k, f, structs'[Root(config, k)][f], unmounted')
    <2>1. DataInv /\ config \in Configs /\ pc \in Mounting
        BY <1>2, <1>3 DEF DataInvs, TypeInv
    <2>2. PICK o \in Owners : Root(config, k) = <<o, FALSE, k>>
        BY <1>3, <2>1, RootStruct, Distinct
    <2>3. PICK s : s = structs[<<o, FALSE, k>>]
        OBVIOUS
    <2>4. s \in [Fields -> Texts]
        BY <1>3, <2>1, <2>2, <2>3, RootStruct
    <2>5. OfRoot(config, k, f, s[f], unmounted')
        <3>1. OfRoot(config, k, f, s[f], unmounted)
            BY <1>3, <2>1, <2>2, <2>3 DEF SourceInv
        <3> QED BY <1>2, <1>3, <3>1 DEF OfRoot, OfOther
    <2>6. ASSUME NEW l \in Listeners, BeginListener(l)
          PROVE  OfRoot(config, k, f, structs'[<<o, FALSE, k>>][f], unmounted')
        <3>1. structs'[<<o, FALSE, k>>] =
                IF Given(l, FALSE, k) # None THEN OverStruct(Given(l, FALSE, k), s) ELSE s
            BY <2>2, <2>3, <2>6, ListenerBegun
        <3>2. CASE Given(l, FALSE, k) = None
            BY <2>5, <3>1, <3>2
        <3>3. CASE Given(l, FALSE, k) # None
            <4>1. PICK g : g = Given(l, FALSE, k)
                OBVIOUS
            <4>2. g \in [Fields -> Texts]
                BY <2>1, <3>3, <4>1, OwnStructs, Distinct
            <4>3. OverStruct(g, s)[f] \in {g[f], s[f]}
                BY <2>4, <4>2, OverStructFields
            <4>4. OfRoot(config, k, f, g[f], unmounted')
                <5>1. ConfigOf[l] = config /\ unmounted' = unmounted \ {l}
                    BY <2>6 DEF BeginListener, DataInvs, TypeInv, PlaceInv
                <5>2. l \in Owners \ ({File, config} \cup unmounted')
                    BY <2>1, <5>1, WorldsAssumption DEF WorldsAssumption, Owners
                <5>3. Given(File, FALSE, k) # None \/ Given(config, FALSE, k) # None
                    BY <1>3, <2>1, RootFacts DEF DataInv
                <5>4. Source(config, k, l, FALSE)
                    BY <3>3, <5>1, <5>3 DEF Source, Near
                <5> QED BY <4>1, <5>2, <5>4 DEF OfRoot, OfOther
            <4> QED BY <2>5, <3>1, <3>3, <4>1, <4>3, <4>4
        <3> QED BY <3>2, <3>3
    <2>7. CASE BeginHandler
        <3>1. \/ structs'[<<o, FALSE, k>>][f] = s[f]
              \/ OfHandler(config, k, f, structs'[<<o, FALSE, k>>][f])
            BY <2>3, <2>7, HandlerBegun
        <3>2. PICK v : v = structs'[<<o, FALSE, k>>][f]
            OBVIOUS
        <3>3. v = s[f] \/ OfHandler(config, k, f, v)
            BY <3>1, <3>2
        <3>4. OfRoot(config, k, f, v, unmounted')
            BY <2>5, <3>3 DEF OfRoot
        <3> QED BY <2>2, <3>2, <3>4
    <2>8. CASE ~Merging
        <3>1. structs' = structs
            BY <2>8, NothingWritten
        <3> QED BY <2>2, <2>3, <2>5, <3>1
    <2> QED BY <1>3, <2>2, <2>6, <2>7, <2>8 DEF Merging
<1> QED BY <1>1, <1>2, <1>3 DEF RootSourced

\* A listener that is begun uses the shared struct, or its own where there is none.
LEMMA UseBegun ==
    ASSUME DataInvs, SourceInv, NEW l \in Listeners, BeginListener(l)
    PROVE  UseSourced(l, frames'[1].config)
<1>1. /\ DataInv /\ world \in Worlds /\ pc = "mount" /\ l \in unmounted
      /\ config \in Configs \ todo /\ ConfigOf[l] = config
    BY DEF DataInvs, TypeInv, DataInv, PlaceInv, Mounting, BeginListener
<1> SUFFICES ASSUME NEW k \in Kinds, NEW f \in Fields, frames'[1].config.services[k] # None
             PROVE  OfListener(l, k, f, structs'[frames'[1].config.services[k]][f])
    BY DEF UseSourced
<1>2. frames'[1].config.services[k] = Over(Root(config, k), Own(l, k))
    BY ListenerBegun
<1>3. \A o \in Owners : structs'[<<o, FALSE, k>>] =
            IF Root(config, k) = <<o, FALSE, k>> /\ Given(l, FALSE, k) # None
            THEN OverStruct(Given(l, FALSE, k), structs[<<o, FALSE, k>>])
            ELSE structs[<<o, FALSE, k>>]
    BY ListenerBegun
<1>4. Expected(l, k) = OverStruct(Given(l, FALSE, k), OfDefaultsOf(config, k))
    BY <1>1 DEF Expected, OfDefaultsOf
<1>5. CASE Root(config, k) = None
    <2>1. Given(File, FALSE, k) = None /\ Given(config, FALSE, k) = None
        BY <1>1, <1>5, RootFacts
    <2>2. /\ frames'[1].config.services[k] = <<l, FALSE, k>> /\ Given(l, FALSE, k) # None
        BY <1>2, <1>5 DEF Over, Own
    <2>3. structs'[<<l, FALSE, k>>] = Given(l, FALSE, k)
        <3>1. Root(config, k) # <<l, FALSE, k>> /\ l \in Owners
            BY <1>5, BothPointers, Distinct
        <3>2. structs[<<l, FALSE, k>>] = Given(l, FALSE, k)
            BY DEF DataInvs, PointerInv
        <3> QED BY <1>3, <3>1, <3>2
    <2>4. Expected(l, k) = Given(l, FALSE, k)
        BY <1>4, <2>1, <2>2 DEF OfDefaultsOf, OverStruct
    <2> QED BY <2>2, <2>3, <2>4 DEF OfListener
<1>6. CASE Root(config, k) # None
    <2>1. PICK o \in Owners : Root(config, k) = <<o, FALSE, k>>
        BY <1>1, <1>6, RootStruct, Distinct
    <2>2. PICK s, d : s = structs[<<o, FALSE, k>>] /\ d = OfDefaultsOf(config, k)
        OBVIOUS
    <2>3. s \in [Fields -> Texts] /\ d \in [Fields -> Texts]
        BY <1>1, <1>6, <2>1, <2>2, RootStruct
    <2>4. frames'[1].config.services[k] = <<o, FALSE, k>>
        BY <1>2, <2>1, BothPointers DEF Over
    <2>5. \/ s[f] = d[f] \/ OfHandler(config, k, f, s[f])
          \/ OfOther(config, k, f, s[f], {File, config, l})
        <3>1. OfRoot(config, k, f, s[f], unmounted)
            BY <1>1, <1>6, <2>1, <2>2 DEF SourceInv, Mounting
        <3>2. {File, config, l} \subseteq {File, config} \cup unmounted
            BY <1>1
        <3> QED BY <2>2, <3>1, <3>2 DEF OfRoot, OfOther
    <2>6. CASE Given(l, FALSE, k) = None
        <3>1. structs'[<<o, FALSE, k>>] = s
            BY <1>3, <2>2, <2>6
        <3>2. Expected(l, k) = d /\ d # None
            BY <1>4, <2>2, <2>3, <2>6, Distinct DEF OverStruct
        <3>3. OfListener(l, k, f, s[f])
            BY <1>1, <2>5, <3>2 DEF OfListener
        <3> QED BY <2>4, <3>1, <3>3
    <2>7. CASE Given(l, FALSE, k) # None
        <3>1. PICK g, v : g = Given(l, FALSE, k) /\ v = OverStruct(g, s)[f]
            OBVIOUS
        <3>2. g \in [Fields -> Texts]
            BY <1>1, <2>7, <3>1, OwnStructs, Distinct
        <3>3. structs'[<<o, FALSE, k>>] = OverStruct(g, s)
            BY <1>3, <2>1, <2>2, <2>7, <3>1
        <3>4. /\ v = IF g[f] = None THEN s[f] ELSE g[f]
              /\ OverStruct(g, d)[f] = IF g[f] = None THEN d[f] ELSE g[f]
              /\ OverStruct(g, d) # None
            <4>1. OverStruct(g, s)[f] = IF g[f] = None THEN s[f] ELSE g[f]
                BY <2>3, <3>2, OverStructFields
            <4>2. /\ OverStruct(g, d)[f] = IF g[f] = None THEN d[f] ELSE g[f]
                  /\ OverStruct(g, d) # None
                BY <2>3, <3>2, OverStructFields
            <4> QED BY <3>1, <4>1, <4>2
        <3>5. Expected(l, k) = OverStruct(g, d)
            BY <1>4, <2>2, <3>1
        <3>6. OfListener(l, k, f, v)
            BY <1>1, <2>5, <3>4, <3>5 DEF OfListener
        <3> QED BY <2>4, <3>1, <3>3, <3>6
    <2> QED BY <2>6, <2>7
<1> QED BY <1>5, <1>6

LEMMA UseStep ==
    ASSUME DataInvs, SourceInv, Next, pc' \in Compiling
    PROVE  UseSourced(listener', frames'[1].config)
<1>1. ASSUME NEW l \in Listeners, BeginListener(l) PROVE UseSourced(listener', frames'[1].config)
    <2>1. listener' = l
        BY <1>1 DEF BeginListener
    <2> QED BY <1>1, <2>1, UseBegun
<1>2. ASSUME ~ \E l \in Listeners : BeginListener(l)
      PROVE  /\ pc \in Compiling /\ listener' = listener /\ frames'[1].config = frames[1].config
             /\ \A c \in Configs : ~BeginConfig(c)
    <2>1. ASSUME NEW c \in Configs, BeginConfig(c) PROVE FALSE
        BY <2>1 DEF BeginConfig, Compiling
    <2>2. ~LoadConfigs /\ ~EndConfig
        BY DEF LoadConfigs, EndConfig, Compiling
    <2>3. CASE BeginHandler \/ NoHandler \/ OpenStorage \/ OpenStorageFails \/ OpenDatabaseFails
        BY <2>1, <2>3, FirstFrame DEF DataInvs
    <2>4. CASE NoDatabase \/ OpenDatabase \/ DatabaseIsMissing
        BY <2>1, <2>4, Returned DEF DataInvs, Compiling
    <2> QED BY <1>2, <2>1, <2>2, <2>3, <2>4 DEF Next
<1>3. ASSUME ~ \E l \in Listeners : BeginListener(l), NEW k \in Kinds, NEW f \in Fields,
             frames[1].config.services[k] # None
      PROVE  OfListener(listener, k, f, structs'[frames[1].config.services[k]][f])
    <2>1. /\ DataInv /\ world \in Worlds /\ config \in Configs
          /\ listener \in Listeners /\ ConfigOf[listener] = config
        BY <1>2, <1>3 DEF DataInvs, TypeInv, DataInv, PlaceInv, Compiling, Mounting
    <2>2. PICK o \in Owners : frames[1].config.services[k] = <<o, FALSE, k>>
        <3>1. frames[1].config.services[k] = Over(Root(config, k), Own(listener, k))
            BY <1>2, <1>3 DEF DataInvs, PointerInv
        <3>2. CASE Root(config, k) = None
            BY <1>3, <2>1, <3>1, <3>2, Distinct DEF Over, Own
        <3>3. CASE Root(config, k) # None
            <4>1. PICK o \in Owners : Root(config, k) = <<o, FALSE, k>>
                BY <2>1, <3>3, RootStruct, Distinct
            <4> QED BY <3>1, <4>1, BothPointers DEF Over
        <3> QED BY <3>2, <3>3
    <2>3. OfListener(listener, k, f, structs[<<o, FALSE, k>>][f])
        BY <1>2, <1>3, <2>2 DEF SourceInv
    <2>4. CASE BeginHandler
        <3>1. PICK v : v = structs'[<<o, FALSE, k>>][f]
            OBVIOUS
        <3>2. v = structs[<<o, FALSE, k>>][f] \/ OfHandler(config, k, f, v)
            BY <2>4, <3>1, HandlerBegun
        <3>3. OfListener(listener, k, f, v)
            BY <2>1, <2>3, <3>2 DEF OfListener
        <3> QED BY <2>2, <3>1, <3>3
    <2>5. CASE ~Merging
        <3>1. structs' = structs
            BY <2>5, NothingWritten
        <3> QED BY <2>2, <2>3, <3>1
    <2> QED BY <1>2, <1>3, <2>4, <2>5 DEF Merging
<1> QED BY <1>1, <1>2, <1>3 DEF UseSourced

\* What a listener has opened for its storage, while it is compiled and after.
OpenedSourced ==
    /\ pc' \in Compiling /\ frames'[1].storage # None =>
            OfListener(listener', "storage", "address", frames'[1].storage)
    /\ \A l \in Listeners, k \in Kinds : compiled'[l] # None /\ compiled'[l][k] # None =>
            \A f \in FieldsOf(k) : OfListener(l, k, f,
                IF k = "storage" THEN compiled'[l].storage ELSE compiled'[l].database[f])

LEMMA OpenedStep ==
    ASSUME DataInvs, SourceInv, Next
    PROVE  OpenedSourced
<1> USE DEF Compiling
<1> DEFINE Storage == pc' \in Compiling /\ frames'[1].storage # None =>
                            OfListener(listener', "storage", "address", frames'[1].storage)
           Services ==
             \A l \in Listeners, k \in Kinds : compiled'[l] # None /\ compiled'[l][k] # None =>
                \A f \in FieldsOf(k) : OfListener(l, k, f,
                    IF k = "storage" THEN compiled'[l].storage ELSE compiled'[l].database[f])
<1> SUFFICES Storage /\ Services
    BY DEF OpenedSourced
<1>1. compiled' = compiled => Services
    BY DEF SourceInv, HasOpened, Opened
<1>2. ASSUME NEW k \in Kinds, NEW f \in Fields, pc \in Compiling,
             frames[1].config.services[k] # None
      PROVE  OfListener(listener, k, f, structs[frames[1].config.services[k]][f])
    BY <1>2 DEF SourceInv
<1>3. CASE LoadConfigs
    BY <1>1, <1>3 DEF LoadConfigs
<1>4. ASSUME NEW c \in Configs, BeginConfig(c) PROVE Storage /\ Services
    BY <1>1, <1>4 DEF BeginConfig
<1>5. ASSUME NEW l \in Listeners, BeginListener(l) PROVE Storage /\ Services
    <2>1. frames'[1].storage = None
        BY <1>5, ListenerBegun
    <2>2. compiled' = compiled
        BY <1>5 DEF BeginListener
    <2> QED BY <1>1, <2>1, <2>2
<1>6. CASE EndConfig
    <2>1. pc' \in {"serving", "ports"} /\ compiled' = compiled
        BY <1>6 DEF EndConfig
    <2> QED BY <1>1, <2>1
<1>7. CASE BeginHandler \/ NoHandler \/ OpenStorage \/ OpenStorageFails \/ OpenDatabaseFails
    <2>1. pc \in Compiling /\ UNCHANGED <<listener, compiled>>
        BY <1>7, FirstFrame DEF DataInvs
    <2>2. CASE frames'[1].storage = frames[1].storage
        BY <1>1, <2>1, <2>2 DEF SourceInv
    <2>3. CASE /\ frames[1].config.services["storage"] # None
               /\ frames'[1].storage = structs[frames[1].config.services["storage"]].address
        <3>1. OfListener(listener, "storage", "address",
                    structs[frames[1].config.services["storage"]]["address"])
            BY <1>2, <2>1, <2>3 DEF Kinds, Fields
        <3> QED BY <1>1, <2>1, <2>3, <3>1
    <2> QED BY <1>7, <2>2, <2>3, FirstFrame DEF DataInvs
<1>8. CASE NoDatabase \/ OpenDatabase \/ DatabaseIsMissing
    <2>1. pc = "database" /\ listener' = listener
        BY <1>8, Returned DEF DataInvs
    <2>2. CASE compiled' = compiled
        <3>1. \/ pc' = "storage" /\ frames'[1].storage = frames[1].storage
              \/ pc' \in {"panic", "mount"}
            BY <1>8, Returned DEF DataInvs
        <3> QED BY <1>1, <2>1, <2>2, <3>1 DEF SourceInv
    <2>3. ASSUME NEW r, compiled' = [compiled EXCEPT ![listener] = r], pc' = "mount",
                 r.storage = frames[1].storage,
                 \/ r.database = None
                 \/ /\ frames[1].config.services["database"] # None
                    /\ r.database = structs[frames[1].config.services["database"]]
          PROVE  Storage /\ Services
        <3>1. \A l \in Listeners : compiled'[l] = IF l = listener THEN r ELSE compiled[l]
            BY <2>3 DEF DataInvs, TypeInv, DataInv
        <3>2. r.storage # None => OfListener(listener, "storage", "address", r.storage)
            BY <2>1, <2>3 DEF SourceInv
        <3>3. r.database # None =>
                \A f \in Fields : OfListener(listener, "database", f, r.database[f])
            BY <1>2, <2>1, <2>3 DEF Kinds
        <3>4. ASSUME NEW l \in Listeners, NEW k \in Kinds, compiled'[l] # None,
                     compiled'[l][k] # None, NEW f \in FieldsOf(k)
              PROVE  OfListener(l, k, f,
                        IF k = "storage" THEN compiled'[l].storage ELSE compiled'[l].database[f])
            <4>1. CASE l # listener
                BY <3>1, <3>4, <4>1 DEF SourceInv, HasOpened, Opened
            <4>2. CASE l = listener /\ k = "storage"
                <5>1. f = "address" /\ compiled'[l].storage = r.storage /\ r.storage # None
                    BY <3>1, <3>4, <4>2 DEF FieldsOf
                <5> QED BY <3>2, <4>2, <5>1
            <4>3. CASE l = listener /\ k = "database"
                <5>1. f \in Fields /\ compiled'[l].database = r.database /\ r.database # None
                    BY <3>1, <3>4, <4>3 DEF FieldsOf
                <5> QED BY <3>3, <4>3, <5>1
            <4> QED BY <4>1, <4>2, <4>3 DEF Kinds
        <3> QED BY <2>3, <3>4
    <2> QED BY <1>8, <2>2, <2>3, Returned DEF DataInvs
<1> QED BY <1>3, <1>4, <1>5, <1>6, <1>7, <1>8 DEF Next

LEMMA SameOrigins ==
    ASSUME world' = world, NEW k, NEW f, NEW v, NEW x
    PROVE  /\ OfFile(k, f, v, x) => OfFile(k, f, v, x)'
           /\ \A c : OfRoot(c, k, f, v, x) => OfRoot(c, k, f, v, x)'
           /\ \A l : OfListener(l, k, f, v) => OfListener(l, k, f, v)'
<1>2. FileHandler' = FileHandler
    BY DEF FileHandler
<1>3. \A c, o, h : Source(c, k, o, h) => Source(c, k, o, h)'
    BY <1>2 DEF Source, Given
<1>4. \A c : /\ OfHandler(c, k, f, v) => OfHandler(c, k, f, v)'
             /\ \A y : OfOther(c, k, f, v, y) => OfOther(c, k, f, v, y)'
    BY <1>3 DEF OfHandler, OfOther, Given
<1>5. OfFile(k, f, v, x) => OfFile(k, f, v, x)'
    BY DEF OfFile, Given
<1>6. \A c : OfRoot(c, k, f, v, x) => OfRoot(c, k, f, v, x)'
    BY <1>4 DEF OfRoot, OfDefaultsOf, Given
<1>7. \A l : OfListener(l, k, f, v) => OfListener(l, k, f, v)'
    BY <1>4 DEF OfListener, Expected, Given
<1> QED BY <1>5, <1>6, <1>7

LEMMA Sourced ==
    ASSUME world' = world, FileSourced, pc' \in Mounting => RootSourced(config'),
           pc' \in Compiling => UseSourced(listener', frames'[1].config), OpenedSourced
    PROVE  SourceInv'
<1>1. ASSUME NEW k \in Kinds, Given(File, FALSE, k)' # None, NEW f \in Fields
      PROVE  OfFile(k, f, structs[<<File, FALSE, k>>][f], Outside)'
    <2>1. PICK v, x : v = structs'[<<File, FALSE, k>>][f] /\ x = Outside'
        OBVIOUS
    <2>2. OfFile(k, f, v, x)
        BY <1>1, <2>1 DEF FileSourced, Given
    <2>3. OfFile(k, f, v, x)'
        BY <2>2, SameOrigins
    <2> QED BY <2>1, <2>3 DEF OfFile
<1>2. ASSUME pc' \in Mounting, NEW k \in Kinds, Root(config, k)' # None, NEW f \in Fields
      PROVE  OfRoot(config, k, f, structs[Root(config, k)][f], unmounted)'
    <2>1. PICK c, v, x : c = config' /\ v = structs'[Root(c, k)][f] /\ x = unmounted'
        OBVIOUS
    <2>2. Root(config, k)' = Root(c, k)
        BY <2>1 DEF Root, Own, Given
    <2>3. OfRoot(c, k, f, v, x)
        BY <1>2, <2>1, <2>2 DEF RootSourced
    <2>4. OfRoot(c, k, f, v, x)'
        BY <2>3, SameOrigins
    <2> QED BY <2>1, <2>2, <2>4 DEF OfRoot, OfHandler, OfOther, OfDefaultsOf, Source
<1>3. ASSUME NEW l, NEW k \in Kinds, NEW f, NEW v, OfListener(l, k, f, v)
      PROVE  OfListener(l, k, f, v)'
    BY <1>3, SameOrigins
<1>4. ASSUME pc' \in Compiling, NEW k \in Kinds,
             frames'[1].config.services[k] # None, NEW f \in Fields
      PROVE  OfListener(listener, k, f, structs[frames[1].config.services[k]][f])'
    <2>1. PICK l, v : l = listener' /\ v = structs'[frames'[1].config.services[k]][f]
        OBVIOUS
    <2>2. OfListener(l, k, f, v)
        BY <1>4, <2>1 DEF UseSourced
    <2>3. OfListener(l, k, f, v)'
        BY <1>3, <2>2
    <2> QED BY <2>1, <2>3 DEF OfListener, OfHandler, OfOther, Source, Expected
<1>5. ASSUME pc' \in Compiling, frames'[1].storage # None
      PROVE  OfListener(listener, "storage", "address", frames[1].storage)'
    <2>1. PICK l, v : l = listener' /\ v = frames'[1].storage
        OBVIOUS
    <2>2. OfListener(l, "storage", "address", v)
        BY <1>5, <2>1 DEF OpenedSourced
    <2>3. OfListener(l, "storage", "address", v)'
        BY <1>3, <2>2 DEF Kinds
    <2> QED BY <2>1, <2>3 DEF OfListener, OfHandler, OfOther, Source, Expected
<1>6. ASSUME NEW l \in Listeners, NEW k \in Kinds, HasOpened(l, k)', NEW f \in FieldsOf(k)
      PROVE  OfListener(l, k, f, Opened(l, k, f))'
    <2>1. PICK v : v = IF k = "storage" THEN compiled'[l].storage ELSE compiled'[l].database[f]
        OBVIOUS
    <2>2. compiled'[l] # None /\ compiled'[l][k] # None
        BY <1>6 DEF HasOpened
    <2>3. OfListener(l, k, f, v)
        BY <2>1, <2>2 DEF OpenedSourced
    <2>4. OfListener(l, k, f, v)'
        BY <1>3, <2>3
    <2> QED BY <2>1, <2>4 DEF Opened, OfListener, OfHandler, OfOther
<1>7. /\ \A k \in Kinds : Given(File, FALSE, k)' # None =>
            \A f \in Fields : OfFile(k, f, structs[<<File, FALSE, k>>][f], Outside)'
      /\ pc' \in Mounting => \A k \in Kinds : Root(config, k)' # None =>
            \A f \in Fields : OfRoot(config, k, f, structs[Root(config, k)][f], unmounted)'
    BY <1>1, <1>2
<1>8. pc' \in Compiling => \A k \in Kinds : frames'[1].config.services[k] # None =>
            \A f \in Fields : OfListener(listener, k, f, structs[frames[1].config.services[k]][f])'
    BY <1>4
<1>9. \A l \in Listeners, k \in Kinds : HasOpened(l, k)' =>
            \A f \in FieldsOf(k) : OfListener(l, k, f, Opened(l, k, f))'
    BY <1>6
<1> QED BY <1>5, <1>7, <1>8, <1>9 DEF SourceInv

LEMMA SourceStep ==
    ASSUME DataInvs, SourceInv, Next
    PROVE  SourceInv'
BY WorldKept, FileStep, RootStep, UseStep, OpenedStep, Sourced
-----------------------------------------------------------------------------
(* What is missing: who has given no database.                             *)

Lacks(x, k) == x = None \/ handlers[x].services[k] = None

\* A handler has what it was given, and what the handlers merged into it were given.
HandlersHaveInv ==
    \A o \in Owners, k \in Kinds : handlers[o].services[k] = None => Given(o, TRUE, k) = None

DefaultsHaveInv ==
    \A c \in Configs, k \in Kinds : Lacks(defaults[c].handler, k) =>
        Given(c, TRUE, k) = None /\ (c \notin todo => Given(File, TRUE, k) = None)

CallsHaveInv ==
    pc \in Compiling =>
        /\ \A k \in Kinds : Lacks(frames[1].config.handler, k) =>
                \A o \in {File, config, listener} : Given(o, TRUE, k) = None
        /\ Len(frames) = 2 => \A k \in Kinds :
                frames[2].config.services[k] = None => NobodyGives(listener, k)
        /\ \A r \in frames[1].handler : Equipped(r)
        /\ /\ pc # "handler" /\ Len(frames) = 1
           /\ frames[1].config.handler # None /\ frames[1].handler = {}
           => NobodyGives(listener, "database")

MissingInv ==
    HandlersHaveInv /\ DefaultsHaveInv /\ CallsHaveInv /\ MissingOnlyWithoutDatabase

\* A merge takes nothing away, and the handler it leaves has what both have.
LEMMA MergeLacks ==
    ASSUME DataInv, NEW below, NEW top, Sound(below), Sound(top), Merge(below, top),
           NEW k \in Kinds
    PROVE  /\ \A o \in Owners : handlers'[o].services[k] = None => handlers[o].services[k] = None
           /\ \A x \in Owners \cup {None} : Lacks(x, k)' => Lacks(x, k)
           /\ Lacks(Merged(below, top).handler, k)' => Lacks(below.handler, k) /\ Lacks(top.handler, k)
<1>1. below.handler \in Owners \cup {None} /\ top.handler \in Owners \cup {None}
    BY DEF Sound, IsListenerConfig
<1>2. ASSUME BothHandle(below, top)
      PROVE  /\ handlers'[below.handler] = Merged(handlers[below.handler], handlers[top.handler])
             /\ \A o \in Owners : o # below.handler => handlers'[o] = handlers[o]
    BY <1>1, <1>2 DEF Merge, Handlers, DataInv, BothHandle
<1>3. ~BothHandle(below, top) => handlers' = handlers
    BY DEF Merge, Handlers
<1>4. \A a, b : Merged(a, b).services[k] = None => a.services[k] = None /\ b.services[k] = None
    BY DEF Merged, Over
<1>5. \A o \in Owners : handlers'[o].services[k] = None => handlers[o].services[k] = None
    BY <1>2, <1>3, <1>4
<1>6. \A x \in Owners \cup {None} : Lacks(x, k)' => Lacks(x, k)
    BY <1>5 DEF Lacks
<1>7. ASSUME Lacks(Merged(below, top).handler, k)'
      PROVE  Lacks(below.handler, k) /\ Lacks(top.handler, k)
    <2>1. Merged(below, top).handler
            = IF below.handler = None THEN top.handler ELSE below.handler
        BY DEF Merged, Over
    <2>2. CASE BothHandle(below, top)
        <3>1. handlers'[below.handler].services[k] = None
            BY <1>7, <2>1, <2>2 DEF Lacks, BothHandle
        <3> QED BY <1>2, <1>4, <2>2, <3>1 DEF Lacks
    <2>3. CASE ~BothHandle(below, top)
        BY <1>1, <1>6, <1>7, <2>1, <2>3 DEF Lacks, BothHandle
    <2> QED BY <2>2, <2>3
<1> QED BY <1>5, <1>6, <1>7

LEMMA DecodedLacks ==
    ASSUME HandlersHaveInv, NEW o \in Owners, NEW k \in Kinds,
           Lacks(Decoded(world, o, FALSE).handler, k)
    PROVE  Given(o, TRUE, k) = None
<1>1. Decoded(world, o, FALSE).handler = IF world.given[<<o, TRUE>>] = None THEN None ELSE o
    BY DEF Decoded
<1>2. CASE world.given[<<o, TRUE>>] = None
    BY <1>2 DEF Given
<1>3. CASE world.given[<<o, TRUE>>] # None
    BY <1>1, <1>3, Distinct DEF HandlersHaveInv, Lacks
<1> QED BY <1>2, <1>3

\* Every merge is one of sound configurations.
LEMMA MergesAre ==
    ASSUME DataInvs, Merging
    PROVE  \E below, top : Sound(below) /\ Sound(top) /\ Merge(below, top)
<1>1. ASSUME NEW c \in Configs, BeginConfig(c)
      PROVE  \E below, top : Sound(below) /\ Sound(top) /\ Merge(below, top)
    <2>1. Sound(Decoded(world, File, FALSE)) /\ Sound(defaults[c])
        BY DecodedSound, Distinct DEF DataInvs, TypeInv, DataInv
    <2> QED BY <1>1, <2>1 DEF BeginConfig
<1>2. ASSUME NEW l \in Listeners, BeginListener(l)
      PROVE  \E below, top : Sound(below) /\ Sound(top) /\ Merge(below, top)
    <2>1. Sound(Decoded(world, l, FALSE)) /\ Sound(defaults[config])
        BY <1>2, DecodedSound, Distinct
           DEF DataInvs, TypeInv, DataInv, PlaceInv, Mounting, BeginListener
    <2> QED BY <1>2, <2>1 DEF BeginListener
<1>3. ASSUME BeginHandler
      PROVE  \E below, top : Sound(below) /\ Sound(top) /\ Merge(below, top)
    <2>1. Sound(handlers[Top.config.handler]) /\ Sound(defaults[config])
        BY <1>3, TopFrame DEF DataInvs, TypeInv, DataInv, PlaceInv, Mounting, Compiling,
           BeginHandler, IsFrame, IsListenerConfig
    <2> QED BY <1>3, <2>1 DEF BeginHandler
<1> QED BY <1>1, <1>2, <1>3 DEF Merging

LEMMA LacksStep ==
    ASSUME DataInvs, Next, NEW k \in Kinds
    PROVE  /\ \A o \in Owners : handlers'[o].services[k] = None => handlers[o].services[k] = None
           /\ \A x \in Owners \cup {None} : Lacks(x, k)' => Lacks(x, k)
<1>1. CASE Merging
    BY <1>1, MergesAre, MergeLacks DEF DataInvs, TypeInv
<1>2. CASE ~Merging
    BY <1>2, NothingWritten DEF Lacks
<1> QED BY <1>1, <1>2

LEMMA HandlersHaveStep ==
    ASSUME DataInvs, HandlersHaveInv, Next
    PROVE  HandlersHaveInv'
BY WorldKept, LacksStep DEF HandlersHaveInv, Given

LEMMA DefaultsHaveStep ==
    ASSUME DataInvs, HandlersHaveInv, DefaultsHaveInv, Next
    PROVE  DefaultsHaveInv'
<1>1. world' = world /\ \A o, k : Given(o, TRUE, k)' = Given(o, TRUE, k)
    BY WorldKept DEF Given
<1>2. \A c \in Configs : defaults[c].handler \in Owners \cup {None}
    BY DEF DataInvs, TypeInv, DataInv, Sound, IsListenerConfig
<1>3. ASSUME NEW c \in Configs, BeginConfig(c) PROVE DefaultsHaveInv'
    <2>1. PICK below, top : below = Decoded(world, File, FALSE) /\ top = defaults[c]
        OBVIOUS
    <2>2. /\ Sound(below) /\ Sound(top) /\ Merge(below, top)
          /\ defaults'[c] = Merged(below, top)
          /\ \A d \in Configs : d # c => defaults'[d] = defaults[d]
          /\ todo' = todo \ {c}
        BY <1>3, <2>1, DecodedSound, Distinct DEF BeginConfig, DataInvs, TypeInv, DataInv
    <2>3. ASSUME NEW k \in Kinds, Lacks(defaults[c].handler, k)'
          PROVE  Given(c, TRUE, k) = None /\ Given(File, TRUE, k) = None
        <3>1. Lacks(Merged(below, top).handler, k)'
            BY <2>2, <2>3 DEF Lacks
        <3>2. Lacks(below.handler, k) /\ Lacks(top.handler, k)
            BY <2>2, <3>1, MergeLacks DEF DataInvs, TypeInv
        <3> QED BY <2>1, <3>2, DecodedLacks, Distinct DEF DefaultsHaveInv
    <2>4. ASSUME NEW d \in Configs, d # c, NEW k \in Kinds, Lacks(defaults[d].handler, k)'
          PROVE  Lacks(defaults[d].handler, k) /\ (d \notin todo' => d \notin todo)
        <3>1. PICK x \in Owners \cup {None} : x = defaults[d].handler
            BY <1>2
        <3>2. Lacks(x, k)'
            BY <2>2, <2>4, <3>1 DEF Lacks
        <3> QED BY <2>2, <2>4, <3>1, <3>2, MergeLacks DEF DataInvs, TypeInv
    <2>5. ASSUME NEW d \in Configs, NEW k \in Kinds, Lacks(defaults[d].handler, k)'
          PROVE  Given(d, TRUE, k) = None /\ (d \notin todo' => Given(File, TRUE, k) = None)
        <3>1. CASE d = c
            BY <2>3, <2>5, <3>1
        <3>2. CASE d # c
            BY <2>4, <2>5, <3>2 DEF DefaultsHaveInv
        <3> QED BY <3>1, <3>2
    <2> QED BY <1>1, <2>5 DEF DefaultsHaveInv, Lacks, Given
<1>4. CASE ~ \E c \in Configs : BeginConfig(c)
    <2>1. todo' = todo /\ \A c \in Configs : defaults'[c].handler = defaults[c].handler
        <3>1. CASE LoadConfigs
            BY <3>1 DEF LoadConfigs, Merged, DebugDefaults, Over
        <3>2. CASE ~LoadConfigs
            BY <1>4, <3>2 DEF Next, EndConfig, BeginListener, BeginHandler, NoHandler, OpenStorage,
               OpenStorageFails, NoDatabase, OpenDatabase, OpenDatabaseFails, DatabaseIsMissing
        <3> QED BY <3>1, <3>2
    <2>2. ASSUME NEW c \in Configs, NEW k \in Kinds, Lacks(defaults[c].handler, k)'
          PROVE  Lacks(defaults[c].handler, k)
        <3>1. PICK x \in Owners \cup {None} : x = defaults[c].handler
            BY <1>2
        <3>2. Lacks(x, k)'
            BY <2>1, <2>2, <3>1 DEF Lacks
        <3>3. Lacks(x, k)
            BY <3>2, LacksStep
        <3> QED BY <3>1, <3>3
    <2>3. ASSUME NEW c \in Configs, NEW k \in Kinds, Lacks(defaults[c].handler, k)'
          PROVE  Given(c, TRUE, k) = None /\ (c \notin todo' => Given(File, TRUE, k) = None)
        BY <2>1, <2>2, <2>3 DEF DefaultsHaveInv
    <2> QED BY <1>1, <2>3 DEF DefaultsHaveInv, Lacks, Given
<1> QED BY <1>3, <1>4

\* A call begins with what the defaults and the listener give.
LEMMA ListenerHas ==
    ASSUME DataInvs, HandlersHaveInv, DefaultsHaveInv, NEW l \in Listeners, BeginListener(l),
           NEW k \in Kinds, Lacks(frames[1].config.handler, k)'
    PROVE  \A o \in {File, config, l} : Given(o, TRUE, k) = None
<1>1. PICK below, top : below = defaults[config] /\ top = Decoded(world, l, FALSE)
    OBVIOUS
<1>2. /\ Sound(below) /\ Sound(top) /\ Merge(below, top) /\ config \in Configs \ todo
      /\ frames' = <<Frame(Merged(below, top))>>
    BY <1>1, DecodedSound, Distinct
       DEF BeginListener, DataInvs, TypeInv, DataInv, PlaceInv, Mounting
<1>3. Lacks(Merged(below, top).handler, k)'
    BY <1>2 DEF Lacks, Frame
<1>4. Lacks(below.handler, k) /\ Lacks(top.handler, k)
    BY <1>2, <1>3, MergeLacks DEF DataInvs, TypeInv
<1> QED BY <1>1, <1>2, <1>4, DecodedLacks, Distinct DEF DefaultsHaveInv

LEMMA HandlerHas ==
    ASSUME DataInvs, CallsHaveInv, BeginHandler,
           NEW k \in Kinds, frames'[2].config.services[k] = None
    PROVE  NobodyGives(listener, k)
<1>1. /\ pc = "handler" /\ frames = <<frames[1]>> /\ Top = frames[1]
      /\ config \in Configs \ todo /\ listener \in Listeners /\ ConfigOf[listener] = config
      /\ frames[1].config.handler \in Owners
    BY TopFrame DEF BeginHandler, DataInvs, TypeInv, PlaceInv, FrameInv, Mounting, Compiling,
       IsHandler, IsFrame, IsListenerConfig
<1>2. frames' = <<frames[1], Frame(AsHandler(Merged(defaults[config],
                                                    handlers[frames[1].config.handler])))>>
    BY <1>1, AppendFrame DEF BeginHandler
<1>3. frames'[2].config.services[k]
        = Over(defaults[config].services[k], handlers[frames[1].config.handler].services[k])
    <2>1. frames'[2].config = AsHandler(Merged(defaults[config],
                                               handlers[frames[1].config.handler]))
        BY <1>2 DEF Frame
    <2>2. \A a, b : AsHandler(Merged(a, b)).services[k] = Over(a.services[k], b.services[k])
        BY DEF AsHandler, Merged
    <2> QED BY <2>1, <2>2
<1>4. /\ defaults[config].services[k] = None
      /\ Lacks(frames[1].config.handler, k)
    BY <1>3 DEF Over, Lacks
<1>5. Given(File, FALSE, k) = None /\ Given(config, FALSE, k) = None
    <2>1. world \in Worlds /\ defaults[config].services[k] = Root(config, k)
        BY <1>1 DEF DataInvs, PointerInv, TypeInv, DataInv
    <2>2. Root(config, k) = None => Given(File, FALSE, k) = None /\ Given(config, FALSE, k) = None
        BY <1>1, <2>1, RootFacts
    <2> QED BY <1>4, <2>1, <2>2
<1>6. \A o \in {File, config, listener} : Given(o, TRUE, k) = None
    BY <1>1, <1>4 DEF CallsHaveInv, Compiling
<1> QED BY <1>1, <1>5, <1>6 DEF NobodyGives

LEMMA NobodyStill ==
    ASSUME world' = world
    PROVE  \A l, k : NobodyGives(l, k)' = NobodyGives(l, k)
BY DEF NobodyGives, Given

LEMMA StructOfTop ==
    ASSUME DataInvs, OpenDatabase
    PROVE  Struct("database") # None
BY TopFrame DEF DataInvs, TypeInv, OpenDatabase, Struct, Compiling, IsFrame, Leads, Kinds

LEMMA CallsHold ==
    ASSUME world' = world,
           \A k \in Kinds : Lacks(frames[1].config.handler, k)' =>
                \A o \in {File, config', listener'} : Given(o, TRUE, k) = None,
           Len(frames') = 2 => \A k \in Kinds :
                frames'[2].config.services[k] = None => NobodyGives(listener', k),
           \A r \in frames'[1].handler : Equipped(r),
           /\ pc' # "handler" /\ Len(frames') = 1
           /\ frames'[1].config.handler # None /\ frames'[1].handler = {}
           => NobodyGives(listener', "database")
    PROVE  CallsHaveInv'
<1>1. \A k \in Kinds : Lacks(frames[1].config.handler, k)' =>
            \A o \in {File, config', listener'} : Given(o, TRUE, k)' = None
    BY DEF Given
<1>2. Len(frames') = 2 => \A k \in Kinds :
            frames'[2].config.services[k] = None => NobodyGives(listener, k)'
    BY DEF NobodyGives, Given
<1>3. \A r \in frames'[1].handler : Equipped(r)'
    BY DEF Equipped, PluginsOf, EntriesOf
<1>4. /\ pc' # "handler" /\ Len(frames') = 1
      /\ frames'[1].config.handler # None /\ frames'[1].handler = {}
      => NobodyGives(listener, "database")'
    BY DEF NobodyGives, Given
<1> QED BY <1>1, <1>2, <1>3, <1>4 DEF CallsHaveInv

LEMMA CallsHaveStep ==
    ASSUME DataInvs, HandlersHaveInv, DefaultsHaveInv, CallsHaveInv, Next
    PROVE  CallsHaveInv'
<1> USE DEF Compiling
<1>0. world' = world
    BY WorldKept
<1>1. /\ \A l, k : NobodyGives(l, k)' = NobodyGives(l, k)
      /\ \A o, h, k : Given(o, h, k)' = Given(o, h, k)
    BY <1>0, NobodyStill DEF Given
<1>2. CASE pc' \notin Compiling
    BY <1>2 DEF CallsHaveInv
<1>3. ASSUME NEW l \in Listeners, BeginListener(l) PROVE CallsHaveInv'
    <2>1. \A k \in Kinds : Lacks(frames[1].config.handler, k)' =>
                \A o \in {File, config, l} : Given(o, TRUE, k) = None
        BY <1>3, ListenerHas
    <2>2. /\ pc' \in {"handler", "fatal"} /\ Len(frames') = 1 /\ frames'[1].handler = {}
          /\ listener' = l /\ config' = config
        BY <1>3 DEF BeginListener, Frame
    <2>3. CASE pc' = "fatal"
        BY <2>3 DEF CallsHaveInv
    <2>4. CASE pc' = "handler"
        <3>1. \A k \in Kinds : Lacks(frames[1].config.handler, k)' =>
                    \A o \in {File, config', listener'} : Given(o, TRUE, k) = None
            BY <2>1, <2>2
        <3>2. Len(frames') = 2 => \A k \in Kinds :
                    frames'[2].config.services[k] = None => NobodyGives(listener', k)
            BY <2>2
        <3>3. \A r \in frames'[1].handler : Equipped(r)
            BY <2>2
        <3>4. /\ pc' # "handler" /\ Len(frames') = 1
              /\ frames'[1].config.handler # None /\ frames'[1].handler = {}
              => NobodyGives(listener', "database")
            BY <2>4
        <3> QED BY <1>0, <3>1, <3>2, <3>3, <3>4, CallsHold
    <2> QED BY <2>2, <2>3, <2>4
<1>4. ASSUME pc \in Compiling, UNCHANGED <<config, listener>>,
             frames'[1].config = frames[1].config
      PROVE  \A k \in Kinds : Lacks(frames[1].config.handler, k)' =>
                \A o \in {File, config', listener'} : Given(o, TRUE, k) = None
    <2>1. PICK x \in Owners \cup {None} : x = frames[1].config.handler
        BY <1>4, TopFrame DEF DataInvs, TypeInv, IsFrame, IsListenerConfig
    <2>2. ASSUME NEW k \in Kinds, Lacks(frames[1].config.handler, k)'
          PROVE  Lacks(frames[1].config.handler, k)
        <3>1. Lacks(x, k)'
            BY <1>4, <2>1, <2>2 DEF Lacks
        <3>2. Lacks(x, k)
            BY <3>1, LacksStep
        <3> QED BY <2>1, <3>2
    <2> QED BY <1>1, <1>4, <2>2 DEF CallsHaveInv
<1>5. CASE BeginHandler
    <2>1. /\ pc = "handler" /\ frames = <<frames[1]>> /\ UNCHANGED <<config, listener>>
          /\ pc' \in {"storage", "fatal"}
        BY <1>5 DEF BeginHandler, DataInvs, TypeInv, FrameInv
    <2>2. PICK f : frames' = Append(frames, f)
        BY <1>5 DEF BeginHandler
    <2>3. frames' = <<frames[1], f>>
        BY <2>1, <2>2, AppendFrame
    <2>4. Len(frames') = 2 /\ frames'[1] = frames[1]
        BY <2>3
    <2>5. \A k \in Kinds : frames'[2].config.services[k] = None => NobodyGives(listener, k)
        BY <1>5, HandlerHas
    <2>6. \A k \in Kinds : Lacks(frames[1].config.handler, k)' =>
                \A o \in {File, config', listener'} : Given(o, TRUE, k) = None
        BY <1>4, <2>1, <2>4
    <2>7. Len(frames') = 2 => \A k \in Kinds :
                frames'[2].config.services[k] = None => NobodyGives(listener', k)
        BY <2>1, <2>5
    <2>8. \A r \in frames'[1].handler : Equipped(r)
        BY <2>1, <2>4 DEF CallsHaveInv
    <2>9. /\ pc' # "handler" /\ Len(frames') = 1
          /\ frames'[1].config.handler # None /\ frames'[1].handler = {}
          => NobodyGives(listener', "database")
        BY <2>4
    <2> QED BY <1>0, <2>6, <2>7, <2>8, <2>9, CallsHold
<1>6. CASE NoHandler
    <2>1. /\ pc = "handler" /\ pc' = "storage" /\ UNCHANGED <<config, listener, frames>>
          /\ Top = frames[1] /\ Top.config.handler = None
        BY <1>6, TopFrame DEF NoHandler, DataInvs, TypeInv, FrameInv, IsHandler
    <2> QED BY <1>1, <1>4, <2>1 DEF CallsHaveInv
<1>7. CASE OpenStorage
    <2>1. /\ pc = "storage" /\ pc' = "database" /\ UNCHANGED <<config, listener>>
          /\ Len(frames) \in {1, 2}
        BY <1>7, TopFrame DEF OpenStorage, DataInvs, TypeInv
    <2>2. /\ Len(frames') = Len(frames) /\ frames'[1].config = frames[1].config
          /\ frames'[1].handler = frames[1].handler
          /\ Len(frames) = 2 => frames'[2].config = frames[2].config
        <3>1. CASE frames' = frames
            BY <3>1
        <3>2. ASSUME NEW x, frames' = [frames EXCEPT ![Len(frames)].storage = x]
              PROVE  /\ Len(frames') = Len(frames) /\ frames'[1].config = frames[1].config
                     /\ frames'[1].handler = frames[1].handler
                     /\ Len(frames) = 2 => frames'[2].config = frames[2].config
            <4> DEFINE n == Len(frames)
            <4>1. /\ IsFrame(frames[n]) /\ n \in DOMAIN frames /\ n \in {1, 2}
                  /\ DOMAIN frames = 1..n /\ frames = [i \in 1..n |-> frames[i]]
                <5>1. /\ IsFrame(frames[n]) /\ n \in DOMAIN frames
                      /\ frames = <<frames[1]>> \/ frames = <<frames[1], frames[2]>>
                    BY <1>7, TopFrame DEF OpenStorage, DataInvs, TypeInv
                <5> QED BY <5>1
            <4>2. /\ DOMAIN frames' = 1..n
                  /\ \A i \in 1..n : frames'[i] =
                        IF i = n THEN [frames[i] EXCEPT !.storage = x] ELSE frames[i]
                BY <3>2, <4>1
            <4>3. frames' = [i \in 1..n |-> frames'[i]]
                BY <3>2, <4>1
            <4>4. Len(frames') = n
                BY <4>1, <4>3
            <4>5. /\ [frames[n] EXCEPT !.storage = x].config = frames[n].config
                  /\ [frames[n] EXCEPT !.storage = x].handler = frames[n].handler
                BY <4>1 DEF IsFrame
            <4> HIDE DEF n
            <4>6. \A i \in 1..n : /\ frames'[i].config = frames[i].config
                                  /\ frames'[i].handler = frames[i].handler
                BY <4>2, <4>5
            <4> QED BY <4>1, <4>4, <4>6 DEF n
        <3> QED BY <1>7, <3>1, <3>2 DEF OpenStorage
    <2> QED BY <1>1, <1>4, <2>1, <2>2 DEF CallsHaveInv
<1>8. ASSUME NoDatabase \/ OpenDatabase \/ DatabaseIsMissing, pc' \in Compiling
      PROVE  CallsHaveInv'
    <2>1. /\ pc = "database" /\ pc' = "storage" /\ UNCHANGED <<config, listener>>
          /\ frames'[1].config = frames[1].config
        BY <1>8, Returned DEF DataInvs
    <2>2. /\ IsHandler /\ Top = frames[2] /\ Len(frames) = 2 /\ IsFrame(frames[1])
        BY <1>8, <2>1, TopFrame
           DEF DataInvs, TypeInv, NoDatabase, OpenDatabase, DatabaseIsMissing, Return, IsHandler
    <2>3. \/ /\ frames'[1].handler = {} /\ Top.config.services["database"] = None
          \/ \E r : frames'[1].handler = {r} /\ Equipped(r)
        <3>1. ASSUME NEW x, frames' = <<[frames[1] EXCEPT !.handler = x]>>
              PROVE  frames'[1].handler = x
            BY <2>2, <3>1 DEF IsFrame
        <3>2. CASE DatabaseIsMissing
            BY <2>2, <3>1, <3>2 DEF DatabaseIsMissing, ReturnToListener
        <3>3. CASE NoDatabase
            <4>1. Equipped(Result(None))
                BY <3>3 DEF NoDatabase, Equipped, Result, NeedsDb
            <4> QED BY <2>2, <3>1, <3>3, <4>1 DEF NoDatabase, Return, ReturnToListener
        <3>4. CASE OpenDatabase
            <4>1. Equipped(Result(Struct("database")))
                BY <3>4, StructOfTop DEF OpenDatabase, Equipped, Result
            <4> QED BY <2>2, <3>1, <3>4, <4>1 DEF OpenDatabase, Return, ReturnToListener
        <3> QED BY <1>8, <3>2, <3>3, <3>4
    <2>4. Len(frames') = 1
        BY <1>8, <2>2 DEF NoDatabase, OpenDatabase, DatabaseIsMissing, Return, ReturnToListener
    <2>5. frames'[1].handler = {} => NobodyGives(listener, "database")
        BY <2>1, <2>2, <2>3 DEF CallsHaveInv, Kinds
    <2>6. \A r \in frames'[1].handler : Equipped(r)
        BY <2>3
    <2>7. \A k \in Kinds : Lacks(frames[1].config.handler, k)' =>
                \A o \in {File, config', listener'} : Given(o, TRUE, k) = None
        BY <1>4, <2>1
    <2>8. Len(frames') = 2 => \A k \in Kinds :
                frames'[2].config.services[k] = None => NobodyGives(listener', k)
        BY <2>4
    <2>9. \A r \in frames'[1].handler : Equipped(r)
        BY <2>6
    <2>10. /\ pc' # "handler" /\ Len(frames') = 1
          /\ frames'[1].config.handler # None /\ frames'[1].handler = {}
          => NobodyGives(listener', "database")
        BY <2>1, <2>5
    <2> QED BY <1>0, <2>7, <2>8, <2>9, <2>10, CallsHold
<1>9. CASE \/ LoadConfigs \/ EndConfig \/ OpenStorageFails \/ OpenDatabaseFails
           \/ \E c \in Configs : BeginConfig(c)
    BY <1>2, <1>9 DEF LoadConfigs, EndConfig, OpenStorageFails, OpenDatabaseFails, BeginConfig
<1> QED BY <1>2, <1>3, <1>5, <1>6, <1>7, <1>8, <1>9 DEF Next

LEMMA MissingStep ==
    ASSUME DataInvs, MissingInv, Next
    PROVE  MissingInv'
<1>1. HandlersHaveInv' /\ DefaultsHaveInv' /\ CallsHaveInv'
    BY HandlersHaveStep, DefaultsHaveStep, CallsHaveStep DEF MissingInv
<1>2. world' = world /\ \A l, k : NobodyGives(l, k)' = NobodyGives(l, k)
    BY WorldKept, NobodyStill
<1>3. CASE compiled' = compiled
    BY <1>1, <1>2, <1>3 DEF MissingInv, MissingOnlyWithoutDatabase
<1>4. CASE compiled' # compiled
    <2>1. /\ NoDatabase \/ OpenDatabase
          /\ pc = "database" /\ ~IsHandler
        BY <1>4 DEF Next, LoadConfigs, BeginConfig, EndConfig, BeginListener, BeginHandler,
           NoHandler, OpenStorage, OpenStorageFails, NoDatabase, OpenDatabase, OpenDatabaseFails,
           DatabaseIsMissing, Return, ReturnToListener
    <2>2. /\ Top = frames[1] /\ Len(frames) = 1
          /\ listener \in Listeners /\ ConfigOf[listener] = config
        BY <2>1, TopFrame DEF DataInvs, TypeInv, PlaceInv, IsHandler, Compiling
    <2>3. PICK d : /\ compiled' = [compiled EXCEPT ![listener] = Result(d)]
                   /\ Equipped(Result(d))
        <3>1. CASE NoDatabase
            <4>1. Equipped(Result(None))
                BY <3>1 DEF NoDatabase, Equipped, Result, NeedsDb
            <4> QED BY <2>1, <3>1, <4>1 DEF NoDatabase, Return
        <3>2. CASE OpenDatabase
            <4>1. Equipped(Result(Struct("database")))
                BY <3>2, StructOfTop DEF OpenDatabase, Equipped, Result
            <4> QED BY <2>1, <3>2, <4>1 DEF OpenDatabase, Return
        <3> QED BY <2>1, <3>1, <3>2
    <2>4. \A l \in Listeners : compiled'[l] = IF l = listener THEN Result(d) ELSE compiled[l]
        BY <2>2, <2>3 DEF DataInvs, TypeInv, DataInv
    <2>5. /\ \A r \in Result(d).handler : Equipped(r)
          /\ Result(d).config.handler # None /\ Result(d).handler = {} =>
                    NobodyGives(listener, "database")
        BY <2>1, <2>2 DEF MissingInv, CallsHaveInv, Compiling, Result
    <2>6. MissingOnlyWithoutDatabase'
        BY <1>2, <2>3, <2>4, <2>5 DEF MissingInv, MissingOnlyWithoutDatabase
    <2> QED BY <1>1, <2>6 DEF MissingInv
<1> QED BY <1>3, <1>4

-----------------------------------------------------------------------------
(* The theorems.                                                           *)

IInv == DataInvs /\ PlainInv /\ SourceInv /\ MissingInv

LEMMA Initially ==
    ASSUME Init
    PROVE  IInv
<1>1. world \in Worlds /\ pc = "load" /\ todo = Configs /\ frames = <<>>
    BY DEF Init
<1>2. \A o \in Owners, h \in BOOLEAN, k \in Kinds : structs[<<o, h, k>>] = Given(o, h, k)
    <2>1. ASSUME NEW o \in Owners, NEW h \in BOOLEAN, NEW k \in Kinds
          PROVE  structs[<<o, h, k>>] = Given(o, h, k)
        <3>1. <<o, h, k>> \in Pointers
            BY PointersAreTriples
        <3> QED BY <3>1 DEF Init, Given
    <2> QED BY <2>1
<1>3. DataInv
    <2>1. structs \in [Pointers -> MaybeStructs]
        <3>1. \A p \in Pointers : structs[p] \in MaybeStructs
            <4>1. ASSUME NEW p \in Pointers PROVE structs[p] \in MaybeStructs
                <5>1. PICK o \in Owners, h \in BOOLEAN, k \in Kinds : p = <<o, h, k>>
                    BY DEF Pointers
                <5>2. Given(o, h, k) \in MaybeStructs
                    BY <1>1, GivenTypes
                <5> QED BY <1>2, <5>1, <5>2
            <4> QED BY <4>1
        <3> QED BY <3>1 DEF Init
    <2>2. \A o \in Owners, h \in BOOLEAN, k \in Kinds :
                Given(o, h, k) # None => structs[<<o, h, k>>] # None
        BY <1>2
    <2>3. ASSUME NEW o \in Owners, NEW h \in BOOLEAN PROVE Sound(Decoded(world, o, h))
        <3>1. PICK d : d = Decoded(world, o, h)
            OBVIOUS
        <3>2. /\ IsListenerConfig(d)
              /\ \A k \in Kinds :
                    d.services[k] = IF Given(o, h, k) = None THEN None ELSE <<o, h, k>>
            BY <1>1, <3>1, DecodedTypes
        <3>3. \A k \in Kinds : d.services[k] # None =>
                structs[d.services[k]] # None /\ d.services[k][3] = k
            <4>1. ASSUME NEW k \in Kinds, d.services[k] # None
                  PROVE  structs[d.services[k]] # None /\ d.services[k][3] = k
                <5>1. d.services[k] = <<o, h, k>> /\ Given(o, h, k) # None
                    BY <3>2, <4>1
                <5>2. structs[<<o, h, k>>] # None
                    BY <2>2, <5>1
                <5> QED BY <5>1, <5>2
            <4> QED BY <4>1
        <3> QED BY <3>1, <3>2, <3>3 DEF Sound, Leads, KindsFit
    <2>4. \A o \in Owners : Sound(handlers[o]) /\ handlers[o].handler = None
        BY <2>3 DEF Init, Decoded
    <2>5. \A c \in Configs : Sound(defaults[c])
        BY <2>3, Distinct DEF Init
    <2> QED BY <2>1, <2>2, <2>4, <2>5 DEF DataInv, Init
<1>4. PlaceInv /\ FrameInv
    BY DEF Init, PlaceInv, FrameInv, Mounting, Compiling
<1>5. HandlerInv
    <2>1. ASSUME NEW o \in Owners, NEW k \in Kinds
          PROVE  /\ handlers[o].services[k] # None => handlers[o].services[k] = <<o, TRUE, k>>
                 /\ structs[<<o, TRUE, k>>] = Given(o, TRUE, k)
        BY <1>1, <1>2, DecodedTypes DEF Init
    <2>2. ASSUME NEW o \in Owners, NEW k \in Kinds, Given(o, TRUE, k) # None
          PROVE  Kin(o, o)
        <3>1. o = File => FileHandler
            BY <2>2 DEF Given, FileHandler
        <3>2. o \in Listeners => ConfigOf[o] \in Configs
            BY Distinct
        <3> QED BY <3>1, <3>2 DEF Kin, Near, Owners
    <2>3. ASSUME NEW o \in Owners, NEW k \in Kinds, handlers[o].services[k] # None
          PROVE  Kin(o, o)
        <3>1. handlers[o] = Decoded(world, o, TRUE)
            BY DEF Init
        <3>2. Given(o, TRUE, k) # None
            <4>1. Decoded(world, o, TRUE).services[k] =
                    IF Given(o, TRUE, k) = None THEN None ELSE <<o, TRUE, k>>
                BY DEF Decoded, Given
            <4> QED BY <2>3, <3>1, <4>1
        <3> QED BY <2>2, <3>2
    <2> QED BY <2>1, <2>2, <2>3 DEF HandlerInv
<1>6. OwnerInv /\ PointerInv
    <2>1. ASSUME NEW c \in Configs, NEW k \in Kinds
          PROVE  defaults[c].services[k] = Own(c, k)
        BY <1>1, DecodedTypes, Distinct DEF Init, Own
    <2>2. pc \notin Compiling
        BY <1>1 DEF Compiling
    <2>3. \A o \in Owners, k \in Kinds : structs[<<o, FALSE, k>>] = Given(o, FALSE, k)
        BY <1>2
    <2>4. \A c \in Configs : defaults[c].handler \in {None, c}
        BY DEF Init, Decoded
    <2>5. OwnerInv
        BY <2>2, <2>4 DEF OwnerInv, Near
    <2>6. PointerInv
        BY <1>1, <2>1, <2>2, <2>3, Distinct DEF PointerInv
    <2> QED BY <2>5, <2>6
<1>7. PlainInv
    <2>1. \A c \in Configs : \A p \in Plain : defaults[c].plain[p] = GivenPlain(c, p)
        BY <1>1, DecodedTypes, Distinct DEF Init
    <2> QED BY <1>1, <2>1 DEF Init, PlainInv, PlainFieldsByPrecedence, Compiling
<1>8. SourceInv
    <2>1. \A k \in Kinds : structs[<<File, FALSE, k>>] = Given(File, FALSE, k)
        BY <1>2, Distinct
    <2> QED BY <1>1, <2>1 DEF Init, SourceInv, OfFile, Mounting, Compiling, HasOpened
<1>9. MissingInv
    <2>1. ASSUME NEW o \in Owners, NEW k \in Kinds, handlers[o].services[k] = None
          PROVE  Given(o, TRUE, k) = None
        <3>1. handlers[o].services[k] = IF Given(o, TRUE, k) = None THEN None ELSE <<o, TRUE, k>>
            BY DEF Init, Decoded, Given
        <3> QED BY <2>1, <3>1, BothPointers
    <2>2. HandlersHaveInv
        BY <2>1 DEF HandlersHaveInv
    <2>3. ASSUME NEW c \in Configs, NEW k \in Kinds, Lacks(defaults[c].handler, k)
          PROVE  Given(c, TRUE, k) = None
        BY <2>2, <2>3, DecodedLacks, Distinct DEF Init
    <2> QED BY <1>1, <2>2, <2>3 DEF Init, MissingInv, DefaultsHaveInv, CallsHaveInv,
               MissingOnlyWithoutDatabase, Compiling
<1> QED BY <1>3, <1>4, <1>5, <1>6, <1>7, <1>8, <1>9 DEF IInv, DataInvs, TypeInv

\* Whatever the files say and in whatever order the maps are taken.
THEOREM Invariance == Spec => []IInv
<1>1. ASSUME IInv, Next PROVE IInv'
    BY <1>1, DataStep, PlaceStep, FrameStep, HandlerStep, OwnerStep, PointerStep, PlainStep,
       SourceStep, MissingStep
       DEF IInv, DataInvs, TypeInv
<1>2. ASSUME IInv, UNCHANGED vars PROVE IInv'
    <2>1. UNCHANGED <<world, pc, structs, handlers, defaults, todo, config, unmounted, listener>>
          /\ UNCHANGED <<frames, compiled>>
        BY <1>2 DEF vars
    <2>2. DataInv' /\ PlaceInv' /\ FrameInv'
        BY <1>2, <2>1 DEF IInv, DataInvs, TypeInv, DataInv, PlaceInv, FrameInv, Sound, Leads,
           IsFrame,
           Given
    <2>3. HandlerInv' /\ OwnerInv'
        BY ZenonT(60), <1>2, <2>1 DEF IInv, DataInvs, HandlerInv, OwnerInv, Kin, FileHandler, Given
    <2>4. PointerInv'
        <3>1. \A o, k : /\ Own(o, k)' = Own(o, k) /\ Root(o, k)' = Root(o, k)
                        /\ Given(o, FALSE, k)' = Given(o, FALSE, k)
            BY <2>1 DEF Own, Root, Given
        <3>2. \A c \in Configs, k \in Kinds :
                defaults'[c].services[k] = IF c \in todo' THEN Own(c, k)' ELSE Root(c, k)'
            BY <1>2, <2>1, <3>1 DEF IInv, DataInvs, PointerInv
        <3>3. pc' \in Compiling => \A k \in Kinds :
                frames'[1].config.services[k] = Over(Root(config, k), Own(listener, k))'
            BY ZenonT(60), <1>2, <2>1 DEF IInv, DataInvs, PointerInv, Over, Root, Own, Given
        <3>4. /\ \A l \in Listeners, k \in Kinds : structs'[<<l, FALSE, k>>] = Given(l, FALSE, k)'
              /\ \A c \in Configs, k \in Kinds : c \in todo' \/ Given(File, FALSE, k)' # None =>
                    structs'[<<c, FALSE, k>>] = Given(c, FALSE, k)'
            BY ZenonT(60), <1>2, <2>1, <3>1 DEF IInv, DataInvs, PointerInv
        <3> QED BY <3>2, <3>3, <3>4 DEF PointerInv
    <2>5. PlainInv'
        <3>1. \A o, p : /\ GivenPlain(o, p)' = GivenPlain(o, p)
                        /\ OfDefaults(o, p)' = OfDefaults(o, p) /\ OfConfig(o, p)' = OfConfig(o, p)
                        /\ DebugPlain(o, p)' = DebugPlain(o, p)
            BY <2>1 DEF OfDefaults, OfConfig, DebugPlain, GivenPlain
        <3> QED BY <1>2, <2>1, <3>1 DEF IInv, PlainInv, PlainFieldsByPrecedence
    <2>6. SourceInv'
        <3>1. unmounted' = unmounted /\ Outside' = Outside
            BY <2>1 DEF Outside
        <3>2. /\ FileSourced
              /\ pc' \in Mounting => RootSourced(config')
              /\ pc' \in Compiling => UseSourced(listener', frames'[1].config)
            BY <1>2, <2>1, <3>1 DEF IInv, SourceInv, FileSourced, RootSourced, UseSourced
        <3>3. OpenedSourced
            BY <1>2, <2>1 DEF IInv, SourceInv, OpenedSourced, HasOpened, Opened
        <3> QED BY <2>1, <3>2, <3>3, Sourced
    <2>7. MissingInv'
        <3>1. HandlersHaveInv'
            BY <1>2, <2>1 DEF IInv, MissingInv, HandlersHaveInv, Given
        <3>2. DefaultsHaveInv'
            BY <1>2, <2>1 DEF IInv, MissingInv, DefaultsHaveInv, Lacks, Given
        <3>3. CallsHaveInv'
            <4>1. CASE pc \notin Compiling
                BY <2>1, <4>1 DEF CallsHaveInv
            <4>2. CASE pc \in Compiling
                <5>1. CallsHaveInv
                    BY <1>2 DEF IInv, MissingInv
                <5>2. \A k \in Kinds : Lacks(frames[1].config.handler, k)' =>
                            \A o \in {File, config', listener'} : Given(o, TRUE, k) = None
                    BY <2>1, <4>2, <5>1 DEF CallsHaveInv, Lacks
                <5>3. Len(frames') = 2 => \A k \in Kinds :
                            frames'[2].config.services[k] = None => NobodyGives(listener', k)
                    BY <2>1, <4>2, <5>1 DEF CallsHaveInv
                <5>4. \A r \in frames'[1].handler : Equipped(r)
                    BY <2>1, <4>2, <5>1 DEF CallsHaveInv
                <5>5. /\ pc' # "handler" /\ Len(frames') = 1
                      /\ frames'[1].config.handler # None /\ frames'[1].handler = {}
                      => NobodyGives(listener', "database")
                    BY <2>1, <4>2, <5>1 DEF CallsHaveInv
                <5> QED BY <2>1, <5>2, <5>3, <5>4, <5>5, CallsHold
            <4> QED BY <4>1, <4>2
        <3>4. MissingOnlyWithoutDatabase'
            <4>1. \A l, k : NobodyGives(l, k)' = NobodyGives(l, k)
                BY <2>1, NobodyStill
            <4> QED BY <1>2, <2>1, <4>1 DEF IInv, MissingInv, MissingOnlyWithoutDatabase
        <3> QED BY <3>1, <3>2, <3>3, <3>4 DEF MissingInv
    <2> QED BY <2>2, <2>3, <2>4, <2>5, <2>6, <2>7 DEF IInv, DataInvs, TypeInv
<1> QED BY <1>1, <1>2, Initially, PTL DEF Spec

\* A pointer leads to a struct, and an error handler has none of its own.
THEOREM TypeCorrect == Spec => []TypeOK
<1>1. ASSUME IInv PROVE TypeOK
    <2>1. DataInv /\ PlaceInv /\ FrameInv
        BY <1>1 DEF IInv, DataInvs, TypeInv
    <2>2. pc \in Compiling => Len(frames) \in 1..2
        BY <2>1 DEF FrameInv
    <2> QED BY <2>1, <2>2
           DEF TypeOK, DataInv, PlaceInv, FrameInv, IsFrame, Leads, Sound, Mounting, Compiling
<1> QED BY <1>1, Invariance, PTL

\* What is not behind a pointer: the listener, else the configuration's defaults, else
\* its debug flag, else the file of defaults.
THEOREM PrecedenceHolds == Spec => []PlainFieldsByPrecedence
<1>1. ASSUME IInv PROVE PlainFieldsByPrecedence
    BY <1>1 DEF IInv, PlainInv
<1> QED BY <1>1, Invariance, PTL

\* A listener or an error handler whose plugins need a database has one, and a handler
\* goes missing only where nobody gave it one (compileListener).
THEOREM HandlersAreThere == Spec => []MissingOnlyWithoutDatabase
<1>1. IInv => MissingOnlyWithoutDatabase
    BY DEF IInv, MissingInv
<1> QED BY <1>1, Invariance, PTL

\* The body of SurprisesComeFromSharedDefaults, for one value.
Explained(l, k, f, v) ==
    \/ Expected(l, k) # None /\ v = Expected(l, k)[f]
    \/ \E o \in Owners, h \in BOOLEAN :
        /\ h \/ o \notin {File, ConfigOf[l], l}
        /\ Given(o, h, k) # None
        /\ v = Given(o, h, k)[f]
        /\ \/ Given(File, FALSE, k) # None
           \/ /\ Given(ConfigOf[l], FALSE, k) # None
              /\ \/ o \in {File, ConfigOf[l]}
                 \/ o \in Listeners /\ ConfigOf[o] = ConfigOf[l]
                 \/ h /\ world.given[<<File, TRUE>>] # None

\* What a listener opens is what the files say for it, or comes from somebody with whom
\* it shares a struct of the defaults.
THEOREM SurprisesExplained == Spec => []SurprisesComeFromSharedDefaults
<1>1. ASSUME IInv, NEW l \in Listeners, NEW k \in Kinds, HasOpened(l, k), NEW f \in FieldsOf(k)
      PROVE  Explained(l, k, f, Opened(l, k, f))
    <2>1. PICK v : v = Opened(l, k, f)
        OBVIOUS
    <2>2. OfListener(l, k, f, v)
        BY <1>1, <2>1 DEF IInv, SourceInv
    <2>3. ASSUME NEW o \in Owners, Source(ConfigOf[l], k, o, TRUE), v = Given(o, TRUE, k)[f]
          PROVE  Explained(l, k, f, v)
        BY <2>3 DEF Explained, Source, Near, FileHandler
    <2>4. ASSUME NEW o \in Owners \ {File, ConfigOf[l], l}, Source(ConfigOf[l], k, o, FALSE),
                 v = Given(o, FALSE, k)[f]
          PROVE  Explained(l, k, f, v)
        BY <2>4 DEF Explained, Source, Near
    <2>5. Explained(l, k, f, v)
        BY <2>2, <2>3, <2>4 DEF OfListener, OfHandler, OfOther, Explained
    <2> QED BY <2>1, <2>5
<1>2. ASSUME IInv PROVE SurprisesComeFromSharedDefaults
    BY <1>1, <1>2 DEF SurprisesComeFromSharedDefaults, Explained
<1> QED BY <1>2, Invariance, PTL
=============================================================================
