CONSTANTS
    None = None
    File = File
    Handler = Handler
    c1 = c1
    c2 = c2
    l1 = l1
    l2 = l2
    l3 = l3
    Configs = {c1, c2}
    Listeners = {l1, l2, l3}
    ConfigOf <- MCConfigOf
    Worlds <- MCWorlds
    Texts = {None, File, Handler, c1, c2, l1, l2, l3}
SPECIFICATION Spec
INVARIANTS
    TypeOK
    PlainFieldsByPrecedence
    SurprisesComeFromSharedDefaults
    MissingOnlyWithoutDatabase
CHECK_DEADLOCK FALSE
