CONSTANTS
    q1 = q1
    q2 = q2
    c1 = c1
    c2 = c2
    c3 = c3
    get = get
    post = post
    put = put
    other = other
    third = third
    p1 = p1
    p2 = p2
    p3 = p3
    p4 = p4
    None = None
    Ports = {q1, q2}
    Configs = {c1, c2, c3}
    PortOf <- MCPortOf
    Entries = {get, post, put, other, third}
    ConfigOf <- MCConfigOf
    Plugins = {p1, p2, p3, p4}
    PluginsOf <- MCPluginsOf
    Ids = {1, 2, 3, 4}
SPECIFICATION Spec
INVARIANTS
    NoDoubleOnStart
CHECK_DEADLOCK FALSE
