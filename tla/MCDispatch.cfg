CONSTANTS
    Workers = {w1, w2}
    NoOne = noone
    Null = null
    Handlers = h
    Guild = g
    Me = me
    Channels = {c1, c2}
    Threads = {t1}
    Roles = {r1}
    Users = {u1}
    Born = {g, me, c1, r1, u1}
    Topics = {{c1, c2}, {r1}, {u1}, {me}, {t1}, {g}, {h}}
    MaxCalls = 1
    MaxEvents = 2
    MaxSessions = 2
SPECIFICATION Spec
INVARIANTS TypeOK CacheIsCurrent IndexIsComplete StartupIsSilent InteractionsArrive
CHECK_DEADLOCK FALSE
PROPERTIES Returns
