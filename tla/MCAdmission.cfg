\* Three concurrent requests over two versions of the rules.
CONSTANTS
    task = task
    a1 = a1
    r1 = r1
    r2 = r2
    r3 = r3
    u1 = u1
    k1 = k1
    m1 = m1
    responses = responses
    None = None
    Sections <- MCSections
    Values <- MCValues
    Periodic = task
    Admins = {a1}
    Requests = {r1, r2, r3}
    Users = {u1}
    Keys = {k1}
    Callers <- MCCallers
    Models = {m1}
    Endpoints = {responses}
    Switched = {responses}
SYMMETRY Symmetry
SPECIFICATION Spec
INVARIANTS TypeOK CountsExact LimitRespected
