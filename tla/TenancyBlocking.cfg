\* One request at a time: is PENDING a blocking status?
SPECIFICATION Spec
CONSTANTS
    Phones = {n1}
    Users = {u1}
    Rooms = {r1, r2}
    Properties = {P1}
    Tenancies = {t1, t2}
    MoveReqs = {}
    ShiftReqs = {}
    Slots = {s1}
    r1 = r1
    r2 = r2
    r3 = r3
    P1 = P1
    P2 = P2
    PropOf <- MCPropOf
    None = None
    MaxBeds = 1
    MaxCount = 2
    Handlers = {"createTenant",
                "confirmMoveIn",
                "deleteTenant"}
SYMMETRY Symmetry
INVARIANT OneBlockingTenancy
