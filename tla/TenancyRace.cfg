\* Two shifts of one tenancy interleave: do the row locks keep the bed counts?
SPECIFICATION Spec
CONSTANTS
    Phones = {n1}
    Users = {u1}
    Rooms = {r1, r2, r3}
    Properties = {P1, P2}
    Tenancies = {t1}
    MoveReqs = {}
    ShiftReqs = {}
    Slots = {s1, s2}
    r1 = r1
    r2 = r2
    r3 = r3
    P1 = P1
    P2 = P2
    PropOf <- MCPropOf
    None = None
    MaxBeds = 1
    MaxCount = 2
    Handlers = {"createTenant",
                "shiftTenantRoom"}
SYMMETRY Symmetry
INVARIANT BedCountExact
