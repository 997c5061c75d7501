\* One request at a time: who holds which bed and owes what, through
\* onboarding, shifts, exits and returns.
SPECIFICATION Spec
CONSTANTS
    Phones = {n1, n2}
    Users = {u1, u2}
    Rooms = {r1, r2, r3}
    Properties = {P1, P2}
    Tenancies = {t1, t2}
    MoveReqs = {}
    ShiftReqs = {}
    Slots = {s1}
    r1 = r1
    r2 = r2
    r3 = r3
    P1 = P1
    P2 = P2
    PropOf <- MCPropOf
    None = None
    MaxBeds = 2
    MaxCount = 3
    Handlers = {"createTenant",
                "shiftTenantRoom",
                "confirmMoveIn",
                "deleteTenant",
                "revokeTenancyExit",
                "reActiveTenancy",
                "addDue",
                "updateTenantProfile"}
SYMMETRY Symmetry
INVARIANT BedCountExact
INVARIANT TenancyFollowsRoom
INVARIANT ExitedOwesNothing
INVARIANT MoveInConfirmedOnce
PROPERTY PhoneSharedOnlyByEdit
