\* One request at a time: the requests of one tenant and their decisions.
SPECIFICATION Spec
CONSTANTS
    Phones = {n1}
    Users = {u1}
    Rooms = {r1, r3}
    Properties = {P1, P2}
    Tenancies = {t1}
    MoveReqs = {m1, m2}
    ShiftReqs = {h1, h2}
    Slots = {s1}
    r1 = r1
    r2 = r2
    r3 = r3
    P1 = P1
    P2 = P2
    PropOf <- MCPropOf
    None = None
    MaxBeds = 2
    MaxCount = 2
    Handlers = {"createTenant",
                "updateTenancyDetails",
                "putOnNoticePeriod",
                "cancelNoticePeriod",
                "requestMoveOut",
                "approveMoveOutRequest",
                "rejectMoveOutRequest",
                "shiftTenantRoom",
                "requestRoomShift",
                "approveRoomShiftRequest",
                "rejectRoomShiftRequest",
                "confirmMoveIn",
                "deleteTenant",
                "revokeTenancyExit",
                "reActiveTenancy",
                "addDue",
                "editRoom"}
SYMMETRY Symmetry
INVARIANT TypeOK
INVARIANT BedCountExact
INVARIANT TenancyFollowsRoom
INVARIANT OneOpenRequest
PROPERTY DecisionsAreFinal
