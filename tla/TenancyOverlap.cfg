\* Two requests interleave: which of them may overbook a room, and what
\* happens to the move-out date of a shared profile.
SPECIFICATION Spec
CONSTANTS
    Phones = {n1}
    Users = {u1}
    Rooms = {r1, r2}
    Properties = {P1}
    Tenancies = {t1, t2}
    MoveReqs = {}
    ShiftReqs = {}
    Slots = {s1, s2}
    r1 = r1
    r2 = r2
    r3 = r3
    P1 = P1
    P2 = P2
    PropOf <- MCPropOf
    None = None
    MaxBeds = 1
    MaxCount = 2
    Handlers = {"createTenant",
                "updateTenancyDetails",
                "putOnNoticePeriod",
                "cancelNoticePeriod",
                "shiftTenantRoom",
                "deleteTenant",
                "revokeTenancyExit",
                "reActiveTenancy",
                "editRoom"}
SYMMETRY RoomSymmetry
INVARIANT NoticeDateLostOnlyBySharing
PROPERTY OverbookedOnlyByReturn
