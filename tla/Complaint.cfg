\* Two requests interleave: permissions of staff, or complaints and their assignees.
SPECIFICATION Spec
CONSTANTS
    Owners = {o1, o2}
    Properties = {p1, p2, p3}
    o1 = o1
    o2 = o2
    p3 = p3
    OwnerOf <- MCOwnerOf
    Members = {u1}
    Rows = {i1, i2}
    Dtos <- MCDtos
    Complaints = {c1}
    Named = {"OPEN", "COMPLETED"}
    MaxPhotos = 2
    Slots = {s1, s2}
    Workloads <- MCWorkloads
    None = None
SYMMETRY Symmetry
INVARIANTS
    TypeOK
    RemovedHoldsNothing
    AccessOnlyByEmployment
    PagesAgree
    OneAssigneeOfTheOwner
    PhotosWithinLimit
    JobsCanStart
PROPERTIES
    AccessChangesOnlyAsNamed
    UnstatedPermissionsStay
    TenantEditsOnlyEditable
