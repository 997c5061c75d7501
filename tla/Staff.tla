-------------------------------- MODULE Staff --------------------------------
(***************************************************************************)
(* Staff members of an owner: staff.service.ts. A profile has a scope, the *)
(* properties of a SELECTIVE one are access rows, and each row carries its *)
(* own app permissions; an ALL_PROPERTIES profile uses the permissions of  *)
(* the profile. The employee book says whose employee a member is.         *)
(*                                                                         *)
(* As in Tenancy, a handler reads and checks in one action (...Read), keeps *)
(* in req[s] what it remembers, and writes in another (...Commit).         *)
(* Owners call every handler; a member with the permission to manage staff *)
(* acts for its owner and can do nothing the owner could not.              *)
(*                                                                         *)
(* The module has no specification of its own: deleteStaff also writes     *)
(* complaints, so Complaint composes the two.                              *)
(***************************************************************************)
EXTENDS Integers, FiniteSets

CONSTANTS
    Owners,      \* property owners
    Properties,  \* properties
    OwnerOf,     \* the owner of each property
    Members,     \* pool of MaintenanceStaffProfile rows
    Rows,        \* pool of MaintenanceStaffPropertyAccess rows; ids are not reused
    Dtos,        \* bodies of updateStaffAppPermissions that are sent
    Complaints,  \* pool of Complaint rows
    Named,       \* statuses of a complaint that bodies name
    MaxPhotos,   \* MAX_COMPLAINT_PHOTOS, also the limit of files per request
    Slots,       \* requests in progress at the same time
    Workloads,   \* sets of handlers; the handlers of one of them are called
    None         \* SQL NULL, undefined

ASSUME OwnerOfAssumption == OwnerOf \in [Properties -> Owners]
ASSUME StaffNoneAssumption ==
    None \notin Owners \cup Properties \cup Members \cup Rows \cup Complaints

VARIABLES
    profile,   \* MaintenanceStaffProfile rows
    book,      \* EmployeeBook: the owner of each member
    access,    \* MaintenanceStaffPropertyAccess rows
    workload,  \* the handlers called in this behaviour, chosen at the start
    req,       \* what the handler running in each slot remembers
    raced      \* members and complaints about which two requests overlapped

staffVars == <<profile, book, access>>

Opt(S) == S \cup {None}
AllProperties == "ALL_PROPERTIES"
Selective == "SELECTIVE"

(* Modules of the app. The permissions of a row know only the first four.  *)
RowModules == {"rooms", "tenants", "finance", "complaints"}
Modules == RowModules \cup {"manageStaff", "ownerSettings"}
ActionNames ==
    {"view", "add", "edit", "delete", "handle", "viewDues", "editDues", "collectPayments",
     "viewExpenses", "addExpenses", "deleteDues", "deleteExpenses", "viewBusiness",
     "editBusiness", "viewBank", "editBank", "propertySettings"}

(* A JSON object of booleans: the keys it has and those that are true. A   *)
(* column holds one object per module; a missing one reads as empty. A     *)
(* body states the objects of some modules, or none at all.                *)
Json == {j \in [keys: SUBSET ActionNames, true: SUBSET ActionNames] : j.true \subseteq j.keys}
Empty == [keys |-> {}, true |-> {}]
Granular == [Modules -> Json]
Perm == [flags: SUBSET Modules, granular: Granular]
NoPerm == [flags |-> {}, granular |-> [m \in Modules |-> Empty]]
Dto == [flags: SUBSET Modules,
        granular: {None} \cup [stated: SUBSET Modules, json: Granular]]

ASSUME DtosAssumption == Dtos \subseteq Dto

RowPerm == {perm \in Perm : /\ perm.flags \subseteq RowModules
                            /\ \A m \in Modules \ RowModules : perm.granular[m] = Empty}

ProfileRow == [state: {"none", "active", "removed"}, scope: {AllProperties, Selective},
               perm: Perm]
NoProfile == [state |-> "none", scope |-> Selective, perm |-> NoPerm]
AccessRow == [state: {"none", "live", "gone"}, of: Opt(Members), prop: Opt(Properties),
              perm: RowPerm]
NoRow == [state |-> "none", of |-> None, prop |-> None, perm |-> NoPerm]
Gone == [NoRow EXCEPT !.state = "gone"]

-----------------------------------------------------------------------------
(* The checks staff members pass before a handler runs for their owner.    *)

(* A property may have been given twice: findFirst and take: 1 then pick   *)
(* any of the rows, and a check passes if it may pass.                     *)
RowsOf(u, p) == {i \in Rows : access[i].of = u /\ access[i].prop = p}
PropertiesOf(o) == {p \in Properties : OwnerOf[p] = o}

ResolveOwnerFromStaff(u) == book[u]

PropertyAccess(u, p) ==
    /\ profile[u].state # "none"
    /\ IF profile[u].scope = AllProperties THEN ResolveOwnerFromStaff(u) = OwnerOf[p]
                                           ELSE RowsOf(u, p) # {}

(* The permissions that may decide a check for a property.                 *)
Deciding(u, p) ==
    IF profile[u].scope = AllProperties THEN {profile[u].perm}
                                        ELSE {access[i].perm : i \in RowsOf(u, p)}

(* An object without keys restricts nothing within its module.             *)
Granted(json, a) == json.keys = {} \/ a \in json.true
Permits(perm, m, a) == m \in perm.flags /\ Granted(perm.granular[m], a)

RoomsModuleAccess(u, p, a) ==
    PropertyAccess(u, p) /\ \E perm \in Deciding(u, p) : Permits(perm, "rooms", a)
TenantsModuleAccess(u, p, a) ==
    PropertyAccess(u, p) /\ \E perm \in Deciding(u, p) : Permits(perm, "tenants", a)
FinanceModuleAccess(u, p, a) ==
    PropertyAccess(u, p) /\ \E perm \in Deciding(u, p) : Permits(perm, "finance", a)

(* Who may handle complaints may also view them.                           *)
ComplaintsModuleAccess(u, p, a) ==
    /\ PropertyAccess(u, p)
    /\ \E perm \in Deciding(u, p) :
        \/ Permits(perm, "complaints", a)
        \/ a = "view" /\ Permits(perm, "complaints", "handle")

(* Old profiles stored only the key delete, which counts as full access.   *)
ManageStaffGranularActionAllowed(json, a) ==
    Granted(json, a) \/ json.keys = {"delete"}

ManageStaffModuleAccess(u, a) ==
    /\ profile[u].state = "active"
    /\ "manageStaff" \in profile[u].perm.flags
    /\ ManageStaffGranularActionAllowed(profile[u].perm.granular["manageStaff"], a)
    /\ ResolveOwnerFromStaff(u) # None
ManageStaffProfileAccess(u, v, a) ==
    ManageStaffModuleAccess(u, a) /\ book[v] = ResolveOwnerFromStaff(u)
ManageStaffDeleteAccess(u, v) == ManageStaffProfileAccess(u, v, "delete")
ManageStaffUserAccess(u, v, a) ==
    profile[v].state # "none" /\ ManageStaffProfileAccess(u, v, a)
ManageStaffPropertyAccess(u, p, a) ==
    ManageStaffModuleAccess(u, a) /\ OwnerOf[p] = ResolveOwnerFromStaff(u)

(* The owner's personal profile stays closed whatever is granted.          *)
OwnerSettingsModuleAccess(u, a) ==
    /\ profile[u].state = "active"
    /\ "ownerSettings" \in profile[u].perm.flags
    /\ a \notin {"viewProfile", "editProfile"}
    /\ Granted(profile[u].perm.granular["ownerSettings"], a)
    /\ ResolveOwnerFromStaff(u) # None
OwnerSettingsPropertyAccess(u, p, a) ==
    /\ OwnerSettingsModuleAccess(u, a)
    /\ PropertyAccess(u, p)
    /\ OwnerOf[p] = ResolveOwnerFromStaff(u)

(* Checks that more than one permission satisfies. p is the property a     *)
(* tenancy, room, due or request was found to belong to.                   *)
RoomsOnlyMutant(u, p) == RoomsModuleAccess(u, p, "view")
RoomListAccessForPicker(u, p) ==
    \/ RoomsModuleAccess(u, p, "view")
    \/ TenantsModuleAccess(u, p, "add")
    \/ TenantsModuleAccess(u, p, "edit")
RentBookAccess(u, p) ==
    FinanceModuleAccess(u, p, "viewDues") \/ TenantsModuleAccess(u, p, "edit")
PropertyUnpaidDuesAccess(u, p) ==
    FinanceModuleAccess(u, p, "viewDues") \/ FinanceModuleAccess(u, p, "collectPayments")
TenantDuesReadAccess(u, p) ==
    PropertyUnpaidDuesAccess(u, p) \/ TenantsModuleAccess(u, p, "edit")
PropertyTenantListForFinanceAccess(u, p) ==
    \/ PropertyUnpaidDuesAccess(u, p)
    \/ ComplaintsModuleAccess(u, p, "add")
    \/ TenantsModuleAccess(u, p, "view")
TenantFinanceViewAccess(u, p) ==
    \/ FinanceModuleAccess(u, p, "viewDues")
    \/ FinanceModuleAccess(u, p, "collectPayments")
    \/ TenantsModuleAccess(u, p, "edit")
TenantUserModuleAccess(u, p, a) ==
    \/ a = "view" /\ FinanceModuleAccess(u, p, "collectPayments")
    \/ TenantsModuleAccess(u, p, a)
DueDeleteAccess(u, p) ==
    FinanceModuleAccess(u, p, "deleteDues") \/ TenantsModuleAccess(u, p, "delete")
DueFinanceAccess(u, p, a) ==
    \/ FinanceModuleAccess(u, p, a)
    \/ a = "viewDues" /\ FinanceModuleAccess(u, p, "collectPayments")

(* Checks of a request that names a room, tenancy, complaint, expense or   *)
(* request: p is the property of its row.                                  *)
TenantsModuleAccessForRoom(u, p, a) == TenantsModuleAccess(u, p, a)
TenancyModuleAccess(u, p, a) == TenantsModuleAccess(u, p, a)
MoveOutRequestAccess(u, p, a) == TenantsModuleAccess(u, p, a)
RoomShiftRequestAccess(u, p, a) == TenantsModuleAccess(u, p, a)
RoomInventoryAccess(u, p, a) == RoomsModuleAccess(u, p, a)
ComplaintModuleAccess(u, p, a) == ComplaintsModuleAccess(u, p, a)
ExpenseAccess(u, p) == FinanceModuleAccess(u, p, "addExpenses")
ExpenseDeleteAccess(u, p) == FinanceModuleAccess(u, p, "deleteExpenses")

(* q is the property of the room.                                          *)
RoomBelongsToProperty(u, q, p) == q = p /\ PropertyAccess(u, p)
RoomShiftAccess(u, p, q) ==
    TenancyModuleAccess(u, p, "edit") /\ RoomBelongsToProperty(u, q, p)

-----------------------------------------------------------------------------
(* What the pages show.                                                    *)

(* The properties a member's own profile lists, each with permissions.     *)
SelfProfile(u) ==
    IF profile[u].scope = AllProperties /\ ResolveOwnerFromStaff(u) # None
    THEN {<<p, NoPerm>> : p \in PropertiesOf(ResolveOwnerFromStaff(u))}
    ELSE {<<access[i].prop, access[i].perm>> : i \in {j \in Rows : access[j].of = u}}

MaintenanceStaffsByOwner(o) == {u \in Members : book[u] = o /\ profile[u].state = "active"}

(* The staff of a property, from which the assignee of a complaint is      *)
(* chosen: members with an access row, so none with an ALL scope but rows. *)
AllocatedStaff(p) == {access[i].of : i \in {j \in Rows : access[j].prop = p}}

-----------------------------------------------------------------------------
(* Requests.                                                               *)

Idle == [h |-> "idle", of |-> None, on |-> None, row |-> None, prop |-> None,
         owner |-> None, scope |-> Selective, add |-> {}, remove |-> {}, dto |-> None,
         granular |-> None, count |-> 0, photos |-> 0]

Begins(s, handler) == handler \in workload /\ req[s] = Idle
Runs(s, handler) == req[s].h = handler
Remember(s, r) == req' = [req EXCEPT ![s] = r]
Done(s) == req' = [req EXCEPT ![s] = Idle]

(* History: a request writes about a member or a complaint while another   *)
(* request about it is in progress.                                        *)
Subjects(r) == {r.of, r.on} \ {None}
Wrote(s, about) ==
    raced' = raced \cup (about \cap UNION {Subjects(req[x]) : x \in Slots \ {s}})

-----------------------------------------------------------------------------
(* createMaintenanceStaff: an ALL_PROPERTIES member may get rows as well.  *)
CreateMaintenanceStaffRead(s, o, scope, allowed) ==
    /\ Begins(s, "createMaintenanceStaff")
    /\ scope = Selective => allowed # {}
    /\ allowed \subseteq PropertiesOf(o)
    /\ Remember(s, [Idle EXCEPT !.h = "createMaintenanceStaff", !.owner = o,
                                !.scope = scope, !.add = allowed])
    /\ UNCHANGED <<staffVars, raced>>

(* createMany: one new row without permissions for u in each of ps.        *)
NewRows(rows, u, ps) ==
    {[i \in Rows |-> IF \E p \in ps : at[p] = i
                     THEN [state |-> "live", of |-> u, perm |-> NoPerm,
                           prop |-> CHOOSE p \in ps : at[p] = i]
                     ELSE rows[i]] :
     at \in {f \in [ps -> {i \in Rows : rows[i] = NoRow}] :
               \A p, q \in ps : f[p] = f[q] => p = q}}
(* deleteMany: the rows of u in ps.                                        *)
DeletedMutant(rows, u, ps) == rows
Deleted(rows, u, ps) ==
    [i \in Rows |-> IF rows[i].of = u /\ rows[i].prop \in ps THEN Gone ELSE rows[i]]

(* validateOwnertoEmployeeMapping: some owner has u in the book and is the  *)
(* one who calls.                                                          *)
InBook(u) == book[u] # None

CreateMaintenanceStaffCommit(s) ==
    /\ Runs(s, "createMaintenanceStaff")
    /\ \E u \in {v \in Members : profile[v] = NoProfile} :
        /\ profile' = [profile EXCEPT ![u] = [state |-> "active", scope |-> req[s].scope,
                                              perm |-> NoPerm]]
        /\ book' = [book EXCEPT ![u] = req[s].owner]
        /\ access' \in NewRows(access, u, req[s].add)
    /\ Done(s)
    /\ UNCHANGED raced

-----------------------------------------------------------------------------
(* editStaffAccess: a removal from an ALL_PROPERTIES member only switches  *)
(* the scope; the member keeps the rows it happens to have. Nothing stops  *)
(* an addition of a property that was added before.                        *)
EditStaffAccessRead(s, u, add, remove) ==
    /\ Begins(s, "editStaffAccess")
    /\ InBook(u)
    /\ add \cup remove \subseteq PropertiesOf(book[u])
    /\ Remember(s, [Idle EXCEPT !.h = "editStaffAccess", !.of = u, !.scope = profile[u].scope,
                                !.add = add, !.remove = remove])
    /\ UNCHANGED <<staffVars, raced>>

NarrowsMutant(s) == req[s].scope = AllProperties
Narrows(s) == req[s].scope = AllProperties /\ req[s].remove # {}

EditStaffAccessCommit(s) ==
    LET u == req[s].of
        kept == Deleted(access, u, req[s].remove)
    IN  /\ Runs(s, "editStaffAccess")
        /\ profile' = IF Narrows(s) THEN [profile EXCEPT ![u].scope = Selective] ELSE profile
        /\ access' \in IF Narrows(s) THEN {kept} ELSE NewRows(kept, u, req[s].add)
        /\ Wrote(s, Subjects(req[s])) /\ Done(s)
        /\ UNCHANGED book

-----------------------------------------------------------------------------
(* deleteStaff; its effect on complaints is added in Complaint.            *)
DeleteStaffRead(s, u) ==
    /\ Begins(s, "deleteStaff")
    /\ InBook(u)
    /\ Remember(s, [Idle EXCEPT !.h = "deleteStaff", !.of = u])
    /\ UNCHANGED <<staffVars, raced>>

DeleteStaffCommit(s) ==
    LET u == req[s].of
    IN  /\ Runs(s, "deleteStaff")
        /\ access' = Deleted(access, u, Properties)
        /\ book' = [book EXCEPT ![u] = None]
        /\ profile' = [profile EXCEPT ![u].state = "removed"]
        /\ Wrote(s, Subjects(req[s])) /\ Done(s)

-----------------------------------------------------------------------------
(* updateStaffAppPermissions is two handlers here.  With a property it is  *)
(* updateRowPermissions: it writes the flags of the row and its granular   *)
(* permissions, without the modules a row does not know.                   *)
StripGlobalOnlyFromGranular(granular) ==
    [m \in Modules |-> IF granular # None /\ m \in RowModules \cap granular.stated
                       THEN granular.json[m] ELSE Empty]
IncomingOnlyMutant(existing, incoming) == incoming
UnstatedResetMutant(existing, incoming) ==
    [m \in Modules |-> IF m \in incoming.stated THEN incoming.json[m] ELSE Empty]
MergeGranularPermissions(existing, incoming) ==
    [m \in Modules |-> IF m \in incoming.stated THEN incoming.json[m] ELSE existing[m]]

UpdateRowPermissionsRead(s, u, p, dto) ==
    /\ Begins(s, "updateRowPermissions")
    /\ profile[u].state = "active" /\ InBook(u)
    /\ \E i \in RowsOf(u, p) :
        Remember(s, [Idle EXCEPT !.h = "updateRowPermissions", !.of = u, !.row = i, !.prop = p,
                                 !.dto = dto])
    /\ UNCHANGED <<staffVars, raced>>

(* The update is by the row's id and fails if the row is gone.             *)
UpdateRowPermissionsCommit(s) ==
    /\ Runs(s, "updateRowPermissions")
    /\ access[req[s].row].state = "live"
    /\ access' = [access EXCEPT ![req[s].row].perm =
                    [flags |-> req[s].dto.flags \cap RowModules,
                     granular |-> StripGlobalOnlyFromGranular(req[s].dto.granular)]]
    /\ Wrote(s, Subjects(req[s])) /\ Done(s)
    /\ UNCHANGED <<profile, book>>

(* For the profile: stated modules replace those of the object read before. *)
UpdateProfilePermissionsRead(s, u, dto) ==
    /\ Begins(s, "updateProfilePermissions")
    /\ profile[u].state = "active" /\ InBook(u)
    /\ Remember(s, [Idle EXCEPT !.h = "updateProfilePermissions", !.of = u, !.dto = dto,
                                !.granular = profile[u].perm.granular])
    /\ UNCHANGED <<staffVars, raced>>

UpdateProfilePermissionsCommit(s) ==
    LET u == req[s].of
        dto == req[s].dto
    IN  /\ Runs(s, "updateProfilePermissions")
        /\ profile' = [profile EXCEPT ![u].perm =
             [flags |-> dto.flags,
              granular |-> IF dto.granular = None THEN @.granular
                           ELSE MergeGranularPermissions(req[s].granular, dto.granular)]]
        /\ Wrote(s, Subjects(req[s])) /\ Done(s)
        /\ UNCHANGED <<book, access>>

-----------------------------------------------------------------------------
StaffReads(s) ==
    \/ \E o \in Owners, scope \in {AllProperties, Selective}, ps \in SUBSET Properties :
        CreateMaintenanceStaffRead(s, o, scope, ps)
    \/ \E u \in Members :
        \/ \E add, remove \in SUBSET Properties : EditStaffAccessRead(s, u, add, remove)
        \/ DeleteStaffRead(s, u)
        \/ \E p \in Properties, dto \in Dtos : UpdateRowPermissionsRead(s, u, p, dto)
        \/ \E dto \in Dtos : UpdateProfilePermissionsRead(s, u, dto)

StaffCommits(s) ==
    \/ CreateMaintenanceStaffCommit(s)
    \/ EditStaffAccessCommit(s)
    \/ UpdateRowPermissionsCommit(s)
    \/ UpdateProfilePermissionsCommit(s)
==============================================================================
