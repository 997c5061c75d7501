------------------------------- MODULE Complaint -------------------------------
(***************************************************************************)
(* Complaints: complaint.service.ts, composed with the staff they are      *)
(* assigned to. Owners and members with access to complaints raise and     *)
(* handle them, tenants raise and edit them. Photos are uploaded to S3     *)
(* one by one before their rows are inserted, which keeps a request that   *)
(* has counted the photos of a complaint waiting for a long time.          *)
(***************************************************************************)
EXTENDS Endpoints

VARIABLE complaint    \* Complaint rows with the number of their photos

vars == <<profile, book, access, workload, req, raced, complaint>>

Statuses == {"OPEN", "ASSIGNED", "IN_PROGRESS", "COMPLETED", "CANCELLED"}
NonEditableStatuses == Statuses \ {"OPEN"}
ComplaintRow == [status: Statuses \cup {None}, prop: Opt(Properties), tenants: BOOLEAN,
                 staff: Opt(Members), owner: Opt(Owners), photos: Nat, edited: BOOLEAN]
NoComplaint == [status |-> None, prop |-> None, tenants |-> FALSE, staff |-> None,
                owner |-> None, photos |-> 0, edited |-> FALSE]
Exists(c) == complaint[c].status # None

HandlerNames ==
    {"createMaintenanceStaff", "editStaffAccess", "deleteStaff", "updateRowPermissions",
     "updateProfilePermissions", "createComplaintByOwner", "createComplaintByTenant", "insertPhotos", "assignMaintenanceStaff", "changeStatus",
     "editComplaintByTenant", "addComplaintPhotos"}
ASSUME WorkloadsAssumption == Workloads \subseteq SUBSET HandlerNames
ASSUME NamedAssumption == Named \subseteq Statuses
ASSUME StatusAssumption == None \notin Statuses
ASSUME PhotosAssumption == MaxPhotos \in Nat \ {0}
ASSUME SlotsAssumption == IsFiniteSet(Slots)

Request ==
    [h: HandlerNames \cup {"idle"}, of: Opt(Members), on: Opt(Complaints), row: Opt(Rows),
     prop: Opt(Properties), owner: Opt(Owners), scope: {AllProperties, Selective},
     add: SUBSET Properties, remove: SUBSET Properties, dto: Opt(Dtos),
     granular: Opt(Granular), count: Nat, photos: Nat]

Init ==
    /\ profile = [u \in Members |-> NoProfile]
    /\ book = [u \in Members |-> None]
    /\ access = [i \in Rows |-> NoRow]
    /\ complaint = [c \in Complaints |-> NoComplaint]
    /\ workload \in Workloads
    /\ req = [s \in Slots |-> Idle]
    /\ raced = {}

-----------------------------------------------------------------------------
(* createComplaintByOwner: in the owner's or a tenant's name, with an       *)
(* assignee and a status of the caller's choice. What the checks do not    *)
(* look at (status, tenant, number of photos) is chosen at the commit; it  *)
(* is a bound that only workloads with insertPhotos raise complaints of    *)
(* tenants or with photos.                                                 *)
CreateComplaintByOwnerRead(s, p, u, self) ==
    /\ Begins(s, "createComplaintByOwner")
    /\ ~(self /\ u # None)
    /\ u # None => book[u] = OwnerOf[p]
    /\ Remember(s, [Idle EXCEPT !.h = "createComplaintByOwner", !.prop = p, !.of = u,
                                !.owner = IF self THEN OwnerOf[p] ELSE None])
    /\ UNCHANGED <<staffVars, complaint, raced>>

(* createComplaintByTenant, by a tenant living in p: OPEN, with nobody.    *)
CreateComplaintByTenantRead(s, p) ==
    /\ Begins(s, "createComplaintByTenant")
    /\ Remember(s, [Idle EXCEPT !.h = "createComplaintByTenant", !.prop = p])
    /\ UNCHANGED <<staffVars, complaint, raced>>

CreateComplaintCommit(s, c, status, tenants, n) ==
    /\ \/ Runs(s, "createComplaintByOwner")
       \/ Runs(s, "createComplaintByTenant") /\ status = "OPEN" /\ tenants
    /\ n > 0 \/ tenants => "insertPhotos" \in workload
    /\ ~Exists(c)
    /\ complaint' = [complaint EXCEPT ![c] =
         [NoComplaint EXCEPT !.status = status, !.prop = req[s].prop, !.tenants = tenants,
                             !.staff = req[s].of, !.owner = req[s].owner]]
    /\ IF n = 0 THEN Done(s)
       ELSE Remember(s, [Idle EXCEPT !.h = "insertPhotos", !.on = c, !.photos = n])
    /\ Wrote(s, Subjects(req[s]))
    /\ UNCHANGED staffVars

(* The photos of a new complaint are inserted one at a time, without a     *)
(* transaction.                                                            *)
InsertPhoto(s) ==
    /\ Runs(s, "insertPhotos")
    /\ complaint' = [complaint EXCEPT ![req[s].on].photos = @ + 1]
    /\ IF req[s].photos = 1 THEN Done(s)
       ELSE Remember(s, [req[s] EXCEPT !.photos = @ - 1])
    /\ Wrote(s, Subjects(req[s]))
    /\ UNCHANGED staffVars

-----------------------------------------------------------------------------
(* assignMaintenanceStaff reopens whatever was closed.                     *)
BuildAssignToOwnerUpdate(c, o) ==
    [complaint EXCEPT ![c].owner = o, ![c].staff = None, ![c].status = "ASSIGNED"]
BuildAssignToStaffUpdateMutant(c, u) ==
    [complaint EXCEPT ![c].staff = u, ![c].status = "ASSIGNED"]
BuildAssignToStaffUpdate(c, u) ==
    [complaint EXCEPT ![c].staff = u, ![c].owner = None, ![c].status = "ASSIGNED"]

(* u is None when the owner takes the complaint.                           *)
AssignMaintenanceStaffRead(s, c, u) ==
    /\ Begins(s, "assignMaintenanceStaff")
    /\ Exists(c)
    /\ u # None => book[u] = OwnerOf[complaint[c].prop]
    /\ Remember(s, [Idle EXCEPT !.h = "assignMaintenanceStaff", !.on = c, !.of = u,
                                !.owner = OwnerOf[complaint[c].prop]])
    /\ UNCHANGED <<staffVars, complaint, raced>>

AssignMaintenanceStaffCommit(s) ==
    /\ Runs(s, "assignMaintenanceStaff")
    /\ complaint' = IF req[s].of = None THEN BuildAssignToOwnerUpdate(req[s].on, req[s].owner)
                                        ELSE BuildAssignToStaffUpdate(req[s].on, req[s].of)
    /\ Wrote(s, Subjects(req[s])) /\ Done(s)
    /\ UNCHANGED staffVars

(* One blind update, from any status to any other.                         *)
ChangeStatus(s, c, status) ==
    /\ Begins(s, "changeStatus")
    /\ Exists(c)
    /\ complaint' = [complaint EXCEPT ![c].status = status]
    /\ Wrote(s, {c})
    /\ UNCHANGED <<staffVars, req>>

-----------------------------------------------------------------------------
(* editComplaintByTenant writes the text first and looks at the limit of   *)
(* photos, with the number it read before, only then.                      *)
EditableMutant(c) == TRUE
Editable(c) == complaint[c].status \notin NonEditableStatuses
FitMutant(count, n) == TRUE
Fit(count, n) == count + n <= MaxPhotos

EditComplaintByTenantRead(s, c, n) ==
    /\ Begins(s, "editComplaintByTenant")
    /\ Exists(c) /\ complaint[c].tenants /\ Editable(c)
    /\ Remember(s, [Idle EXCEPT !.h = "editComplaintByTenant", !.on = c,
                                !.count = complaint[c].photos, !.photos = n])
    /\ UNCHANGED <<staffVars, complaint, raced>>

EditComplaintByTenantWrite(s) ==
    /\ Runs(s, "editComplaintByTenant")
    /\ complaint' = [complaint EXCEPT ![req[s].on].edited = TRUE]
    /\ IF req[s].photos > 0 /\ Fit(req[s].count, req[s].photos)
       THEN Remember(s, [req[s] EXCEPT !.h = "addComplaintPhotos"])
       ELSE Done(s)
    /\ Wrote(s, Subjects(req[s]))
    /\ UNCHANGED staffVars

(* addComplaintPhotos, by the owner of the property.                       *)
AddComplaintPhotosRead(s, c, n) ==
    /\ Begins(s, "addComplaintPhotos")
    /\ Exists(c) /\ n > 0 /\ Fit(complaint[c].photos, n)
    /\ Remember(s, [Idle EXCEPT !.h = "addComplaintPhotos", !.on = c, !.photos = n])
    /\ UNCHANGED <<staffVars, complaint, raced>>

(* The transaction that inserts the rows of the uploaded photos.           *)
AddComplaintPhotosCommit(s) ==
    /\ Runs(s, "addComplaintPhotos")
    /\ complaint' = [complaint EXCEPT ![req[s].on].photos = @ + req[s].photos]
    /\ Wrote(s, Subjects(req[s])) /\ Done(s)
    /\ UNCHANGED staffVars

-----------------------------------------------------------------------------
(* deleteStaff also takes the member's complaints away; they stay ASSIGNED. *)
UnassignedMutant(u) == complaint
Unassigned(u) ==
    [c \in Complaints |-> IF complaint[c].staff = u THEN [complaint[c] EXCEPT !.staff = None]
                                                   ELSE complaint[c]]
DeleteStaff(s) ==
    /\ DeleteStaffCommit(s)
    /\ complaint' = Unassigned(req[s].of)

(* A later check refuses, an upload or the transaction fails, or the       *)
(* process dies.                                                           *)
Abort(s) ==
    /\ req[s] # Idle
    /\ Done(s)
    /\ UNCHANGED <<staffVars, complaint, raced>>

ComplaintReads(s) ==
    \/ \E p \in Properties :
        \/ CreateComplaintByTenantRead(s, p)
        \/ \E u \in Opt(Members), self \in BOOLEAN : CreateComplaintByOwnerRead(s, p, u, self)
    \/ \E c \in Complaints :
        \/ \E u \in Opt(Members) : AssignMaintenanceStaffRead(s, c, u)
        \/ \E n \in 0..MaxPhotos :
            EditComplaintByTenantRead(s, c, n) \/ AddComplaintPhotosRead(s, c, n)

ComplaintWrites(s) ==
    \/ \E c \in Complaints, status \in {"OPEN"} \cup Named, tenants \in BOOLEAN,
         n \in 0..MaxPhotos : CreateComplaintCommit(s, c, status, tenants, n)
    \/ InsertPhoto(s)
    \/ AssignMaintenanceStaffCommit(s)
    \/ \E c \in Complaints, status \in Named : ChangeStatus(s, c, status)
    \/ EditComplaintByTenantWrite(s)
    \/ AddComplaintPhotosCommit(s)
    \/ DeleteStaff(s)

Next ==
    /\ \E s \in Slots :
        \/ (StaffReads(s) \/ StaffCommits(s)) /\ UNCHANGED complaint
        \/ ComplaintReads(s) \/ ComplaintWrites(s) \/ Abort(s)
    /\ UNCHANGED workload

Spec == Init /\ [][Next]_vars

-----------------------------------------------------------------------------
(* Type invariant. In particular a row's permissions name no module that   *)
(* is granted for all properties only.                                     *)
TypeOK ==
    /\ profile \in [Members -> ProfileRow]
    /\ book \in [Members -> Opt(Owners)]
    /\ access \in [Rows -> AccessRow]
    /\ complaint \in [Complaints -> ComplaintRow]
    /\ workload \in Workloads
    /\ req \in [Slots -> Request]
    /\ raced \subseteq Members \cup Complaints

(* deleteStaff leaves nothing behind, and no request gives a removed member *)
(* a property or a complaint, unless it overlapped the removal.            *)
RemovedHoldsNothing ==
    \A u \in Members \ raced : profile[u].state # "active" =>
        /\ book[u] = None
        /\ \A i \in Rows : access[i].of # u
        /\ \A c \in Complaints : complaint[c].staff # u

(* Whoever may send any request about a property of an owner is an employee *)
(* of that owner, for whom the handler will act, after any sequence of      *)
(* edits, grants and removals - except a member whose removal overlapped    *)
(* another request about it.                                               *)
AccessOnlyByEmployment ==
    \A u \in Members, p \in Properties :
        /\ u \notin raced \/ profile[u].state = "active"
        /\ book[u] # OwnerOf[p]
        => ~SomeRequest(u, p)

(* What the checks with several alternatives are for: whoever may take the  *)
(* last step of a job may open the lists and details it starts from -      *)
(* onboarding and shifting pick a room, collecting picks a tenant and a due, *)
(* an edit of a tenancy shows the rent book, a complaint names a tenant and *)
(* is handled from its page, a checkout deletes the dues that are left.    *)
JobsCanStart ==
    \A u \in Members, p \in Properties :
        /\ MayOnBoardTenancy(u, p, p) \/ MayShiftTenantRoom(u, p, p) =>
             MayFetchAllRoomsOfProperty(u, p)
        /\ MayCollectDue(u, p) => /\ MayGetUnpaidDuesByProperty(u, p)
                                 /\ MayGetTenantsByProperty(u, p) /\ MayGetTenantById(u, p)
                                 /\ MayGetUnpaidDuesByTenant(u, p) /\ MayGetDueById(u, p)
        /\ MayUpdateTenancyDetails(u, p) =>
             MayGetDuesByTenantAndProperty(u, p) /\ MayGetPaymentHistory(u, p)
        /\ MayCreateComplaint(u, p) =>
             MayGetTenantsByProperty(u, p) /\ MayFetchAllStaffsForProperty(u, p)
        /\ MayChangeStatus(u, p) => MayGetComplaintById(u, p) /\ MayGetAllComplaints(u, p)
        /\ MayDeleteTenant(u, p) => MayDeleteDue(u, p)

(* For a member who stays employed, editStaffAccess opens only properties it *)
(* adds and closes only properties it removes, except that any removal      *)
(* closes every property of an ALL_PROPERTIES member who has no row for it; *)
(* and nothing else opens or closes a property.                            *)
AccessChangesOnlyAsNamed ==
    [][\A u \in Members, p \in Properties :
         LET Edits(s) == req[s].h = "editStaffAccess" /\ req[s].of = u /\ req'[s] = Idle
             Had == PropertyAccess(u, p)
             Has == PropertyAccess(u, p)'
         IN  profile[u].state = "active" /\ profile'[u].state = "active" =>
               /\ ~Had /\ Has => \E s \in Slots : Edits(s) /\ p \in req[s].add
               /\ Had /\ ~Has => \E s \in Slots :
                     /\ Edits(s)
                     /\ \/ p \in req[s].remove
                        \/ profile[u].scope = AllProperties /\ req[s].remove # {}]_vars

(* A module whose granular permissions an update does not state keeps them, *)
(* unless two updates of the member overlapped: the later one writes back  *)
(* the whole object it read.                                               *)
UnstatedPermissionsStay ==
    [][\A u \in Members, m \in Modules :
         /\ u \notin raced'
         /\ profile[u].perm.granular[m] # profile'[u].perm.granular[m]
         => \E s \in Slots : /\ req[s].h = "updateProfilePermissions" /\ req[s].of = u
                             /\ m \in req[s].dto.granular.stated]_vars

(* The pages agree with the checks: a member's own profile lists the        *)
(* properties it has access to, the owner's list the members in the book,  *)
(* and the staff offered for a property's complaints may be assigned to    *)
(* them.                                                                   *)
PagesAgree ==
    /\ \A u \in Members : profile[u].state = "active" =>
         {q[1] : q \in SelfProfile(u)} = {p \in Properties : PropertyAccess(u, p)}
    /\ \A o \in Owners : {u \in Members : book[u] = o} = MaintenanceStaffsByOwner(o)
    /\ \A p \in Properties : \A u \in AllocatedStaff(p) \ raced : book[u] = OwnerOf[p]

(* A complaint is never with the owner and a member at once, and the member *)
(* works for the owner of its property unless removed while being assigned. *)
OneAssigneeOfTheOwner ==
    \A c \in Complaints :
        /\ complaint[c].staff # None => complaint[c].owner = None
        /\ complaint[c].staff \in Members =>
             \/ book[complaint[c].staff] = OwnerOf[complaint[c].prop]
             \/ complaint[c].staff \in raced /\ profile[complaint[c].staff].state = "removed"

(* The limit of photos holds while requests on a complaint do not overlap;  *)
(* overlapping ones exceed it at most by what each may add.                *)
PhotosWithinLimit ==
    \A c \in Complaints :
        /\ complaint[c].photos <= MaxPhotos * Cardinality(Slots)
        /\ c \notin raced => complaint[c].photos <= MaxPhotos

(* A tenant rewrites a complaint only while it is OPEN, unless it is        *)
(* assigned or moved on during the edit.                                   *)
TenantEditsOnlyEditable ==
    [][\A c \in Complaints :
         complaint'[c].edited /\ ~complaint[c].edited /\ c \notin raced' =>
             complaint[c].status = "OPEN"]_vars
================================================================================
