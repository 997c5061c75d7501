------------------------ MODULE ComplaintPhotos_proofs ------------------------
(***************************************************************************)
(* The limit on the photos of a complaint, for any number of complaints    *)
(* and any finite number of requests that overlap. A request that counted  *)
(* the photos may still add those it read for; the invariant is about the  *)
(* photos a complaint has and all those still coming.                      *)
(***************************************************************************)
EXTENDS Complaint_proofs, SumLemmas

(* The photos the request that remembers r may still add to c.             *)
Adds(r) == \/ r.h \in {"insertPhotos", "addComplaintPhotos"}
           \/ r.h = "editComplaintByTenant" /\ Fit(r.count, r.photos)
Coming(r, c) == IF r.on = c /\ Adds(r) THEN r.photos ELSE 0
AllComing(c) == [s \in Slots |-> Coming(req[s], c)]

(* Each request fits alone with what was there when it read; only writes   *)
(* that overlap others about the complaint let it pass the limit, each by  *)
(* no more than one limit.                                                 *)
PhotosInv(c) ==
    /\ \A s \in Slots : Coming(req[s], c) <= MaxPhotos
    /\ complaint[c].photos + SumFunctionOnSet(AllComing(c), Slots)
         <= MaxPhotos * Cardinality(Slots)
    /\ c \notin raced => \A s \in Slots : complaint[c].photos + Coming(req[s], c) <= MaxPhotos

AllPhotosInv == \A c \in Complaints : PhotosInv(c)

-----------------------------------------------------------------------------
(* What a step of the handler in slot s does to the photos of c: it adds   *)
(* some of those it still had to come, or starts afresh within the limit.  *)
PhotoStep(s, c) ==
    /\ raced \subseteq raced'
    /\ \A z \in Slots \ {s} : req'[z] = req[z]
    /\ \/ complaint'[c].photos <= complaint[c].photos
       \/ \A z \in Slots \ {s} : Coming(req[z], c) # 0 => c \in raced'
    /\ \/ /\ complaint'[c].photos + Coming(req'[s], c) <= complaint[c].photos + Coming(req[s], c)
          /\ Coming(req'[s], c) <= Coming(req[s], c)
       \/ complaint'[c].photos + Coming(req'[s], c) <= MaxPhotos

LEMMA ComingType ==
    ASSUME TypeOK, NEW s \in Slots, NEW c \in Complaints
    PROVE  Coming(req[s], c) \in Nat /\ complaint[c].photos \in Nat
BY DEF TypeOK, Coming, Request, ComplaintRow

LEMMA PhotosAfter ==
    ASSUME TypeOK, TypeOK', NEW c \in Complaints, PhotosInv(c), NEW s \in Slots, PhotoStep(s, c)
    PROVE  PhotosInv(c)'
<1> DEFINE was == complaint[c].photos
           is == complaint'[c].photos
           f == AllComing(c)
           g == [z \in Slots |-> Coming(req'[z], c)]
<1>1. was \in Nat /\ is \in Nat /\ \A z \in Slots : f[z] \in Nat /\ g[z] \in Nat
  BY ComingType DEF AllComing, TypeOK, Coming, Request, ComplaintRow
<1>2. \A z \in Slots \ {s} : g[z] = f[z] BY DEF PhotoStep, AllComing
<1>3. /\ \A z \in Slots : f[z] = Coming(req[z], c) /\ g[z] = Coming(req'[z], c)
      /\ \A z \in Slots : f[z] <= MaxPhotos
      /\ was + SumFunctionOnSet(f, Slots) <= MaxPhotos * Cardinality(Slots)
      /\ c \notin raced => \A z \in Slots : was + f[z] <= MaxPhotos
  BY DEF PhotosInv, AllComing
<1>4. /\ is <= was \/ (\A z \in Slots \ {s} : f[z] # 0 => c \in raced')
      /\ \/ is + g[s] <= was + f[s] /\ g[s] <= f[s]
         \/ is + g[s] <= MaxPhotos
      /\ c \notin raced' => c \notin raced
  BY <1>3 DEF PhotoStep
<1> DEFINE limit == MaxPhotos * Cardinality(Slots)
           rest == SumFunctionOnSet(f, Slots \ {s})
           total == SumFunctionOnSet(f, Slots)
<1>5. /\ total = f[s] + rest /\ SumFunctionOnSet(g, Slots) = g[s] + rest
      /\ rest \in Nat /\ rest + MaxPhotos <= limit /\ limit \in Nat
  <2>1. IsFiniteSet(Slots) /\ IsFiniteSet(Slots \ {s}) BY SlotsAssumption, FS_Subset
  <2>2. \A z \in Slots : f[z] \in Int /\ g[z] \in Int BY <1>1
  <2> DEFINE k == Cardinality(Slots \ {s})
  <2>3. Cardinality(Slots) = k + 1 /\ k \in Nat
    <3>1. k = Cardinality(Slots) - 1 /\ Cardinality(Slots) \in Nat
      BY <2>1, FS_RemoveElement, FS_CardinalityType
    <3>2. k \in Nat BY <2>1, FS_CardinalityType
    <3> QED BY <3>1, <3>2
  <2> HIDE DEF f, g
  <2>4. rest <= MaxPhotos * k
    BY <1>1, <1>3, <2>1, SumBounded, PhotosAssumption
  <2>5. rest \in Nat BY <1>1, <2>1, SumNat
  <2>6. total = f[s] + rest BY <2>1, <2>2, SumAnyFirst
  <2>7. SumFunctionOnSet(g, Slots) = g[s] + rest
    <3>1. SumFunctionOnSet(g, Slots) = g[s] + SumFunctionOnSet(g, Slots \ {s})
      BY <2>1, <2>2, SumAnyFirst
    <3> QED BY <3>1, <1>2, <2>1, SumSame
  <2> HIDE DEF k, rest
  <2>8. limit = MaxPhotos * k + MaxPhotos /\ MaxPhotos * k \in Nat /\ MaxPhotos \in Nat
    BY <2>3, PhotosAssumption
  <2> QED BY <2>4, <2>5, <2>6, <2>7, <2>8
<1> HIDE DEF f, g, limit, rest, total
<1>6. is + SumFunctionOnSet(g, Slots) <= limit
  <2>1. was + total <= limit BY <1>3 DEF limit, total
  <2>2. was \in Nat /\ is \in Nat /\ f[s] \in Nat /\ g[s] \in Nat BY <1>1
  <2>3. is + g[s] <= was + f[s] \/ is + g[s] <= MaxPhotos BY <1>4
  <2> HIDE DEF was, is
  <2>4. is + (g[s] + rest) <= limit BY <1>5, <2>1, <2>2, <2>3, PhotosAssumption
  <2> QED BY <1>5, <2>4
<1>7. \A z \in Slots : g[z] <= MaxPhotos
  <2> TAKE z \in Slots
  <2>1. CASE z = s BY <2>1, <1>1, <1>3, <1>4, PhotosAssumption
  <2>2. CASE z # s BY <2>2, <1>2, <1>3
  <2> QED BY <2>1, <2>2
<1>8. ASSUME c \notin raced', NEW z \in Slots PROVE is + g[z] <= MaxPhotos
  <2>1. was + f[s] <= MaxPhotos /\ was + f[z] <= MaxPhotos BY <1>3, <1>4, <1>8
  <2>2. is + g[s] <= MaxPhotos BY <1>1, <1>4, <2>1, PhotosAssumption
  <2>3. CASE z = s BY <2>2, <2>3
  <2>4. CASE z # s
    <3>1. g[z] = f[z] BY <2>4, <1>2
    <3>2. is <= was \/ g[z] = 0 BY <2>4, <1>4, <1>8, <3>1
    <3> QED BY <1>1, <2>1, <2>2, <3>1, <3>2, PhotosAssumption
  <2> QED BY <2>3, <2>4
<1> QED
  BY <1>6, <1>7, <1>8 DEF PhotosInv, AllComing, g, limit

(* A handler that has written about c leaves no other request about c in   *)
(* progress unrecorded.                                                    *)
LEMMA OthersRecorded ==
    ASSUME IInv, NEW s \in Slots, Wrote(s, Subjects(req[s])), NEW c \in Complaints
    PROVE  /\ raced \subseteq raced'
           /\ req[s].on = c =>
                \A z \in Slots \ {s} : Coming(req[z], c) # 0 => c \in raced'
<1>1. TypeOK /\ Subjects(req[s]) \subseteq Members \cup Complaints BY SubjectsType DEF IInv
<1>2. raced \subseteq raced' BY <1>1, WroteFrame
<1>3. ASSUME req[s].on = c, NEW z \in Slots \ {s}, Coming(req[z], c) # 0 PROVE c \in raced'
  <2>1. c # None BY StaffNoneAssumption
  <2>2. c \in Subjects(req[s]) BY <1>3, <2>1 DEF Subjects
  <2>3. req[z].on = c BY <1>3 DEF Coming
  <2> QED BY <1>1, <2>1, <2>2, <2>3, WroteFrame
<1> QED BY <1>2, <1>3

(* A step that adds no photos to c and after which the handler adds none.  *)
LEMMA AddsNothing ==
    ASSUME TypeOK, NEW s \in Slots, NEW c \in Complaints, raced \subseteq raced',
           NEW STATE r, req' = [req EXCEPT ![s] = r], ~Adds(r) \/ r.on # c,
           complaint'[c].photos = complaint[c].photos
    PROVE  PhotoStep(s, c)
<1>1. req'[s] = r /\ \A z \in Slots \ {s} : req'[z] = req[z] BY DEF TypeOK
<1>2. Coming(r, c) = 0 BY DEF Coming
<1>3. Coming(req[s], c) \in Nat /\ complaint[c].photos \in Nat BY ComingType
<1> QED BY <1>1, <1>2, <1>3 DEF PhotoStep

LEMMA IdleAdds == ~Adds(Idle) BY DEF Adds, Idle

LEMMA StaffPhotos ==
    ASSUME IInv, NEW s \in Slots, NEW c \in Complaints, UNCHANGED complaint,
           StaffReads(s) \/ StaffCommits(s)
    PROVE  PhotoStep(s, c)
<1>0. TypeOK BY DEF IInv
<1>1. ASSUME NEW o \in Owners, NEW scope \in {AllProperties, Selective},
             NEW ps \in SUBSET Properties, CreateMaintenanceStaffRead(s, o, scope, ps)
      PROVE  PhotoStep(s, c)
  <2> DEFINE r == [Idle EXCEPT !.h = "createMaintenanceStaff", !.owner = o,
                               !.scope = scope, !.add = ps]
  <2>1. ~Adds(r) BY DEF Adds, Idle
  <2>2. req' = [req EXCEPT ![s] = r] /\ UNCHANGED raced
    BY <1>1 DEF CreateMaintenanceStaffRead, Remember
  <2> QED BY <1>0, <2>1, <2>2, AddsNothing
<1>2. ASSUME NEW u \in Members, NEW add \in SUBSET Properties, NEW remove \in SUBSET Properties,
             EditStaffAccessRead(s, u, add, remove)
      PROVE  PhotoStep(s, c)
  <2> DEFINE r == [Idle EXCEPT !.h = "editStaffAccess", !.of = u, !.scope = profile[u].scope,
                               !.add = add, !.remove = remove]
  <2>1. ~Adds(r) BY DEF Adds, Idle
  <2>2. req' = [req EXCEPT ![s] = r] /\ UNCHANGED raced
    BY <1>2 DEF EditStaffAccessRead, Remember
  <2> QED BY <1>0, <2>1, <2>2, AddsNothing
<1>3. ASSUME NEW u \in Members, DeleteStaffRead(s, u) PROVE PhotoStep(s, c)
  <2> DEFINE r == [Idle EXCEPT !.h = "deleteStaff", !.of = u]
  <2>1. ~Adds(r) BY DEF Adds, Idle
  <2>2. req' = [req EXCEPT ![s] = r] /\ UNCHANGED raced
    BY <1>3 DEF DeleteStaffRead, Remember
  <2> QED BY <1>0, <2>1, <2>2, AddsNothing
<1>4. ASSUME NEW u \in Members, NEW p \in Properties, NEW dto \in Dtos,
             UpdateRowPermissionsRead(s, u, p, dto)
      PROVE  PhotoStep(s, c)
  <2>1. PICK i \in RowsOf(u, p) :
          req' = [req EXCEPT ![s] = [Idle EXCEPT !.h = "updateRowPermissions", !.of = u,
                                                 !.row = i, !.prop = p, !.dto = dto]]
    BY <1>4 DEF UpdateRowPermissionsRead, Remember
  <2> DEFINE r == [Idle EXCEPT !.h = "updateRowPermissions", !.of = u, !.row = i, !.prop = p,
                               !.dto = dto]
  <2>2. ~Adds(r) BY DEF Adds, Idle
  <2>3. UNCHANGED raced BY <1>4 DEF UpdateRowPermissionsRead
  <2> QED BY <1>0, <2>1, <2>2, <2>3, AddsNothing
<1>5. ASSUME NEW u \in Members, NEW dto \in Dtos, UpdateProfilePermissionsRead(s, u, dto)
      PROVE  PhotoStep(s, c)
  <2> DEFINE r == [Idle EXCEPT !.h = "updateProfilePermissions", !.of = u, !.dto = dto,
                               !.granular = profile[u].perm.granular]
  <2>1. ~Adds(r) BY DEF Adds, Idle
  <2>2. req' = [req EXCEPT ![s] = r] /\ UNCHANGED raced
    BY <1>5 DEF UpdateProfilePermissionsRead, Remember
  <2> QED BY <1>0, <2>1, <2>2, AddsNothing
<1>6. CASE StaffCommits(s)
  <2>1. Done(s) /\ raced \subseteq raced'
    BY <1>6 DEF StaffCommits, CreateMaintenanceStaffCommit, EditStaffAccessCommit,
                UpdateRowPermissionsCommit, UpdateProfilePermissionsCommit, Wrote
  <2> QED BY <1>0, <2>1, IdleAdds, AddsNothing DEF Done
<1> QED BY <1>1, <1>2, <1>3, <1>4, <1>5, <1>6 DEF StaffReads

(* Creating reads, assigning, changing the status, removing a member and   *)
(* giving up add no photos.                                                *)
LEMMA OtherRequestsPhotos ==
    ASSUME IInv, NEW s \in Slots, NEW c \in Complaints,
           \/ \E p \in Properties :
               \/ CreateComplaintByTenantRead(s, p)
               \/ \E u \in Opt(Members), self \in BOOLEAN :
                    CreateComplaintByOwnerRead(s, p, u, self)
           \/ \E d \in Complaints, u \in Opt(Members) : AssignMaintenanceStaffRead(s, d, u)
           \/ AssignMaintenanceStaffCommit(s)
           \/ \E d \in Complaints, status \in Named : ChangeStatus(s, d, status)
           \/ DeleteStaff(s) \/ Abort(s)
    PROVE  PhotoStep(s, c)
<1>0. TypeOK BY DEF IInv
<1>1. ASSUME NEW p \in Properties, CreateComplaintByTenantRead(s, p) PROVE PhotoStep(s, c)
  <2> DEFINE r == [Idle EXCEPT !.h = "createComplaintByTenant", !.prop = p]
  <2>1. ~Adds(r) BY DEF Adds, Idle
  <2>2. req' = [req EXCEPT ![s] = r] /\ UNCHANGED <<raced, complaint>>
    BY <1>1 DEF CreateComplaintByTenantRead, Remember
  <2> QED BY <1>0, <2>1, <2>2, AddsNothing
<1>2. ASSUME NEW p \in Properties, NEW u \in Opt(Members), NEW self \in BOOLEAN,
             CreateComplaintByOwnerRead(s, p, u, self)
      PROVE  PhotoStep(s, c)
  <2> DEFINE r == [Idle EXCEPT !.h = "createComplaintByOwner", !.prop = p, !.of = u,
                               !.owner = IF self THEN OwnerOf[p] ELSE None]
  <2>1. ~Adds(r) BY DEF Adds, Idle
  <2>2. req' = [req EXCEPT ![s] = r] /\ UNCHANGED <<raced, complaint>>
    BY <1>2 DEF CreateComplaintByOwnerRead, Remember
  <2> QED BY <1>0, <2>1, <2>2, AddsNothing
<1>3. ASSUME NEW d \in Complaints, NEW u \in Opt(Members), AssignMaintenanceStaffRead(s, d, u)
      PROVE  PhotoStep(s, c)
  <2> DEFINE r == [Idle EXCEPT !.h = "assignMaintenanceStaff", !.on = d, !.of = u,
                               !.owner = OwnerOf[complaint[d].prop]]
  <2>1. ~Adds(r) BY DEF Adds, Idle
  <2>2. req' = [req EXCEPT ![s] = r] /\ UNCHANGED <<raced, complaint>>
    BY <1>3 DEF AssignMaintenanceStaffRead, Remember
  <2> QED BY <1>0, <2>1, <2>2, AddsNothing
<1>4. complaint \in [Complaints -> ComplaintRow] /\ complaint[c] \in ComplaintRow
  BY <1>0 DEF TypeOK
<1>5. CASE AssignMaintenanceStaffCommit(s)
  <2>1. complaint'[c].photos = complaint[c].photos
    BY <1>4, <1>5 DEF AssignMaintenanceStaffCommit, BuildAssignToOwnerUpdate,
                      BuildAssignToStaffUpdate, ComplaintRow
  <2>2. Done(s) /\ raced \subseteq raced' BY <1>5 DEF AssignMaintenanceStaffCommit, Wrote
  <2> QED BY <1>0, <2>1, <2>2, IdleAdds, AddsNothing DEF Done
<1>6. ASSUME NEW d \in Complaints, NEW status \in Named, ChangeStatus(s, d, status)
      PROVE  PhotoStep(s, c)
  <2>1. complaint'[c].photos = complaint[c].photos
    BY <1>4, <1>6 DEF ChangeStatus, ComplaintRow
  <2>2. req' = [req EXCEPT ![s] = Idle] /\ raced \subseteq raced'
    BY <1>0, <1>6 DEF ChangeStatus, Begins, Wrote, TypeOK
  <2> QED BY <1>0, <2>1, <2>2, IdleAdds, AddsNothing
<1>7. CASE DeleteStaff(s)
  <2>1. complaint'[c] = complaint[c] \/ complaint'[c] = [complaint[c] EXCEPT !.staff = None]
    BY <1>7 DEF DeleteStaff, Unassigned
  <2>2. complaint'[c].photos = complaint[c].photos BY <2>1, <1>4 DEF ComplaintRow
  <2>3. Done(s) /\ raced \subseteq raced' BY <1>7 DEF DeleteStaff, DeleteStaffCommit, Wrote
  <2> QED BY <1>0, <2>2, <2>3, IdleAdds, AddsNothing DEF Done
<1>8. CASE Abort(s) BY <1>0, <1>8, IdleAdds, AddsNothing DEF Abort, Done
<1> QED BY <1>1, <1>2, <1>3, <1>5, <1>6, <1>7, <1>8

(* The handlers of photos.                                                 *)
LEMMA CountingReads ==
    ASSUME IInv, NEW s \in Slots, NEW c \in Complaints, NEW d \in Complaints,
           NEW n \in 0..MaxPhotos,
           EditComplaintByTenantRead(s, d, n) \/ AddComplaintPhotosRead(s, d, n)
    PROVE  PhotoStep(s, c)
<1>0. TypeOK /\ complaint[c].photos \in Nat /\ n \in Nat
  BY ComingType, PhotosAssumption DEF IInv
<1>1. CASE EditComplaintByTenantRead(s, d, n)
  <2> DEFINE r == [Idle EXCEPT !.h = "editComplaintByTenant", !.on = d,
                               !.count = complaint[d].photos, !.photos = n]
  <2>1. r.h = "editComplaintByTenant" /\ r.on = d /\ r.count = complaint[d].photos /\ r.photos = n
    BY DEF Idle
  <2>2. req' = [req EXCEPT ![s] = r] /\ UNCHANGED <<raced, complaint>>
    BY <1>1 DEF EditComplaintByTenantRead, Remember
  <2> HIDE DEF r
  <2>3. CASE ~Adds(r) \/ d # c BY <1>0, <2>1, <2>2, <2>3, AddsNothing
  <2>4. CASE Adds(r) /\ d = c
    <3>1. complaint[c].photos + n <= MaxPhotos BY <2>1, <2>4 DEF Adds, Fit
    <3>2. req'[s] = r /\ \A z \in Slots \ {s} : req'[z] = req[z] BY <1>0, <2>2 DEF TypeOK
    <3>3. Coming(r, c) = n BY <2>1, <2>4 DEF Coming
    <3> QED BY <1>0, <2>2, <3>1, <3>2, <3>3 DEF PhotoStep
  <2> QED BY <2>3, <2>4
<1>2. CASE AddComplaintPhotosRead(s, d, n)
  <2> DEFINE r == [Idle EXCEPT !.h = "addComplaintPhotos", !.on = d, !.photos = n]
  <2>1. r.h = "addComplaintPhotos" /\ r.on = d /\ r.photos = n BY DEF Idle
  <2>2. req' = [req EXCEPT ![s] = r] /\ UNCHANGED <<raced, complaint>>
    BY <1>2 DEF AddComplaintPhotosRead, Remember
  <2> HIDE DEF r
  <2>3. CASE d # c BY <1>0, <2>1, <2>2, <2>3, AddsNothing
  <2>4. CASE d = c
    <3>1. complaint[c].photos + n <= MaxPhotos BY <1>2, <2>4 DEF AddComplaintPhotosRead, Fit
    <3>2. req'[s] = r /\ \A z \in Slots \ {s} : req'[z] = req[z] BY <1>0, <2>2 DEF TypeOK
    <3>3. Coming(r, c) = n BY <2>1, <2>4 DEF Coming, Adds
    <3> QED BY <1>0, <2>2, <3>1, <3>2, <3>3 DEF PhotoStep
  <2> QED BY <2>3, <2>4
<1> QED BY <1>1, <1>2

LEMMA CreationPhotos ==
    ASSUME IInv, NEW s \in Slots, NEW c \in Complaints, NEW d \in Complaints, NEW status,
           NEW tenants, NEW n \in 0..MaxPhotos, CreateComplaintCommit(s, d, status, tenants, n)
    PROVE  PhotoStep(s, c)
<1>0. TypeOK /\ complaint[c].photos \in Nat /\ n \in Nat /\ n <= MaxPhotos
  BY ComingType, PhotosAssumption DEF IInv
<1> DEFINE next == [Idle EXCEPT !.h = "insertPhotos", !.on = d, !.photos = n]
           r == IF n = 0 THEN Idle ELSE next
<1>1. next.h = "insertPhotos" /\ next.on = d /\ next.photos = n BY DEF Idle
<1>2. req' = [req EXCEPT ![s] = r] /\ raced \subseteq raced'
  BY DEF CreateComplaintCommit, Done, Remember, Wrote
<1>3. complaint \in [Complaints -> ComplaintRow] BY <1>0 DEF TypeOK
<1> HIDE DEF next
<1>4. CASE d # c
  <2>1. complaint'[c] = complaint[c] BY <1>3, <1>4 DEF CreateComplaintCommit
  <2>2. ~Adds(r) \/ r.on # c BY <1>1, <1>4, IdleAdds
  <2> HIDE DEF r
  <2> QED BY <1>0, <1>2, <2>1, <2>2, AddsNothing
<1>5. CASE d = c
  <2>1. complaint'[c].photos = 0 BY <1>3, <1>5 DEF CreateComplaintCommit, NoComplaint
  <2>2. Coming(r, c) \in Nat /\ Coming(r, c) <= MaxPhotos
    BY <1>0, <1>1, IdleAdds, PhotosAssumption DEF Coming
  <2> HIDE DEF r
  <2>3. req'[s] = r /\ \A z \in Slots \ {s} : req'[z] = req[z] BY <1>0, <1>2 DEF TypeOK
  <2>4. complaint'[c].photos <= complaint[c].photos BY <1>0, <2>1
  <2>5. complaint'[c].photos + Coming(req'[s], c) <= MaxPhotos
    BY <2>1, <2>2, <2>3, PhotosAssumption
  <2> QED BY <1>2, <2>3, <2>4, <2>5 DEF PhotoStep
<1> QED BY <1>4, <1>5

LEMMA InsertPhotos ==
    ASSUME IInv, NEW s \in Slots, NEW c \in Complaints, InsertPhoto(s)
    PROVE  PhotoStep(s, c)
<1> DEFINE d == req[s].on
           n == req[s].photos
           next == [req[s] EXCEPT !.photos = req[s].photos - 1]
           r == IF req[s].photos = 1 THEN Idle ELSE next
<1>1. req[s].h = "insertPhotos" /\ Wrote(s, Subjects(req[s])) BY DEF InsertPhoto, Runs
<1>2. TypeOK /\ req[s] \in Request /\ complaint[c].photos \in Nat
  BY ComingType DEF IInv, TypeOK
<1>3. n \in Nat /\ n # 0 BY <1>1, <1>2 DEF IInv, RequestOK, Request
<1>4. next.h = "insertPhotos" /\ next.on = d /\ next.photos = n - 1 BY <1>1, <1>2 DEF Request
<1>5. req' = [req EXCEPT ![s] = r] BY DEF InsertPhoto, Done, Remember
<1>6. complaint \in [Complaints -> ComplaintRow] /\ complaint[c] \in ComplaintRow
  BY <1>2 DEF TypeOK
<1>7. raced \subseteq raced' BY <1>1, OthersRecorded
<1> HIDE DEF next
<1>8. CASE d # c
  <2>1. complaint'[c] = complaint[c] BY <1>6, <1>8 DEF InsertPhoto
  <2>2. ~Adds(r) \/ r.on # c BY <1>4, <1>8, IdleAdds
  <2> HIDE DEF r
  <2> QED BY <1>2, <1>5, <1>7, <2>1, <2>2, AddsNothing
<1>9. CASE d = c
  <2>1. complaint'[c].photos = complaint[c].photos + 1
    BY <1>6, <1>9 DEF InsertPhoto, ComplaintRow
  <2>2. Coming(req[s], c) = n BY <1>1, <1>9 DEF Coming, Adds
  <2>3. Coming(r, c) = n - 1 BY <1>3, <1>4, <1>9, IdleAdds DEF Coming, Adds
  <2> HIDE DEF r
  <2>4. req'[s] = r /\ \A z \in Slots \ {s} : req'[z] = req[z] BY <1>2, <1>5 DEF TypeOK
  <2>5. \A z \in Slots \ {s} : Coming(req[z], c) # 0 => c \in raced'
    BY <1>1, <1>9, OthersRecorded
  <2>6. complaint'[c].photos + Coming(req'[s], c) <= complaint[c].photos + Coming(req[s], c)
        /\ Coming(req'[s], c) <= Coming(req[s], c)
    BY <1>2, <1>3, <2>1, <2>2, <2>3, <2>4
  <2> QED BY <1>7, <2>4, <2>5, <2>6 DEF PhotoStep
<1> QED BY <1>8, <1>9

LEMMA EditWritePhotos ==
    ASSUME IInv, NEW s \in Slots, NEW c \in Complaints, EditComplaintByTenantWrite(s)
    PROVE  PhotoStep(s, c)
<1> DEFINE next == [req[s] EXCEPT !.h = "addComplaintPhotos"]
           goes == req[s].photos > 0 /\ Fit(req[s].count, req[s].photos)
<1>1. /\ req[s].h = "editComplaintByTenant" /\ Wrote(s, Subjects(req[s]))
      /\ IF goes THEN Remember(s, next) ELSE Done(s)
  BY DEF EditComplaintByTenantWrite, Runs
<1>2. /\ TypeOK /\ req[s] \in Request /\ complaint[c].photos \in Nat
      /\ Coming(req[s], c) \in Nat
  BY ComingType DEF IInv, TypeOK
<1>3. complaint'[c].photos = complaint[c].photos
  <2>1. complaint \in [Complaints -> ComplaintRow] /\ complaint[c] \in ComplaintRow
    BY <1>2 DEF TypeOK
  <2> QED BY <2>1 DEF EditComplaintByTenantWrite, ComplaintRow
<1>4. raced \subseteq raced' BY <1>1, OthersRecorded
<1>5. CASE ~goes
  <2> HIDE DEF goes, next
  <2>1. req' = [req EXCEPT ![s] = Idle] BY <1>1, <1>5 DEF Done
  <2> QED BY <1>2, <1>3, <1>4, <2>1, IdleAdds, AddsNothing
<1>6. CASE goes
  <2>1. next.h = "addComplaintPhotos" /\ next.on = req[s].on /\ next.photos = req[s].photos
    BY <1>2 DEF Request
  <2>2. Adds(req[s]) BY <1>1, <1>6 DEF Adds
  <2>3. Coming(next, c) = Coming(req[s], c) BY <2>1, <2>2 DEF Coming, Adds
  <2> HIDE DEF next
  <2>4. req'[s] = next /\ \A z \in Slots \ {s} : req'[z] = req[z]
    BY <1>1, <1>2, <1>6 DEF Remember, TypeOK
  <2> QED BY <1>2, <1>3, <1>4, <2>3, <2>4 DEF PhotoStep
<1> QED BY <1>5, <1>6

LEMMA AddPhotos ==
    ASSUME IInv, NEW s \in Slots, NEW c \in Complaints, AddComplaintPhotosCommit(s)
    PROVE  PhotoStep(s, c)
<1>1. /\ req[s].h = "addComplaintPhotos" /\ Wrote(s, Subjects(req[s]))
      /\ req' = [req EXCEPT ![s] = Idle]
  BY DEF AddComplaintPhotosCommit, Runs, Done
<1>2. TypeOK /\ complaint[c].photos \in Nat /\ Coming(req[s], c) \in Nat
  BY ComingType DEF IInv
<1>3. complaint \in [Complaints -> ComplaintRow] /\ complaint[c] \in ComplaintRow
  BY <1>2 DEF TypeOK
<1>4. raced \subseteq raced' BY <1>1, OthersRecorded
<1>5. CASE req[s].on # c
  <2>1. complaint'[c] = complaint[c] BY <1>3, <1>5 DEF AddComplaintPhotosCommit
  <2> QED BY <1>1, <1>2, <1>4, <2>1, IdleAdds, AddsNothing
<1>6. CASE req[s].on = c
  <2>1. complaint'[c].photos = complaint[c].photos + req[s].photos
    BY <1>3, <1>6 DEF AddComplaintPhotosCommit, ComplaintRow
  <2>2. Coming(req[s], c) = req[s].photos BY <1>1, <1>6 DEF Coming, Adds
  <2>3. req'[s] = Idle /\ \A z \in Slots \ {s} : req'[z] = req[z] BY <1>1, <1>2 DEF TypeOK
  <2>4. Coming(Idle, c) = 0 BY IdleAdds DEF Coming
  <2>5. \A z \in Slots \ {s} : Coming(req[z], c) # 0 => c \in raced'
    BY <1>1, <1>6, OthersRecorded
  <2>6. complaint'[c].photos + Coming(req'[s], c) <= complaint[c].photos + Coming(req[s], c)
        /\ Coming(req'[s], c) <= Coming(req[s], c)
    BY <1>2, <2>1, <2>2, <2>3, <2>4
  <2> QED BY <1>4, <2>3, <2>5, <2>6 DEF PhotoStep
<1> QED BY <1>5, <1>6

-----------------------------------------------------------------------------
(* Every step of a handler is one of these.                                *)
LEMMA EveryStep ==
    ASSUME IInv, NEW s \in Slots, NEW c \in Complaints,
           \/ (StaffReads(s) \/ StaffCommits(s)) /\ UNCHANGED complaint
           \/ ComplaintReads(s) \/ ComplaintWrites(s) \/ Abort(s)
    PROVE  PhotoStep(s, c)
<1>1. CASE (StaffReads(s) \/ StaffCommits(s)) /\ UNCHANGED complaint BY <1>1, StaffPhotos
<1>2. CASE ComplaintReads(s)
  BY <1>2, OtherRequestsPhotos, CountingReads DEF ComplaintReads
<1>3. CASE ComplaintWrites(s)
  <2>1. ASSUME NEW d \in Complaints, NEW status \in {"OPEN"} \cup Named, NEW tenants \in BOOLEAN,
               NEW n \in 0..MaxPhotos, CreateComplaintCommit(s, d, status, tenants, n)
        PROVE  PhotoStep(s, c)
    BY <2>1, CreationPhotos
  <2> QED
    BY <1>3, <2>1, InsertPhotos, OtherRequestsPhotos, EditWritePhotos, AddPhotos
    DEF ComplaintWrites
<1>4. CASE Abort(s) BY <1>4, OtherRequestsPhotos
<1> QED BY <1>1, <1>2, <1>3, <1>4

LEMMA InitPhotos == Init => AllPhotosInv
<1> SUFFICES ASSUME Init, NEW c \in Complaints PROVE PhotosInv(c)
  BY DEF AllPhotosInv
<1>1. complaint[c].photos = 0 BY DEF Init, NoComplaint
<1>2. \A s \in Slots : Coming(req[s], c) = 0 BY IdleAdds DEF Init, Coming
<1>3. IsFiniteSet(Slots) BY SlotsAssumption
<1>4. SumFunctionOnSet(AllComing(c), Slots) <= MaxPhotos * Cardinality(Slots)
  <2>1. \A s \in Slots : AllComing(c)[s] = 0 BY <1>2 DEF AllComing
  <2> QED BY <1>3, <2>1, SumBounded, PhotosAssumption
<1>5. SumFunctionOnSet(AllComing(c), Slots) \in Nat
  <2>1. \A s \in Slots : AllComing(c)[s] = 0 BY <1>2 DEF AllComing
  <2> QED BY <1>3, <2>1, SumNat
<1> QED BY <1>1, <1>2, <1>4, <1>5, PhotosAssumption DEF PhotosInv

LEMMA NextPhotos == IInv /\ AllPhotosInv /\ [Next]_vars => AllPhotosInv'
<1> SUFFICES ASSUME IInv, AllPhotosInv, [Next]_vars, NEW c \in Complaints PROVE PhotosInv(c)'
  BY DEF AllPhotosInv
<1>1. PhotosInv(c) BY DEF AllPhotosInv
<1>2. CASE Next
  <2>1. PICK s \in Slots : \/ (StaffReads(s) \/ StaffCommits(s)) /\ UNCHANGED complaint
                           \/ ComplaintReads(s) \/ ComplaintWrites(s) \/ Abort(s)
    BY <1>2 DEF Next
  <2>2. TypeOK /\ TypeOK' BY NextGood DEF IInv
  <2>3. PhotoStep(s, c) BY <2>1, EveryStep
  <2> QED BY <1>1, <2>2, <2>3, PhotosAfter
<1>3. CASE UNCHANGED vars
  BY <1>1, <1>3 DEF vars, PhotosInv, AllComing
<1> QED BY <1>2, <1>3

(* However many requests add photos at once, a complaint exceeds the limit  *)
(* by no more than one limit for each further request, and never while its *)
(* requests do not overlap.                                                *)
THEOREM PhotosLimited == Spec => []PhotosWithinLimit
<1>1. IInv /\ AllPhotosInv => PhotosWithinLimit
  <2> SUFFICES ASSUME IInv, AllPhotosInv, NEW c \in Complaints
               PROVE  /\ complaint[c].photos <= MaxPhotos * Cardinality(Slots)
                      /\ c \notin raced => complaint[c].photos <= MaxPhotos
    BY DEF PhotosWithinLimit
  <2>1. /\ PhotosInv(c) /\ complaint[c].photos \in Nat
        /\ \A s \in Slots : Coming(req[s], c) \in Nat
    BY ComingType DEF AllPhotosInv, IInv, TypeOK, ComplaintRow
  <2>2. SumFunctionOnSet(AllComing(c), Slots) \in Nat
    BY <2>1, SlotsAssumption, SumNat DEF AllComing
  <2>3. MaxPhotos * Cardinality(Slots) \in Nat
    BY SlotsAssumption, PhotosAssumption, FS_CardinalityType
  <2>4. complaint[c].photos <= MaxPhotos * Cardinality(Slots)
    BY <2>1, <2>2, <2>3 DEF PhotosInv
  <2>5. c \notin raced => complaint[c].photos <= MaxPhotos
    <3>1. CASE Slots = {} BY <2>1, <2>4, <3>1, FS_EmptySet, PhotosAssumption
    <3>2. CASE Slots # {} BY <2>1, <3>2, PhotosAssumption DEF PhotosInv
    <3> QED BY <3>1, <3>2
  <2> QED BY <2>4, <2>5
<1> QED BY <1>1, InitGood, NextGood, InitPhotos, NextPhotos, PTL DEF Spec
===============================================================================
