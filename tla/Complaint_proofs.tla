--------------------------- MODULE Complaint_proofs ---------------------------
(***************************************************************************)
(* Proofs about Staff, Endpoints and Complaint for all values of the       *)
(* constants: any number of members, properties, rows and complaints, any  *)
(* number of overlapping and interrupted requests.                         *)
(***************************************************************************)
EXTENDS Complaint, TLAPS

(* What holds of a member whom a row, a complaint or a request names: an    *)
(* overlapping removal may have ended its employment, nothing else.        *)
Known(u) == profile[u].state # "none" /\ (u \notin raced => book[u] # None)

(* What a row, a complaint or a request that ties u to p guarantees.       *)
Ties(u, p) == Known(u) /\ (book[u] # None => book[u] = OwnerOf[p])

OfMember == {"editStaffAccess", "deleteStaff", "updateRowPermissions",
             "updateProfilePermissions"}
OnComplaint == {"assignMaintenanceStaff", "insertPhotos", "editComplaintByTenant",
                "addComplaintPhotos"}

(* What the handler that remembers r relies on.                            *)
RequestOK(r) ==
    /\ r.of # None => Known(r.of)
    /\ r.h \in OfMember => r.of # None
    /\ r.h = "createMaintenanceStaff" =>
         r.owner \in Owners /\ \A p \in r.add : OwnerOf[p] = r.owner
    /\ r.h = "editStaffAccess" => \A p \in r.add : Ties(r.of, p)
    /\ r.h = "updateRowPermissions" => r.row \in Rows /\ r.dto \in Dtos
    /\ r.h = "updateProfilePermissions" =>
         /\ r.dto \in Dtos /\ r.granular \in Granular
         /\ (r.of \notin raced => r.granular = profile[r.of].perm.granular)
    /\ r.h \in {"createComplaintByOwner", "createComplaintByTenant"} =>
         /\ r.prop \in Properties
         /\ (r.of # None => r.owner = None /\ Ties(r.of, r.prop))
    /\ r.h \in OnComplaint => r.on \in Complaints /\ Exists(r.on)
    /\ r.h = "insertPhotos" => r.photos # 0
    /\ r.h = "assignMaintenanceStaff" =>
         /\ r.owner \in Owners
         /\ (r.of # None => Ties(r.of, complaint[r.on].prop))
    /\ r.h = "editComplaintByTenant" =>
         (r.on \notin raced => complaint[r.on].status = "OPEN")

MemberOK(u) ==
    /\ profile[u].state = "none" => profile[u] = NoProfile
    /\ profile[u].state = "active" <=> book[u] # None
RowOK(i) ==
    /\ access[i].of = None <=> access[i].prop = None
    /\ access[i].of # None => Ties(access[i].of, access[i].prop)
ComplaintOK(c) ==
    /\ Exists(c) => complaint[c].prop \in Properties
    /\ complaint[c].staff # None => /\ Exists(c) /\ complaint[c].owner = None
                                    /\ Ties(complaint[c].staff, complaint[c].prop)
DataOK ==
    /\ \A u \in Members : MemberOK(u)
    /\ \A i \in Rows : RowOK(i)
    /\ \A c \in Complaints : ComplaintOK(c)

(* The inductive invariant.                                                *)
IInv == TypeOK /\ DataOK /\ \A s \in Slots : RequestOK(req[s])

-----------------------------------------------------------------------------
(* Types of the operators the actions are built from.                      *)

LEMMA NoPermType == NoPerm \in RowPerm /\ RowPerm \subseteq Perm /\ Empty \in Json
BY DEF NoPerm, RowPerm, Perm, Granular, Json, Empty, RowModules, Modules, ActionNames

LEMMA IdleType == Idle \in Request /\ Idle.h = "idle" /\ Idle.of = None /\ Idle.on = None
BY DEF Idle, Request, Opt, Selective

LEMMA IdleOK == RequestOK(Idle)
BY DEF RequestOK, Idle, OfMember, OnComplaint

(* createMany touches only rows that did not exist.                        *)
NewRow(row, u, ps) ==
    /\ row \in AccessRow /\ row.of = u /\ row.prop \in ps /\ row.perm = NoPerm

LEMMA NewRowsType ==
    \A rows \in [Rows -> AccessRow], u \in Members, ps \in SUBSET Properties :
        \A new \in NewRows(rows, u, ps) :
            /\ new \in [Rows -> AccessRow]
            /\ \A i \in Rows : new[i] = rows[i] \/ (rows[i] = NoRow /\ NewRow(new[i], u, ps))
<1> SUFFICES ASSUME NEW rows \in [Rows -> AccessRow], NEW u \in Members,
                    NEW ps \in SUBSET Properties, NEW new \in NewRows(rows, u, ps)
             PROVE  /\ new \in [Rows -> AccessRow]
                    /\ \A i \in Rows : \/ new[i] = rows[i]
                                       \/ rows[i] = NoRow /\ NewRow(new[i], u, ps)
  OBVIOUS
<1>1. PICK at \in [ps -> {i \in Rows : rows[i] = NoRow}] :
        new = [i \in Rows |-> IF \E p \in ps : at[p] = i
                              THEN [state |-> "live", of |-> u, perm |-> NoPerm,
                                    prop |-> CHOOSE p \in ps : at[p] = i]
                              ELSE rows[i]]
  BY DEF NewRows
<1>2. ASSUME NEW i \in Rows, NEW p \in ps, at[p] = i
      PROVE  rows[i] = NoRow /\ NewRow(new[i], u, ps)
  <2>1. rows[i] = NoRow BY <1>2
  <2>2. new[i] = [state |-> "live", of |-> u, perm |-> NoPerm,
                  prop |-> CHOOSE q \in ps : at[q] = i]
    BY <1>1, <1>2
  <2>3. (CHOOSE q \in ps : at[q] = i) \in ps BY <1>2
  <2> QED BY <2>1, <2>2, <2>3, NoPermType DEF NewRow, AccessRow, Opt
<1>3. ASSUME NEW i \in Rows, ~(\E p \in ps : at[p] = i) PROVE new[i] = rows[i]
  BY <1>1, <1>3
<1>4. \A i \in Rows : new[i] = rows[i] \/ (rows[i] = NoRow /\ NewRow(new[i], u, ps))
  BY <1>2, <1>3
<1>5. new \in [Rows -> AccessRow]
  <2>1. DOMAIN new = Rows /\ new = [i \in Rows |-> new[i]] BY <1>1
  <2> QED BY <1>4, <2>1 DEF NewRow
<1> QED BY <1>4, <1>5

LEMMA DeletedType ==
    \A rows \in [Rows -> AccessRow], u \in Members, ps \in SUBSET Properties :
        /\ Deleted(rows, u, ps) \in [Rows -> AccessRow]
        /\ \A i \in Rows : Deleted(rows, u, ps)[i] =
             IF rows[i].of = u /\ rows[i].prop \in ps THEN Gone ELSE rows[i]
<1>1. Gone \in AccessRow
  BY NoPermType DEF Gone, NoRow, AccessRow, Opt
<1> QED BY <1>1 DEF Deleted

LEMMA GranularType ==
    \A dto \in Dtos :
        /\ dto.flags \subseteq Modules
        /\ StripGlobalOnlyFromGranular(dto.granular) \in Granular
        /\ \A m \in Modules \ RowModules :
             StripGlobalOnlyFromGranular(dto.granular)[m] = Empty
        /\ dto.granular # None => \A g \in Granular :
             /\ MergeGranularPermissions(g, dto.granular) \in Granular
             /\ \A m \in Modules \ dto.granular.stated :
                  MergeGranularPermissions(g, dto.granular)[m] = g[m]
<1> TAKE dto \in Dtos
<1>1. dto \in Dto BY DtosAssumption
<1>2. dto.flags \subseteq Modules BY <1>1 DEF Dto
<1>3. ASSUME dto.granular # None
      PROVE  dto.granular.stated \subseteq Modules /\ dto.granular.json \in Granular
  BY <1>1, <1>3 DEF Dto
<1>4. StripGlobalOnlyFromGranular(dto.granular) \in Granular
  BY <1>3, NoPermType DEF StripGlobalOnlyFromGranular, Granular
<1>5. \A m \in Modules \ RowModules : StripGlobalOnlyFromGranular(dto.granular)[m] = Empty
  BY DEF StripGlobalOnlyFromGranular
<1>6. ASSUME dto.granular # None, NEW g \in Granular
      PROVE  /\ MergeGranularPermissions(g, dto.granular) \in Granular
             /\ \A m \in Modules \ dto.granular.stated :
                  MergeGranularPermissions(g, dto.granular)[m] = g[m]
  BY <1>3, <1>6 DEF MergeGranularPermissions, Granular
<1> QED BY <1>2, <1>4, <1>5, <1>6

-----------------------------------------------------------------------------
(* What a step of the handler in slot s leaves true for the others.        *)
Frame(s) ==
    /\ raced \subseteq raced'
    /\ \A u \in Members : profile[u].state # "none" =>
         /\ profile'[u].state # "none"
         /\ book'[u] = book[u] \/ book'[u] = None
    /\ \A z \in Slots : z # s =>
         /\ req'[z] = req[z]
         /\ \A u \in Members : req[z].of = u /\ u \notin raced' =>
              /\ book'[u] = book[u]
              /\ profile'[u].perm.granular = profile[u].perm.granular
         /\ \A c \in Complaints : req[z].on = c /\ Exists(c) /\ c \notin raced' =>
              complaint'[c].status = complaint[c].status
    /\ \A c \in Complaints : Exists(c) =>
         complaint'[c].status # None /\ complaint'[c].prop = complaint[c].prop

LEMMA OthersOK ==
    ASSUME IInv, NEW s \in Slots, Frame(s), NEW z \in Slots, z # s
    PROVE  RequestOK(req[z])'
<1>1. RequestOK(req[z]) /\ req'[z] = req[z] /\ req[z] \in Request
  BY DEF IInv, Frame, TypeOK
<1>2. ASSUME req[z].of # None
      PROVE  /\ profile'[req[z].of].state # "none"
             /\ req[z].of \notin raced' => /\ book'[req[z].of] # None
                                           /\ profile'[req[z].of].perm.granular =
                                                profile[req[z].of].perm.granular
             /\ book'[req[z].of] # None => book'[req[z].of] = book[req[z].of]
             /\ req[z].of \notin raced' => req[z].of \notin raced
  <2>1. req[z].of \in Members BY <1>1, <1>2 DEF Request, Opt
  <2> QED BY <1>1, <1>2, <2>1 DEF Frame, RequestOK, Known
<1>3. ASSUME req[z].h \in OnComplaint
      PROVE  /\ req[z].on \in Complaints
             /\ complaint'[req[z].on].status # None
             /\ complaint'[req[z].on].prop = complaint[req[z].on].prop
             /\ req[z].on \notin raced' =>
                  /\ req[z].on \notin raced
                  /\ complaint'[req[z].on].status = complaint[req[z].on].status
  BY <1>1, <1>3 DEF Frame, RequestOK, Exists
<1>4. req[z].of # None => Known(req[z].of)'
  BY <1>1, <1>2 DEF Known
<1>5. req[z].h = "editStaffAccess" => \A p \in req[z].add : (OwnerOf[p] = book'[req[z].of] \/ book'[req[z].of] = None)
  BY <1>1, <1>2 DEF RequestOK, OfMember, Ties
<1>6. req[z].of # None /\ req[z].h \in {"createComplaintByOwner", "createComplaintByTenant"} =>
        (book'[req[z].of] # None => book'[req[z].of] = OwnerOf[req[z].prop])
  BY <1>1, <1>2 DEF RequestOK, Ties
<1>7. req[z].of # None /\ req[z].h = "assignMaintenanceStaff" =>
        (book'[req[z].of] # None => book'[req[z].of] = OwnerOf[complaint'[req[z].on].prop])
  BY <1>1, <1>2, <1>3 DEF RequestOK, Ties, OnComplaint
<1>8. req[z].h = "editComplaintByTenant" =>
        (req[z].on \notin raced' => complaint'[req[z].on].status = "OPEN")
  BY <1>1, <1>3 DEF RequestOK, OnComplaint
<1>9. req[z].h = "updateProfilePermissions" =>
        /\ req[z].dto \in Dtos /\ req[z].granular \in Granular
        /\ (req[z].of \notin raced' => req[z].granular = profile'[req[z].of].perm.granular)
  BY <1>1, <1>2 DEF RequestOK, OfMember
<1>10. req[z].h \in OfMember => req[z].of # None
  BY <1>1 DEF RequestOK
<1>11. req[z].h = "createMaintenanceStaff" =>
         req[z].owner \in Owners /\ \A p \in req[z].add : OwnerOf[p] = req[z].owner
  BY <1>1 DEF RequestOK
<1>12. req[z].h = "updateRowPermissions" => req[z].row \in Rows /\ req[z].dto \in Dtos
  BY <1>1 DEF RequestOK
<1>13. /\ req[z].h \in {"createComplaintByOwner", "createComplaintByTenant"} =>
            req[z].prop \in Properties /\ (req[z].of # None => req[z].owner = None)
       /\ req[z].h = "assignMaintenanceStaff" => req[z].owner \in Owners
       /\ req[z].h = "insertPhotos" => req[z].photos # 0
  BY <1>1 DEF RequestOK
<1> QED
  BY <1>1, <1>3, <1>4, <1>5, <1>6, <1>7, <1>8, <1>9, <1>10, <1>11, <1>12, <1>13
  DEF RequestOK, Ties, Exists, OfMember

(* The goal of every action of slot s.                                     *)
Good(s) == TypeOK' /\ DataOK' /\ Frame(s) /\ RequestOK(req[s])'

LEMMA GoodIsInv ==
    ASSUME IInv, NEW s \in Slots, Good(s) PROVE IInv'
BY OthersOK DEF IInv, Good

(* A handler that reads leaves everything as it was.                       *)
LEMMA ReadGood ==
    ASSUME IInv, NEW s \in Slots, NEW STATE r, r \in Request, RequestOK(r),
           req' = [req EXCEPT ![s] = r], UNCHANGED <<staffVars, complaint, raced, workload>>
    PROVE  Good(s)
<1>1. req'[s] = r /\ req' \in [Slots -> Request]
  BY DEF IInv, TypeOK
<1>2. TypeOK'
  BY <1>1 DEF IInv, TypeOK, staffVars
<1>3. DataOK'
  BY DEF IInv, DataOK, MemberOK, RowOK, ComplaintOK, Ties, Known, Exists, staffVars
<1>4. Frame(s)
  BY DEF Frame, staffVars, Exists, IInv, TypeOK
<1>5. RequestOK(req[s])'
  BY <1>1 DEF RequestOK, Ties, Known, Exists, staffVars
<1> QED BY <1>2, <1>3, <1>4, <1>5 DEF Good

(* A member somebody finds in the employee book.                           *)
LEMMA EmployedTies ==
    ASSUME IInv, NEW u \in Members
    PROVE  /\ book[u] # None => Known(u)
           /\ book[u] # None => profile[u].state = "active"
           /\ \A p \in Properties : book[u] = OwnerOf[p] => Ties(u, p) /\ book[u] # None
BY OwnerOfAssumption, StaffNoneAssumption
   DEF IInv, DataOK, MemberOK, Known, Ties

LEMMA StaffReadsGood ==
    ASSUME IInv, NEW s \in Slots, StaffReads(s), UNCHANGED <<complaint, workload>>
    PROVE  Good(s)
<1>1. ASSUME NEW o \in Owners, NEW scope \in {AllProperties, Selective},
             NEW ps \in SUBSET Properties, CreateMaintenanceStaffRead(s, o, scope, ps)
      PROVE  Good(s)
  <2> DEFINE r == [Idle EXCEPT !.h = "createMaintenanceStaff", !.owner = o,
                               !.scope = scope, !.add = ps]
  <2>1. r \in Request BY IdleType, ZenonT(60) DEF Request, HandlerNames, Opt
  <2>2. r.h = "createMaintenanceStaff" /\ r.owner = o /\ r.add = ps /\ r.of = None
    BY IdleType DEF Idle
  <2>3. \A p \in ps : OwnerOf[p] = o
    BY <1>1 DEF CreateMaintenanceStaffRead, PropertiesOf
  <2>4. RequestOK(r) BY <2>2, <2>3 DEF RequestOK, OfMember, OnComplaint
  <2>5. req' = [req EXCEPT ![s] = r] /\ UNCHANGED <<staffVars, raced>>
    BY <1>1 DEF CreateMaintenanceStaffRead, Remember
  <2> QED BY <2>1, <2>4, <2>5, ReadGood
<1>2. ASSUME NEW u \in Members, NEW add \in SUBSET Properties, NEW remove \in SUBSET Properties,
             EditStaffAccessRead(s, u, add, remove)
      PROVE  Good(s)
  <2> DEFINE r == [Idle EXCEPT !.h = "editStaffAccess", !.of = u, !.scope = profile[u].scope,
                               !.add = add, !.remove = remove]
  <2>1. r \in Request
    <3>1. profile[u].scope \in {AllProperties, Selective}
      BY DEF IInv, TypeOK, ProfileRow
    <3> QED BY <3>1, IdleType DEF Request, HandlerNames, Opt
  <2>2. r.h = "editStaffAccess" /\ r.of = u /\ r.add = add BY IdleType DEF Idle
  <2>3. \A p \in add : p \in Properties /\ book[u] = OwnerOf[p]
    BY <1>2 DEF EditStaffAccessRead, PropertiesOf
  <2>4. Known(u) /\ (\A p \in add : Ties(u, p))
    BY <1>2, <2>3, EmployedTies DEF EditStaffAccessRead, InBook
  <2>5. u # None BY StaffNoneAssumption
  <2>6. RequestOK(r) BY <2>2, <2>4, <2>5 DEF RequestOK, OfMember, OnComplaint
  <2>7. req' = [req EXCEPT ![s] = r] /\ UNCHANGED <<staffVars, raced>>
    BY <1>2 DEF EditStaffAccessRead, Remember
  <2> QED BY <2>1, <2>6, <2>7, ReadGood
<1>3. ASSUME NEW u \in Members, DeleteStaffRead(s, u) PROVE Good(s)
  <2> DEFINE r == [Idle EXCEPT !.h = "deleteStaff", !.of = u]
  <2>1. r \in Request BY IdleType, ZenonT(60) DEF Request, HandlerNames, Opt
  <2>2. r.h = "deleteStaff" /\ r.of = u BY IdleType DEF Idle
  <2>3. Known(u) /\ u # None
    BY <1>3, EmployedTies, StaffNoneAssumption DEF DeleteStaffRead, InBook
  <2>4. RequestOK(r) BY <2>2, <2>3 DEF RequestOK, OfMember, OnComplaint
  <2>5. req' = [req EXCEPT ![s] = r] /\ UNCHANGED <<staffVars, raced>>
    BY <1>3 DEF DeleteStaffRead, Remember
  <2> QED BY <2>1, <2>4, <2>5, ReadGood
<1>4. ASSUME NEW u \in Members, NEW p \in Properties, NEW dto \in Dtos,
             UpdateRowPermissionsRead(s, u, p, dto)
      PROVE  Good(s)
  <2>1. PICK i \in RowsOf(u, p) :
          req' = [req EXCEPT ![s] = [Idle EXCEPT !.h = "updateRowPermissions", !.of = u,
                                                 !.row = i, !.prop = p, !.dto = dto]]
    BY <1>4 DEF UpdateRowPermissionsRead, Remember
  <2> DEFINE r == [Idle EXCEPT !.h = "updateRowPermissions", !.of = u, !.row = i, !.prop = p,
                               !.dto = dto]
  <2>2. i \in Rows BY <2>1 DEF RowsOf
  <2>3. r \in Request BY <2>2, IdleType, ZenonT(60) DEF Request, HandlerNames, Opt
  <2>4. r.h = "updateRowPermissions" /\ r.of = u /\ r.row = i /\ r.dto = dto
    BY IdleType DEF Idle
  <2>5. Known(u) /\ u # None
    BY <1>4, EmployedTies, StaffNoneAssumption DEF UpdateRowPermissionsRead, InBook
  <2>6. RequestOK(r) BY <2>2, <2>4, <2>5 DEF RequestOK, OfMember, OnComplaint
  <2>7. UNCHANGED <<staffVars, raced>> BY <1>4 DEF UpdateRowPermissionsRead
  <2> QED BY <2>1, <2>3, <2>6, <2>7, ReadGood
<1>5. ASSUME NEW u \in Members, NEW dto \in Dtos, UpdateProfilePermissionsRead(s, u, dto)
      PROVE  Good(s)
  <2> DEFINE g == profile[u].perm.granular
             r == [Idle EXCEPT !.h = "updateProfilePermissions", !.of = u, !.dto = dto,
                               !.granular = profile[u].perm.granular]
  <2>1. g \in Granular BY DEF IInv, TypeOK, ProfileRow, Perm
  <2>2. r \in Request BY <2>1, IdleType, ZenonT(60) DEF Request, HandlerNames, Opt
  <2>3. r.h = "updateProfilePermissions" /\ r.of = u /\ r.dto = dto /\ r.granular = g
    BY IdleType DEF Idle
  <2>4. Known(u) /\ u # None
    BY <1>5, EmployedTies, StaffNoneAssumption DEF UpdateProfilePermissionsRead, InBook
  <2>5. RequestOK(r) BY <2>1, <2>3, <2>4 DEF RequestOK, OfMember, OnComplaint
  <2>6. req' = [req EXCEPT ![s] = r] /\ UNCHANGED <<staffVars, raced>>
    BY <1>5 DEF UpdateProfilePermissionsRead, Remember
  <2> QED BY <2>2, <2>5, <2>6, ReadGood
<1> QED BY <1>1, <1>2, <1>3, <1>4, <1>5 DEF StaffReads

LEMMA OwnerRequest ==
    ASSUME NEW p \in Properties, NEW u \in Opt(Members), NEW o \in Opt(Owners)
    PROVE  [Idle EXCEPT !.h = "createComplaintByOwner", !.prop = p, !.of = u, !.owner = o]
               \in Request
<1>1. "createComplaintByOwner" \in HandlerNames BY DEF HandlerNames
<1>2. p \in Opt(Properties) BY DEF Opt
<1> QED BY <1>1, <1>2, IdleType, ZenonT(60) DEF Request

LEMMA ComplaintReadsGood ==
    ASSUME IInv, NEW s \in Slots, ComplaintReads(s), UNCHANGED workload
    PROVE  Good(s)
<1>1. ASSUME NEW p \in Properties, CreateComplaintByTenantRead(s, p) PROVE Good(s)
  <2> DEFINE r == [Idle EXCEPT !.h = "createComplaintByTenant", !.prop = p]
  <2>1. r \in Request BY IdleType, ZenonT(60) DEF Request, HandlerNames, Opt
  <2>2. r.h = "createComplaintByTenant" /\ r.prop = p /\ r.of = None BY IdleType DEF Idle
  <2>3. RequestOK(r) BY <2>2 DEF RequestOK, OfMember, OnComplaint
  <2>4. req' = [req EXCEPT ![s] = r] /\ UNCHANGED <<staffVars, complaint, raced>>
    BY <1>1 DEF CreateComplaintByTenantRead, Remember
  <2> QED BY <2>1, <2>3, <2>4, ReadGood
<1>2. ASSUME NEW p \in Properties, NEW u \in Opt(Members), NEW self \in BOOLEAN,
             CreateComplaintByOwnerRead(s, p, u, self)
      PROVE  Good(s)
  <2> DEFINE o == IF self THEN OwnerOf[p] ELSE None
             r == [Idle EXCEPT !.h = "createComplaintByOwner", !.prop = p, !.of = u,
                               !.owner = IF self THEN OwnerOf[p] ELSE None]
  <2>1. o \in Opt(Owners) /\ u \in Opt(Members) BY OwnerOfAssumption DEF Opt
  <2>2. r \in Request BY <2>1, OwnerRequest
  <2>3. r.h = "createComplaintByOwner" /\ r.prop = p /\ r.of = u /\ r.owner = o
    BY IdleType DEF Idle
  <2>4. u # None => o = None /\ Known(u) /\ Ties(u, p)
    BY <1>2, EmployedTies DEF CreateComplaintByOwnerRead, Opt
  <2>5. RequestOK(r) BY <2>3, <2>4 DEF RequestOK, OfMember, OnComplaint
  <2>6. req' = [req EXCEPT ![s] = r] /\ UNCHANGED <<staffVars, complaint, raced>>
    BY <1>2 DEF CreateComplaintByOwnerRead, Remember
  <2> QED BY <2>2, <2>5, <2>6, ReadGood
<1>3. ASSUME NEW c \in Complaints, NEW u \in Opt(Members), AssignMaintenanceStaffRead(s, c, u)
      PROVE  Good(s)
  <2> DEFINE o == OwnerOf[complaint[c].prop]
             r == [Idle EXCEPT !.h = "assignMaintenanceStaff", !.on = c, !.of = u,
                               !.owner = OwnerOf[complaint[c].prop]]
  <2>1. complaint[c].prop \in Properties /\ Exists(c)
    BY <1>3 DEF AssignMaintenanceStaffRead, IInv, DataOK, ComplaintOK
  <2>2. o \in Owners BY <2>1, OwnerOfAssumption
  <2>3. r \in Request BY <2>2, IdleType, ZenonT(60) DEF Request, HandlerNames, Opt
  <2>4. r.h = "assignMaintenanceStaff" /\ r.on = c /\ r.of = u /\ r.owner = o
    BY IdleType DEF Idle
  <2>5. u # None => Known(u) /\ Ties(u, complaint[c].prop)
    BY <1>3, <2>1, EmployedTies DEF AssignMaintenanceStaffRead, Opt
  <2>6. RequestOK(r)
    BY <2>1, <2>2, <2>4, <2>5 DEF RequestOK, OfMember, OnComplaint
  <2>7. req' = [req EXCEPT ![s] = r] /\ UNCHANGED <<staffVars, complaint, raced>>
    BY <1>3 DEF AssignMaintenanceStaffRead, Remember
  <2> QED BY <2>3, <2>6, <2>7, ReadGood
<1>4. ASSUME NEW c \in Complaints, NEW n \in 0..MaxPhotos, EditComplaintByTenantRead(s, c, n)
      PROVE  Good(s)
  <2> DEFINE k == complaint[c].photos
             r == [Idle EXCEPT !.h = "editComplaintByTenant", !.on = c,
                               !.count = complaint[c].photos, !.photos = n]
  <2>1. k \in Nat /\ n \in Nat BY PhotosAssumption DEF IInv, TypeOK, ComplaintRow
  <2>2. r \in Request BY <2>1, IdleType, ZenonT(60) DEF Request, HandlerNames, Opt
  <2>3. r.h = "editComplaintByTenant" /\ r.on = c /\ r.of = None
    BY IdleType DEF Idle
  <2>4. Exists(c) /\ complaint[c].status = "OPEN"
    BY <1>4 DEF EditComplaintByTenantRead, Editable, NonEditableStatuses, Exists,
                IInv, TypeOK, ComplaintRow
  <2>5. RequestOK(r) BY <2>3, <2>4 DEF RequestOK, OfMember, OnComplaint
  <2>6. req' = [req EXCEPT ![s] = r] /\ UNCHANGED <<staffVars, complaint, raced>>
    BY <1>4 DEF EditComplaintByTenantRead, Remember
  <2> QED BY <2>2, <2>5, <2>6, ReadGood
<1>5. ASSUME NEW c \in Complaints, NEW n \in 0..MaxPhotos, AddComplaintPhotosRead(s, c, n)
      PROVE  Good(s)
  <2> DEFINE r == [Idle EXCEPT !.h = "addComplaintPhotos", !.on = c, !.photos = n]
  <2> n \in Nat BY PhotosAssumption
  <2>1. r \in Request BY IdleType, ZenonT(60) DEF Request, HandlerNames, Opt
  <2>2. r.h = "addComplaintPhotos" /\ r.on = c /\ r.of = None BY IdleType DEF Idle
  <2>3. Exists(c) BY <1>5 DEF AddComplaintPhotosRead
  <2>4. RequestOK(r) BY <2>2, <2>3 DEF RequestOK, OfMember, OnComplaint
  <2>5. req' = [req EXCEPT ![s] = r] /\ UNCHANGED <<staffVars, complaint, raced>>
    BY <1>5 DEF AddComplaintPhotosRead, Remember
  <2> QED BY <2>1, <2>4, <2>5, ReadGood
<1> QED BY <1>1, <1>2, <1>3, <1>4, <1>5 DEF ComplaintReads

-----------------------------------------------------------------------------
(* Writes.                                                                 *)

LEMMA IdleLeft ==
    ASSUME NEW s \in Slots, req'[s] = Idle PROVE RequestOK(req[s])'
BY IdleType DEF RequestOK, OfMember, OnComplaint

LEMMA DoneLeft ==
    ASSUME TypeOK, NEW s \in Slots, Done(s)
    PROVE  /\ req' = [req EXCEPT ![s] = Idle] /\ req'[s] = Idle /\ req'[s] \in Request
           /\ RequestOK(req[s])'
<1>1. req' = [req EXCEPT ![s] = Idle] /\ req'[s] = Idle BY DEF Done, TypeOK
<1> QED BY <1>1, IdleLeft, IdleType

LEMMA WroteFrame ==
    ASSUME TypeOK, NEW s \in Slots, NEW STATE about, about \subseteq Members \cup Complaints,
           Wrote(s, about)
    PROVE  /\ raced \subseteq raced' /\ raced' \subseteq Members \cup Complaints
           /\ \A z \in Slots, x \in about :
                z # s /\ x # None /\ (req[z].of = x \/ req[z].on = x) => x \in raced'
BY DEF Wrote, TypeOK, Subjects

LEMMA SubjectsType ==
    ASSUME TypeOK, NEW s \in Slots PROVE Subjects(req[s]) \subseteq Members \cup Complaints
BY DEF Subjects, TypeOK, Request, Opt

(* A write of one complaint that leaves the staff alone.                   *)
LEMMA ComplaintWriteGood ==
    ASSUME IInv, NEW s \in Slots, NEW c \in Complaints, NEW STATE row, row \in ComplaintRow,
           UNCHANGED <<staffVars, workload>>, complaint' = [complaint EXCEPT ![c] = row],
           row.status # None, row.prop \in Properties,
           Exists(c) => row.prop = complaint[c].prop,
           row.staff # None => row.owner = None /\ Ties(row.staff, row.prop),
           raced \subseteq raced', raced' \subseteq Members \cup Complaints,
           row.status = complaint[c].status
             \/ \A z \in Slots : z # s /\ req[z].on = c /\ Exists(c) => c \in raced',
           req' = [req EXCEPT ![s] = req'[s]], req'[s] \in Request, RequestOK(req[s])'
    PROVE  Good(s)
<1>1. complaint'[c] = row /\ \A x \in Complaints : x # c => complaint'[x] = complaint[x]
  BY DEF IInv, TypeOK
<1>2. TypeOK'
  BY DEF IInv, TypeOK, staffVars
<1>3. \A u : Known(u) => Known(u)'
  BY DEF Known, staffVars
<1>4. \A x \in Complaints : ComplaintOK(x)'
  <2> TAKE x \in Complaints
  <2>1. CASE x = c
    BY <2>1, <1>1, <1>3 DEF ComplaintOK, Ties, Exists, staffVars
  <2>2. CASE x # c
    BY <2>2, <1>1, <1>3 DEF IInv, DataOK, ComplaintOK, Ties, Exists, staffVars
  <2> QED BY <2>1, <2>2
<1>5. DataOK'
  BY <1>3, <1>4 DEF IInv, DataOK, MemberOK, RowOK, Ties, staffVars
<1>6. Frame(s)
  BY <1>1 DEF Frame, staffVars, Exists, IInv, TypeOK
<1> QED BY <1>2, <1>5, <1>6 DEF Good

LEMMA PhotosLeft ==
    ASSUME NEW s \in Slots, NEW c \in Complaints, complaint'[c].status # None,
           req'[s].h \in {"insertPhotos", "addComplaintPhotos"}, req'[s].on = c,
           req'[s].h = "insertPhotos" => req'[s].photos # 0,
           req'[s].of # None => Known(req[s].of)'
    PROVE  RequestOK(req[s])'
BY DEF RequestOK, OfMember, OnComplaint, Exists

LEMMA CreateComplaintCommitGood ==
    ASSUME IInv, NEW s \in Slots, NEW c \in Complaints, NEW status \in {"OPEN"} \cup Named,
           NEW tenants \in BOOLEAN, NEW n \in 0..MaxPhotos,
           CreateComplaintCommit(s, c, status, tenants, n), UNCHANGED workload
    PROVE  Good(s)
<1> DEFINE r == req[s]
           row == [NoComplaint EXCEPT !.status = status, !.prop = req[s].prop,
                                      !.tenants = tenants, !.staff = req[s].of,
                                      !.owner = req[s].owner]
           next == [Idle EXCEPT !.h = "insertPhotos", !.on = c, !.photos = n]
<1>1. r \in Request /\ RequestOK(r) /\ r.h \in {"createComplaintByOwner", "createComplaintByTenant"}
  BY DEF IInv, TypeOK, CreateComplaintCommit, Runs
<1>2. status \in Statuses /\ status # None
  BY NamedAssumption, StatusAssumption DEF Statuses
<1>3. row \in ComplaintRow
  BY <1>1, <1>2 DEF NoComplaint, ComplaintRow, Request
<1>4. /\ row.status = status /\ row.prop = r.prop /\ row.staff = r.of /\ row.owner = r.owner
      /\ r.prop \in Properties
      /\ row.staff # None => row.owner = None /\ Ties(row.staff, row.prop)
  BY <1>1 DEF NoComplaint, RequestOK
<1>5. /\ complaint' = [complaint EXCEPT ![c] = row] /\ ~Exists(c)
      /\ UNCHANGED <<staffVars, workload>>
  BY DEF CreateComplaintCommit
<1>6. raced \subseteq raced' /\ raced' \subseteq Members \cup Complaints
  BY WroteFrame, SubjectsType DEF CreateComplaintCommit, IInv
<1>7. complaint'[c].status # None
  BY <1>2, <1>4, <1>5 DEF IInv, TypeOK
<1>8. req' = [req EXCEPT ![s] = req'[s]] /\ req'[s] \in Request /\ RequestOK(req[s])'
  <2>1. CASE n = 0
    BY <2>1, DoneLeft DEF CreateComplaintCommit, IInv
  <2>2. CASE n # 0
    <3>1. n \in Nat BY PhotosAssumption
    <3>2. next \in Request /\ next.h = "insertPhotos" /\ next.on = c
                /\ next.of = None /\ next.photos = n
      BY <3>1, IdleType DEF Request, HandlerNames, Opt, Idle
    <3>3. req' = [req EXCEPT ![s] = next] /\ req'[s] = next
      BY <2>2 DEF CreateComplaintCommit, Remember, IInv, TypeOK
    <3> HIDE DEF next
    <3>4. RequestOK(req[s])' BY <2>2, <3>2, <3>3, <1>7, PhotosLeft
    <3> QED BY <3>2, <3>3, <3>4
  <2> QED BY <2>1, <2>2
<1> HIDE DEF row, next
<1> QED BY <1>2, <1>3, <1>4, <1>5, <1>6, <1>8, ComplaintWriteGood

(* A row that keeps its assignee, property and status.                     *)
LEMMA RowKept ==
    ASSUME IInv, NEW c \in Complaints, Exists(c)
    PROVE  /\ complaint[c] \in ComplaintRow /\ complaint[c].prop \in Properties
           /\ complaint[c].status # None
           /\ complaint[c].staff # None =>
                /\ complaint[c].owner = None
                /\ Ties(complaint[c].staff, complaint[c].prop)
BY DEF IInv, TypeOK, DataOK, ComplaintOK, Exists

LEMMA OnExists ==
    ASSUME IInv, NEW s \in Slots, req[s].h \in OnComplaint
    PROVE  req[s].on \in Complaints /\ Exists(req[s].on)
BY DEF IInv, RequestOK

(* Requests that write about their complaint and leave its assignee,       *)
(* property and status.                                                    *)
LEMMA KeptRowGood ==
    ASSUME IInv, NEW s \in Slots, NEW c \in Complaints, Exists(c),
           NEW STATE row, row \in ComplaintRow, complaint' = [complaint EXCEPT ![c] = row],
           row.status = complaint[c].status, row.prop = complaint[c].prop,
           row.staff = complaint[c].staff, row.owner = complaint[c].owner,
           UNCHANGED <<staffVars, workload>>, Wrote(s, Subjects(req[s])),
           req' = [req EXCEPT ![s] = req'[s]], req'[s] \in Request, RequestOK(req[s])'
    PROVE  Good(s)
<1>1. raced \subseteq raced' /\ raced' \subseteq Members \cup Complaints
  BY WroteFrame, SubjectsType DEF IInv
<1> QED BY <1>1, RowKept, ComplaintWriteGood

(* A request that goes on to insert photos of its complaint.               *)
LEMMA GoesOn ==
    ASSUME IInv, NEW s \in Slots, req[s].h \in OnComplaint, NEW STATE r, r \in Request,
           r.h \in {"insertPhotos", "addComplaintPhotos"},
           r.h = "insertPhotos" => r.photos # 0, r.of = req[s].of, r.on = req[s].on,
           complaint'[req[s].on].status # None, UNCHANGED staffVars,
           Wrote(s, Subjects(req[s])), Remember(s, r)
    PROVE  req' = [req EXCEPT ![s] = req'[s]] /\ req'[s] \in Request /\ RequestOK(req[s])'
<1>1. req' = [req EXCEPT ![s] = r] /\ req'[s] = r BY DEF Remember, IInv, TypeOK
<1>2. raced \subseteq raced' BY WroteFrame, SubjectsType DEF IInv
<1>3. r.of # None => Known(r.of) BY DEF IInv, RequestOK
<1>4. req'[s].of # None => Known(req[s].of)' BY <1>1, <1>2, <1>3 DEF Known, staffVars
<1> QED BY <1>1, <1>4, OnExists, PhotosLeft

LEMMA InsertPhotoGood ==
    ASSUME IInv, NEW s \in Slots, InsertPhoto(s), UNCHANGED workload PROVE Good(s)
<1> DEFINE c == req[s].on
           row == [complaint[c] EXCEPT !.photos = complaint[c].photos + 1]
           r == [req[s] EXCEPT !.photos = req[s].photos - 1]
<1>1. req[s].h = "insertPhotos" /\ req[s] \in Request /\ RequestOK(req[s])
  BY DEF InsertPhoto, Runs, IInv, TypeOK
<1>2. c \in Complaints /\ Exists(c) /\ req[s].h \in OnComplaint
  BY <1>1, OnExists DEF OnComplaint
<1>3. complaint[c] \in ComplaintRow BY <1>2, RowKept
<1>4. /\ row \in ComplaintRow
      /\ row.status = complaint[c].status /\ row.prop = complaint[c].prop
      /\ row.staff = complaint[c].staff /\ row.owner = complaint[c].owner
  BY <1>3 DEF ComplaintRow
<1>5. complaint' = [complaint EXCEPT ![c] = row] /\ complaint'[c] = row
  BY <1>2 DEF InsertPhoto, IInv, TypeOK
<1>6. req' = [req EXCEPT ![s] = req'[s]] /\ req'[s] \in Request /\ RequestOK(req[s])'
  <2>1. CASE req[s].photos = 1 BY <2>1, DoneLeft DEF InsertPhoto, IInv
  <2>2. CASE req[s].photos # 1
    <3>1. req[s].photos \in Nat /\ req[s].photos # 0 BY <1>1 DEF Request, RequestOK
    <3>2. req[s].photos - 1 \in Nat /\ req[s].photos - 1 # 0 BY <2>2, <3>1
    <3>3. r \in Request /\ r.h = "insertPhotos" /\ r.of = req[s].of /\ r.on = req[s].on
          /\ r.photos # 0
      BY <1>1, <3>2 DEF Request
    <3>4. Remember(s, r) BY <2>2 DEF InsertPhoto
    <3>5. complaint'[req[s].on].status # None BY <1>2, <1>4, <1>5 DEF Exists
    <3>6. Wrote(s, Subjects(req[s])) /\ UNCHANGED staffVars BY DEF InsertPhoto
    <3> HIDE DEF r
    <3> QED BY <1>2, <3>3, <3>4, <3>5, <3>6, GoesOn
  <2> QED BY <2>1, <2>2
<1>7. Wrote(s, Subjects(req[s])) /\ UNCHANGED <<staffVars, workload>> BY DEF InsertPhoto
<1> HIDE DEF row, c
<1> QED BY <1>2, <1>4, <1>5, <1>6, <1>7, KeptRowGood

LEMMA AddComplaintPhotosCommitGood ==
    ASSUME IInv, NEW s \in Slots, AddComplaintPhotosCommit(s), UNCHANGED workload
    PROVE  Good(s)
<1> DEFINE c == req[s].on
           row == [complaint[c] EXCEPT !.photos = complaint[c].photos + req[s].photos]
<1>1. req[s].h \in OnComplaint /\ req[s] \in Request
  BY DEF AddComplaintPhotosCommit, Runs, IInv, TypeOK, OnComplaint
<1>2. c \in Complaints /\ Exists(c) BY <1>1, OnExists
<1>3. complaint[c] \in ComplaintRow BY <1>2, RowKept
<1>4. /\ row \in ComplaintRow
      /\ row.status = complaint[c].status /\ row.prop = complaint[c].prop
      /\ row.staff = complaint[c].staff /\ row.owner = complaint[c].owner
  BY <1>1, <1>3 DEF ComplaintRow, Request
<1>5. complaint' = [complaint EXCEPT ![c] = row]
  BY <1>2 DEF AddComplaintPhotosCommit, IInv, TypeOK
<1>6. req' = [req EXCEPT ![s] = req'[s]] /\ req'[s] \in Request /\ RequestOK(req[s])'
  BY DoneLeft DEF AddComplaintPhotosCommit, IInv
<1>7. Wrote(s, Subjects(req[s])) /\ UNCHANGED <<staffVars, workload>>
  BY DEF AddComplaintPhotosCommit
<1> HIDE DEF row, c
<1> QED BY <1>2, <1>4, <1>5, <1>6, <1>7, KeptRowGood

LEMMA EditComplaintByTenantWriteGood ==
    ASSUME IInv, NEW s \in Slots, EditComplaintByTenantWrite(s), UNCHANGED workload
    PROVE  Good(s)
<1> DEFINE c == req[s].on
           row == [complaint[c] EXCEPT !.edited = TRUE]
           r == [req[s] EXCEPT !.h = "addComplaintPhotos"]
           goes == req[s].photos > 0 /\ Fit(req[s].count, req[s].photos)
<1>1. req[s].h \in OnComplaint /\ req[s] \in Request
  BY DEF EditComplaintByTenantWrite, Runs, IInv, TypeOK, OnComplaint
<1>2. c \in Complaints /\ Exists(c) BY <1>1, OnExists
<1>3. complaint[c] \in ComplaintRow BY <1>2, RowKept
<1>4. /\ row \in ComplaintRow
      /\ row.status = complaint[c].status /\ row.prop = complaint[c].prop
      /\ row.staff = complaint[c].staff /\ row.owner = complaint[c].owner
  BY <1>3 DEF ComplaintRow
<1>5. complaint' = [complaint EXCEPT ![c] = row] /\ complaint'[c] = row
  BY <1>2 DEF EditComplaintByTenantWrite, IInv, TypeOK
<1>6. Wrote(s, Subjects(req[s])) /\ UNCHANGED <<staffVars, workload>>
  BY DEF EditComplaintByTenantWrite
<1>7. req' = [req EXCEPT ![s] = req'[s]] /\ req'[s] \in Request /\ RequestOK(req[s])'
  <2>1. CASE ~goes BY <2>1, DoneLeft DEF EditComplaintByTenantWrite, IInv
  <2>2. CASE goes
    <3>1. r \in Request /\ r.h = "addComplaintPhotos" /\ r.of = req[s].of /\ r.on = req[s].on
      BY <1>1 DEF Request, HandlerNames
    <3>2. Remember(s, r) BY <2>2 DEF EditComplaintByTenantWrite
    <3>3. complaint'[req[s].on].status # None BY <1>2, <1>4, <1>5 DEF Exists
    <3> HIDE DEF r
    <3> QED BY <1>1, <1>6, <3>1, <3>2, <3>3, GoesOn
  <2> QED BY <2>1, <2>2
<1> HIDE DEF row, c
<1> QED BY <1>2, <1>4, <1>5, <1>6, <1>7, KeptRowGood

LEMMA AssignMaintenanceStaffCommitGood ==
    ASSUME IInv, NEW s \in Slots, AssignMaintenanceStaffCommit(s), UNCHANGED workload
    PROVE  Good(s)
<1> DEFINE c == req[s].on
           u == req[s].of
           o == req[s].owner
           row == IF req[s].of = None
                  THEN [complaint[req[s].on] EXCEPT !.owner = req[s].owner, !.staff = None,
                                                    !.status = "ASSIGNED"]
                  ELSE [complaint[req[s].on] EXCEPT !.staff = req[s].of, !.owner = None,
                                                    !.status = "ASSIGNED"]
<1>1. /\ req[s].h = "assignMaintenanceStaff" /\ req[s] \in Request
      /\ RequestOK(req[s])
  BY DEF AssignMaintenanceStaffCommit, Runs, IInv, TypeOK
<1>2. c \in Complaints /\ Exists(c) BY <1>1, OnExists DEF OnComplaint
<1>3. complaint[c] \in ComplaintRow /\ complaint[c].prop \in Properties BY <1>2, RowKept
<1>4. o \in Owners /\ u \in Opt(Members) /\ (u # None => Ties(u, complaint[c].prop))
  BY <1>1 DEF RequestOK, Request
<1>5. /\ row \in ComplaintRow
      /\ row.status = "ASSIGNED" /\ row.prop = complaint[c].prop
      /\ row.staff # None => row.owner = None /\ row.staff = u /\ u # None
  BY <1>3, <1>4 DEF ComplaintRow, Statuses, Opt
<1>6. complaint' = [complaint EXCEPT ![c] = row]
  <2>1. CASE u = None
    BY <2>1, <1>2, <1>3 DEF AssignMaintenanceStaffCommit, BuildAssignToOwnerUpdate, IInv, TypeOK,
                            ComplaintRow
  <2>2. CASE u # None
    BY <2>2, <1>2, <1>3 DEF AssignMaintenanceStaffCommit, BuildAssignToStaffUpdate, IInv, TypeOK,
                            ComplaintRow
  <2> QED BY <2>1, <2>2
<1>7. /\ raced \subseteq raced' /\ raced' \subseteq Members \cup Complaints
      /\ \A z \in Slots : z # s /\ req[z].on = c => c \in raced'
  <2>1. c \in Subjects(req[s]) BY <1>2, StaffNoneAssumption DEF Subjects
  <2>2. c # None BY <1>2, StaffNoneAssumption
  <2> QED BY <2>1, <2>2, WroteFrame, SubjectsType DEF AssignMaintenanceStaffCommit, IInv
<1>8. req' = [req EXCEPT ![s] = req'[s]] /\ req'[s] \in Request /\ RequestOK(req[s])'
  BY DoneLeft DEF AssignMaintenanceStaffCommit, IInv
<1>9. UNCHANGED <<staffVars, workload>> BY DEF AssignMaintenanceStaffCommit
<1>10. row.status # None BY <1>5, StatusAssumption DEF Statuses
<1> HIDE DEF row, c, u, o
<1> QED BY <1>2, <1>3, <1>4, <1>5, <1>6, <1>7, <1>8, <1>9, <1>10, ComplaintWriteGood

LEMMA ChangeStatusGood ==
    ASSUME IInv, NEW s \in Slots, NEW c \in Complaints, NEW status \in Named,
           ChangeStatus(s, c, status), UNCHANGED workload
    PROVE  Good(s)
<1> DEFINE row == [complaint[c] EXCEPT !.status = status]
<1>1. Exists(c) /\ complaint[c] \in ComplaintRow /\ complaint[c].prop \in Properties
  BY RowKept DEF ChangeStatus
<1>2. status \in Statuses /\ status # None BY NamedAssumption, StatusAssumption
<1>3. /\ row \in ComplaintRow
      /\ row.status = status /\ row.prop = complaint[c].prop
      /\ row.staff = complaint[c].staff /\ row.owner = complaint[c].owner
  BY <1>1, <1>2 DEF ComplaintRow
<1>4. complaint' = [complaint EXCEPT ![c] = row] BY DEF ChangeStatus, IInv, TypeOK
<1>5. /\ raced \subseteq raced' /\ raced' \subseteq Members \cup Complaints
      /\ \A z \in Slots : z # s /\ req[z].on = c => c \in raced'
  <2>1. Wrote(s, {c}) /\ c # None BY StaffNoneAssumption DEF ChangeStatus
  <2> QED BY <2>1, WroteFrame DEF IInv
<1>6. req' = [req EXCEPT ![s] = req'[s]] /\ req'[s] \in Request /\ RequestOK(req[s])'
  <2>1. req'[s] = Idle /\ req' = req BY DEF ChangeStatus, Begins
  <2> QED BY <2>1, IdleLeft, IdleType DEF IInv, TypeOK
<1>7. UNCHANGED <<staffVars, workload>> BY DEF ChangeStatus
<1> HIDE DEF row
<1> QED BY <1>1, <1>2, <1>3, <1>4, <1>5, <1>6, <1>7, RowKept, ComplaintWriteGood

LEMMA DeleteStaffGood ==
    ASSUME IInv, NEW s \in Slots, DeleteStaff(s), UNCHANGED workload
    PROVE  Good(s)
<1> DEFINE u == req[s].of
<1>1. u \in Members /\ u # None /\ req[s] \in Request
  BY DEF DeleteStaff, DeleteStaffCommit, Runs, IInv, TypeOK, RequestOK, OfMember, Request, Opt
<1>2. /\ profile' = [profile EXCEPT ![u].state = "removed"]
      /\ book' = [book EXCEPT ![u] = None]
      /\ access' = Deleted(access, u, Properties)
      /\ complaint' = Unassigned(u)
  BY DEF DeleteStaff, DeleteStaffCommit
<1>3. req' = [req EXCEPT ![s] = req'[s]] /\ req'[s] \in Request /\ RequestOK(req[s])'
      /\ req' = [req EXCEPT ![s] = Idle]
  BY DoneLeft DEF DeleteStaff, DeleteStaffCommit, IInv
<1>4. /\ raced \subseteq raced' /\ raced' \subseteq Members \cup Complaints
      /\ \A z \in Slots : z # s /\ req[z].of = u => u \in raced'
  <2>1. u \in Subjects(req[s]) /\ Wrote(s, Subjects(req[s]))
    BY <1>1 DEF Subjects, DeleteStaff, DeleteStaffCommit
  <2> QED BY <1>1, <2>1, WroteFrame, SubjectsType DEF IInv
<1>5. \A v \in Members :
        /\ profile'[v] = IF v = u THEN [profile[u] EXCEPT !.state = "removed"] ELSE profile[v]
        /\ book'[v] = IF v = u THEN None ELSE book[v]
  BY <1>1, <1>2 DEF IInv, TypeOK
<1>6. \A i \in Rows : /\ access'[i] = IF access[i].of = u THEN Gone ELSE access[i]
                      /\ access[i].of # None => access[i].prop \in Properties
  <2> TAKE i \in Rows
  <2>1. access[i] \in AccessRow /\ RowOK(i) BY DEF IInv, TypeOK, DataOK
  <2>2. access[i].of # None => access[i].prop \in Properties BY <2>1 DEF AccessRow, Opt, RowOK
  <2>3. access'[i] = IF access[i].of = u /\ access[i].prop \in Properties THEN Gone ELSE access[i]
    BY <1>1, <1>2, DeletedType DEF IInv, TypeOK
  <2> QED BY <1>1, <2>2, <2>3
<1>7. \A c \in Complaints :
        complaint'[c] = IF complaint[c].staff = u THEN [complaint[c] EXCEPT !.staff = None]
                                                  ELSE complaint[c]
  BY <1>2 DEF Unassigned
<1>8. profile[u] \in ProfileRow /\ [profile[u] EXCEPT !.state = "removed"] \in ProfileRow
  BY <1>1 DEF IInv, TypeOK, ProfileRow
<1>9. TypeOK'
  <2>1. profile' \in [Members -> ProfileRow] /\ book' \in [Members -> Opt(Owners)]
    BY <1>1, <1>2, <1>8 DEF IInv, TypeOK, Opt
  <2>2. access' \in [Rows -> AccessRow]
    BY <1>1, <1>2, DeletedType DEF IInv, TypeOK
  <2>3. complaint' \in [Complaints -> ComplaintRow]
    <3>1. \A c \in Complaints : complaint'[c] \in ComplaintRow
      BY <1>7 DEF IInv, TypeOK, ComplaintRow, Opt
    <3> QED BY <3>1, <1>2 DEF Unassigned
  <2>4. workload' \in Workloads /\ req' \in [Slots -> Request]
    BY <1>3 DEF IInv, TypeOK
  <2> QED BY <1>4, <2>1, <2>2, <2>3, <2>4 DEF TypeOK
<1>10. \A v \in Members : v # u /\ Known(v) => Known(v)'
  BY <1>4, <1>5 DEF Known
<1>11. \A v \in Members : MemberOK(v)'
  <2> TAKE v \in Members
  <2>1. CASE v = u BY <2>1, <1>5, <1>8 DEF MemberOK, ProfileRow
  <2>2. CASE v # u BY <2>2, <1>5 DEF MemberOK, IInv, DataOK
  <2> QED BY <2>1, <2>2
<1>12. \A i \in Rows : RowOK(i)'
  <2> TAKE i \in Rows
  <2>1. access[i] \in AccessRow /\ RowOK(i) BY DEF IInv, TypeOK, DataOK
  <2>2. CASE access[i].of = u BY <2>2, <1>6 DEF RowOK, Gone, NoRow
  <2>3. CASE access[i].of # u
    <3>1. access'[i] = access[i] BY <2>3, <1>6
    <3>2. access[i].of # None => access[i].of \in Members BY <2>1 DEF AccessRow, Opt
    <3> QED BY <2>1, <2>3, <3>1, <3>2, <1>5, <1>10 DEF RowOK, Ties
  <2> QED BY <2>2, <2>3
<1>13. \A c \in Complaints : ComplaintOK(c)'
  <2> TAKE c \in Complaints
  <2>1. complaint[c] \in ComplaintRow /\ ComplaintOK(c) BY DEF IInv, TypeOK, DataOK
  <2>2. CASE complaint[c].staff = u
    <3>1. complaint'[c] = [complaint[c] EXCEPT !.staff = None] BY <2>2, <1>7
    <3>2. complaint'[c].staff = None /\ complaint'[c].prop = complaint[c].prop
          /\ complaint'[c].status = complaint[c].status
      BY <2>1, <3>1 DEF ComplaintRow
    <3> QED BY <2>1, <3>2 DEF ComplaintOK, Exists
  <2>3. CASE complaint[c].staff # u
    <3>1. complaint'[c] = complaint[c] BY <2>3, <1>7
    <3>2. complaint[c].staff # None => complaint[c].staff \in Members
      BY <2>1 DEF ComplaintRow, Opt
    <3> QED BY <2>1, <2>3, <3>1, <3>2, <1>5, <1>10 DEF ComplaintOK, Ties, Exists
  <2> QED BY <2>2, <2>3
<1>14. Frame(s)
  <2>1. \A v \in Members : profile[v].state # "none" =>
          profile'[v].state # "none" /\ (book'[v] = book[v] \/ book'[v] = None)
    BY <1>5, <1>8 DEF ProfileRow
  <2>2. \A z \in Slots : z # s => req'[z] = req[z] BY <1>3 DEF IInv, TypeOK
  <2>3. \A z \in Slots : z # s =>
          \A v \in Members : req[z].of = v /\ v \notin raced' =>
            book'[v] = book[v] /\ profile'[v].perm.granular = profile[v].perm.granular
    BY <1>4, <1>5
  <2>4. \A c \in Complaints : /\ complaint'[c].status = complaint[c].status
                              /\ complaint'[c].prop = complaint[c].prop
    BY <1>7 DEF IInv, TypeOK, ComplaintRow
  <2> HIDE DEF u
  <2> QED BY <1>4, <2>1, <2>2, <2>3, <2>4 DEF Frame, Exists
<1> QED BY <1>3, <1>9, <1>11, <1>12, <1>13, <1>14 DEF Good, DataOK

(* A write of access rows or permissions that leaves employment alone.     *)
LEMMA StaffWriteGood ==
    ASSUME IInv, NEW s \in Slots, UNCHANGED <<book, complaint, workload>>,
           profile' \in [Members -> ProfileRow], access' \in [Rows -> AccessRow],
           \A u \in Members : profile'[u].state = profile[u].state,
           \A u \in Members : profile[u].state = "none" => profile'[u] = profile[u],
           \A i \in Rows : \/ access'[i].of = access[i].of /\ access'[i].prop = access[i].prop
                           \/ access'[i].of = None /\ access'[i].prop = None
                           \/ /\ access'[i].of # None /\ access'[i].prop # None
                              /\ Ties(access'[i].of, access'[i].prop),
           Wrote(s, Subjects(req[s])),
           \A u \in Members : profile'[u].perm # profile[u].perm => u \in Subjects(req[s]),
           Done(s)
    PROVE  Good(s)
<1>1. raced \subseteq raced' /\ raced' \subseteq Members \cup Complaints
  BY WroteFrame, SubjectsType DEF IInv
<1>2. req' = [req EXCEPT ![s] = Idle] /\ req'[s] \in Request /\ RequestOK(req[s])'
  BY DoneLeft DEF IInv
<1>3. TypeOK' BY <1>1, <1>2 DEF IInv, TypeOK
<1>4. ASSUME NEW u \in Members, Known(u)
      PROVE  /\ profile'[u].state # "none" /\ (u \notin raced' => book'[u] # None)
             /\ book'[u] = book[u]
  BY <1>1, <1>4 DEF Known
<1>5. ASSUME NEW u \in Members PROVE MemberOK(u)'
  BY DEF MemberOK, IInv, DataOK
<1>6. ASSUME NEW i \in Rows PROVE RowOK(i)'
  <2>1. RowOK(i) /\ access[i] \in AccessRow /\ access'[i] \in AccessRow
    BY DEF IInv, TypeOK, DataOK
  <2>2. access'[i].of # None => access'[i].of \in Members BY <2>1 DEF AccessRow, Opt
  <2>3. CASE access'[i].of = access[i].of /\ access'[i].prop = access[i].prop
    BY <2>1, <2>2, <2>3, <1>4 DEF RowOK, Ties, Known
  <2>4. CASE access'[i].of = None /\ access'[i].prop = None
    BY <2>4 DEF RowOK
  <2>5. CASE /\ access'[i].of # None /\ access'[i].prop # None
             /\ Ties(access'[i].of, access'[i].prop)
    BY <2>2, <2>5, <1>4 DEF RowOK, Ties, Known
  <2> QED BY <2>3, <2>4, <2>5
<1>7. ASSUME NEW c \in Complaints PROVE ComplaintOK(c)'
  <2>1. ComplaintOK(c) /\ complaint[c] \in ComplaintRow BY DEF IInv, TypeOK, DataOK
  <2>2. complaint[c].staff # None => complaint[c].staff \in Members
    BY <2>1 DEF ComplaintRow, Opt
  <2> QED BY <2>1, <2>2, <1>4 DEF ComplaintOK, Exists, Ties, Known
<1>8. Frame(s)
  <2>1. \A u \in Members : profile[u].state # "none" =>
          profile'[u].state # "none" /\ (book'[u] = book[u] \/ book'[u] = None)
    OBVIOUS
  <2>2. \A z \in Slots : z # s => req'[z] = req[z] BY <1>2 DEF IInv, TypeOK
  <2>3. \A z \in Slots : z # s =>
          \A u \in Members : req[z].of = u /\ u \notin raced' =>
            book'[u] = book[u] /\ profile'[u].perm.granular = profile[u].perm.granular
    <3>1. \A u \in Members : u # None BY StaffNoneAssumption
    <3> QED BY <3>1, WroteFrame, SubjectsType DEF IInv
  <2> QED BY <1>1, <2>1, <2>2, <2>3 DEF Frame, Exists
<1> QED BY <1>2, <1>3, <1>5, <1>6, <1>7, <1>8 DEF Good, DataOK

(* The member a request is about.                                          *)
LEMMA MemberOf ==
    ASSUME IInv, NEW s \in Slots, req[s].h \in OfMember
    PROVE  /\ req[s].of \in Members /\ req[s].of # None /\ req[s].of \in Subjects(req[s])
           /\ req[s] \in Request /\ RequestOK(req[s]) /\ Known(req[s].of)
BY DEF IInv, TypeOK, RequestOK, Request, Opt, Subjects

LEMMA EditStaffAccessCommitGood ==
    ASSUME IInv, NEW s \in Slots, EditStaffAccessCommit(s), UNCHANGED <<complaint, workload>>
    PROVE  Good(s)
<1> DEFINE u == req[s].of
           kept == Deleted(access, u, req[s].remove)
<1>1. req[s].h = "editStaffAccess" /\ req[s].h \in OfMember
  BY DEF EditStaffAccessCommit, Runs, OfMember
<1>2. /\ u \in Members /\ u # None /\ u \in Subjects(req[s])
      /\ req[s].remove \in SUBSET Properties /\ req[s].add \in SUBSET Properties
      /\ Known(u) /\ \A p \in req[s].add : Ties(u, p)
  BY <1>1, MemberOf DEF Request, RequestOK
<1>3. access \in [Rows -> AccessRow] /\ profile \in [Members -> ProfileRow]
  BY DEF IInv, TypeOK
<1>4. /\ kept \in [Rows -> AccessRow]
      /\ \A i \in Rows : kept[i] = access[i] \/ kept[i] = Gone
  BY <1>2, <1>3, DeletedType
<1>5. Gone.of = None /\ Gone.prop = None BY DEF Gone, NoRow
<1>6. /\ access' \in [Rows -> AccessRow]
      /\ \A i \in Rows : \/ access'[i] = kept[i]
                         \/ NewRow(access'[i], u, req[s].add)
  <2>1. CASE Narrows(s) BY <2>1, <1>4 DEF EditStaffAccessCommit
  <2>2. CASE ~Narrows(s)
    <3>1. access' \in NewRows(kept, u, req[s].add) BY <2>2 DEF EditStaffAccessCommit
    <3> HIDE DEF kept, u
    <3> QED BY <3>1, <1>2, <1>4, NewRowsType
  <2> QED BY <2>1, <2>2
<1>7. \A i \in Rows : \/ access'[i].of = access[i].of /\ access'[i].prop = access[i].prop
                      \/ access'[i].of = None /\ access'[i].prop = None
                      \/ /\ access'[i].of # None /\ access'[i].prop # None
                         /\ Ties(access'[i].of, access'[i].prop)
  <2> TAKE i \in Rows
  <2>1. CASE access'[i] = kept[i] BY <2>1, <1>4, <1>5
  <2>2. CASE NewRow(access'[i], u, req[s].add)
    <3>1. access'[i].of = u /\ access'[i].prop \in req[s].add BY <2>2 DEF NewRow
    <3>2. access'[i].prop # None BY <3>1, <1>2, StaffNoneAssumption
    <3> HIDE DEF u
    <3> QED BY <3>1, <3>2, <1>2
  <2> QED BY <2>1, <2>2, <1>6
<1>8. /\ profile' \in [Members -> ProfileRow]
      /\ \A v \in Members : /\ profile'[v].state = profile[v].state
                            /\ profile'[v].perm = profile[v].perm
                            /\ profile[v].state = "none" => profile'[v] = profile[v]
  <2>1. CASE Narrows(s)
    <3>1. profile' = [profile EXCEPT ![u].scope = Selective]
      BY <2>1 DEF EditStaffAccessCommit
    <3>2. profile[u].state # "none" BY <1>2 DEF Known
    <3> HIDE DEF u
    <3> QED BY <3>1, <3>2, <1>2, <1>3 DEF ProfileRow
  <2>2. CASE ~Narrows(s) BY <2>2, <1>3 DEF EditStaffAccessCommit
  <2> QED BY <2>1, <2>2
<1>9. Wrote(s, Subjects(req[s])) /\ Done(s) /\ UNCHANGED book BY DEF EditStaffAccessCommit
<1> QED BY <1>6, <1>7, <1>8, <1>9, StaffWriteGood

LEMMA UpdateRowPermissionsCommitGood ==
    ASSUME IInv, NEW s \in Slots, UpdateRowPermissionsCommit(s),
           UNCHANGED <<complaint, workload>>
    PROVE  Good(s)
<1> DEFINE i == req[s].row
           perm == [flags |-> req[s].dto.flags \cap RowModules,
                    granular |-> StripGlobalOnlyFromGranular(req[s].dto.granular)]
<1>1. i \in Rows /\ req[s].dto \in Dtos
  BY DEF UpdateRowPermissionsCommit, Runs, IInv, RequestOK
<1>2. perm \in RowPerm
  BY <1>1, GranularType DEF RowPerm, Perm
<1>3. access' = [access EXCEPT ![i].perm = perm] BY DEF UpdateRowPermissionsCommit
<1>4. access \in [Rows -> AccessRow] BY DEF IInv, TypeOK
<1> HIDE DEF perm
<1>5. /\ access' \in [Rows -> AccessRow]
      /\ \A j \in Rows : access'[j].of = access[j].of /\ access'[j].prop = access[j].prop
  BY <1>1, <1>2, <1>3, <1>4 DEF AccessRow
<1>6. Wrote(s, Subjects(req[s])) /\ Done(s) /\ UNCHANGED <<profile, book>>
  BY DEF UpdateRowPermissionsCommit
<1> QED BY <1>5, <1>6, StaffWriteGood DEF IInv, TypeOK

LEMMA UpdateProfilePermissionsCommitGood ==
    ASSUME IInv, NEW s \in Slots, UpdateProfilePermissionsCommit(s),
           UNCHANGED <<complaint, workload>>
    PROVE  Good(s)
<1> DEFINE u == req[s].of
           dto == req[s].dto
           perm == [flags |-> req[s].dto.flags,
                    granular |-> IF req[s].dto.granular = None
                                 THEN profile[req[s].of].perm.granular
                                 ELSE MergeGranularPermissions(req[s].granular,
                                                               req[s].dto.granular)]
<1>1. req[s].h = "updateProfilePermissions" /\ req[s].h \in OfMember
  BY DEF UpdateProfilePermissionsCommit, Runs, OfMember
<1>2. /\ u \in Members /\ u \in Subjects(req[s]) /\ Known(u)
      /\ dto \in Dtos /\ req[s].granular \in Granular
  BY <1>1, MemberOf DEF RequestOK
<1>3. profile \in [Members -> ProfileRow] BY DEF IInv, TypeOK
<1>4. profile[u] \in ProfileRow /\ profile[u].perm.granular \in Granular
  BY <1>2, <1>3 DEF ProfileRow, Perm
<1>5. perm \in Perm BY <1>2, <1>4, GranularType DEF Perm
<1>6. profile' = [profile EXCEPT ![u].perm = perm]
  BY <1>2, <1>3 DEF UpdateProfilePermissionsCommit
<1> HIDE DEF perm
<1>7. /\ profile' \in [Members -> ProfileRow]
      /\ \A v \in Members : /\ profile'[v].state = profile[v].state
                            /\ v # u => profile'[v] = profile[v]
  BY <1>2, <1>3, <1>4, <1>5, <1>6 DEF ProfileRow
<1>8. profile[u].state # "none" BY <1>2 DEF Known
<1>9. Wrote(s, Subjects(req[s])) /\ Done(s) /\ UNCHANGED <<book, access>>
  BY DEF UpdateProfilePermissionsCommit
<1> HIDE DEF u
<1> QED BY <1>2, <1>7, <1>8, <1>9, StaffWriteGood DEF IInv, TypeOK

LEMMA CreateMaintenanceStaffCommitGood ==
    ASSUME IInv, NEW s \in Slots, CreateMaintenanceStaffCommit(s),
           UNCHANGED <<complaint, workload>>
    PROVE  Good(s)
<1> DEFINE o == req[s].owner
           new == [state |-> "active", scope |-> req[s].scope, perm |-> NoPerm]
<1>1. /\ req[s] \in Request /\ o \in Owners
      /\ \A p \in req[s].add : p \in Properties /\ OwnerOf[p] = o
  BY DEF CreateMaintenanceStaffCommit, Runs, IInv, TypeOK, RequestOK, Request
<1>2. PICK u \in {v \in Members : profile[v] = NoProfile} :
        /\ profile' = [profile EXCEPT ![u] = [state |-> "active", scope |-> req[s].scope,
                                              perm |-> NoPerm]]
        /\ book' = [book EXCEPT ![u] = req[s].owner]
        /\ access' \in NewRows(access, u, req[s].add)
  BY DEF CreateMaintenanceStaffCommit
<1>3. u \in Members /\ u # None /\ profile[u] = NoProfile /\ profile[u].state = "none"
  BY <1>2, StaffNoneAssumption DEF NoProfile
<1>4. new \in ProfileRow /\ new.state = "active"
  BY <1>1, NoPermType DEF ProfileRow, Request
<1>5. /\ profile \in [Members -> ProfileRow] /\ book \in [Members -> Opt(Owners)]
      /\ access \in [Rows -> AccessRow] /\ complaint \in [Complaints -> ComplaintRow]
  BY DEF IInv, TypeOK
<1>6. UNCHANGED <<raced, complaint, workload>> /\ Done(s)
  BY DEF CreateMaintenanceStaffCommit
<1>7. req' = [req EXCEPT ![s] = Idle] /\ req'[s] \in Request /\ RequestOK(req[s])'
  BY <1>6, DoneLeft DEF IInv
<1> HIDE DEF new
<1>8. \A v \in Members : /\ profile'[v] = IF v = u THEN new ELSE profile[v]
                         /\ book'[v] = IF v = u THEN o ELSE book[v]
  BY <1>2, <1>3, <1>5 DEF new
<1> HIDE DEF o
<1>9. /\ access' \in [Rows -> AccessRow]
      /\ \A i \in Rows : access'[i] = access[i] \/ NewRow(access'[i], u, req[s].add)
  <2>1. req[s].add \in SUBSET Properties BY <1>1 DEF Request
  <2> QED BY <2>1, <1>2, <1>3, <1>5, NewRowsType
<1>10. \A v \in Members : Known(v) => v # u /\ Known(v)' /\ book'[v] = book[v]
  BY <1>3, <1>6, <1>8 DEF Known
<1>11. TypeOK'
  <2>1. profile' \in [Members -> ProfileRow] /\ book' \in [Members -> Opt(Owners)]
    BY <1>1, <1>2, <1>3, <1>4, <1>5 DEF Opt, new, o
  <2>2. raced' \subseteq Members \cup Complaints /\ req' \in [Slots -> Request]
        /\ workload' \in Workloads
    BY <1>6, <1>7 DEF IInv, TypeOK
  <2> QED BY <2>1, <2>2, <1>5, <1>6, <1>9 DEF TypeOK
<1>12. \A v \in Members : MemberOK(v)'
  <2> TAKE v \in Members
  <2>1. o # None BY <1>1, StaffNoneAssumption
  <2>2. CASE v = u BY <2>1, <2>2, <1>4, <1>8 DEF MemberOK
  <2>3. CASE v # u BY <2>3, <1>8 DEF MemberOK, IInv, DataOK
  <2> QED BY <2>2, <2>3
<1>13. \A i \in Rows : RowOK(i)'
  <2> TAKE i \in Rows
  <2>1. access[i] \in AccessRow /\ RowOK(i) BY DEF IInv, TypeOK, DataOK
  <2>2. CASE access'[i] = access[i]
    <3>1. access[i].of # None => access[i].of \in Members BY <2>1 DEF AccessRow, Opt
    <3> QED BY <2>1, <2>2, <3>1, <1>10 DEF RowOK, Ties
  <2>3. CASE NewRow(access'[i], u, req[s].add)
    <3>1. access'[i].of = u /\ access'[i].prop \in req[s].add BY <2>3 DEF NewRow
    <3>2. access'[i].prop # None /\ OwnerOf[access'[i].prop] = o
      BY <3>1, <1>1, StaffNoneAssumption
    <3>3. o # None /\ book'[u] = o /\ profile'[u].state = "active"
      BY <1>1, <1>3, <1>4, <1>8, StaffNoneAssumption
    <3> QED BY <3>1, <3>2, <3>3, <1>3 DEF RowOK, Ties, Known
  <2> QED BY <2>2, <2>3, <1>9
<1>14. \A c \in Complaints : ComplaintOK(c)'
  <2> TAKE c \in Complaints
  <2>1. ComplaintOK(c) BY DEF IInv, DataOK
  <2>2. complaint[c].staff # None => complaint[c].staff \in Members
    BY <1>5 DEF ComplaintRow, Opt
  <2> QED BY <2>1, <2>2, <1>6, <1>10 DEF ComplaintOK, Ties, Exists
<1>15. Frame(s)
  <2>1. \A v \in Members : profile[v].state # "none" =>
          profile'[v].state # "none" /\ (book'[v] = book[v] \/ book'[v] = None)
    BY <1>3, <1>8
  <2>2. \A z \in Slots : z # s => req'[z] = req[z] BY <1>7 DEF IInv, TypeOK
  <2>3. ASSUME NEW z \in Slots, NEW v \in Members, req[z].of = v
        PROVE  book'[v] = book[v] /\ profile'[v].perm.granular = profile[v].perm.granular
    <3>1. v # None BY StaffNoneAssumption
    <3>2. Known(v) BY <2>3, <3>1 DEF IInv, RequestOK
    <3> QED BY <3>2, <1>8, <1>10
  <2> QED BY <2>1, <2>2, <2>3, <1>6 DEF Frame, Exists
<1> QED BY <1>7, <1>11, <1>12, <1>13, <1>14, <1>15 DEF Good, DataOK

LEMMA AbortGood ==
    ASSUME IInv, NEW s \in Slots, Abort(s), UNCHANGED workload PROVE Good(s)
BY IdleType, IdleOK, ReadGood DEF Abort, Done

-----------------------------------------------------------------------------
(* Initially nothing has been written.                                     *)
LEMMA InitGood == Init => IInv
<1> SUFFICES ASSUME Init PROVE IInv
  OBVIOUS
<1>1. \A u \in Members : profile[u] = NoProfile /\ book[u] = None
  BY DEF Init
<1>2. \A i \in Rows : access[i] = NoRow BY DEF Init
<1>3. \A c \in Complaints : complaint[c] = NoComplaint BY DEF Init
<1>4. \A s \in Slots : req[s] = Idle BY DEF Init
<1>5. /\ NoProfile \in ProfileRow /\ NoRow \in AccessRow
      /\ NoProfile.state = "none" /\ NoRow.of = None /\ NoRow.prop = None
  BY NoPermType DEF NoProfile, NoRow, ProfileRow, AccessRow, Opt, Selective
<1>6. NoComplaint \in ComplaintRow /\ NoComplaint.status = None /\ NoComplaint.staff = None
  BY DEF NoComplaint, ComplaintRow, Opt
<1>7. TypeOK
  BY <1>5, <1>6, IdleType DEF Init, TypeOK, Opt
<1>8. DataOK
  BY <1>1, <1>2, <1>3, <1>5, <1>6 DEF DataOK, MemberOK, RowOK, ComplaintOK, Exists
<1> QED BY <1>4, <1>7, <1>8, IdleOK DEF IInv

LEMMA StepGood ==
    ASSUME IInv, NEW s \in Slots, UNCHANGED workload,
           \/ (StaffReads(s) \/ StaffCommits(s)) /\ UNCHANGED complaint
           \/ ComplaintReads(s) \/ ComplaintWrites(s) \/ Abort(s)
    PROVE  Good(s)
<1>1. CASE StaffReads(s) /\ UNCHANGED complaint BY <1>1, StaffReadsGood
<1>2. CASE StaffCommits(s) /\ UNCHANGED complaint
  BY <1>2, CreateMaintenanceStaffCommitGood, EditStaffAccessCommitGood,
     UpdateRowPermissionsCommitGood, UpdateProfilePermissionsCommitGood DEF StaffCommits
<1>3. CASE ComplaintReads(s) BY <1>3, ComplaintReadsGood
<1>4. CASE ComplaintWrites(s)
  BY <1>4, CreateComplaintCommitGood, InsertPhotoGood, AssignMaintenanceStaffCommitGood,
     ChangeStatusGood, EditComplaintByTenantWriteGood, AddComplaintPhotosCommitGood,
     DeleteStaffGood DEF ComplaintWrites
<1>5. CASE Abort(s) BY <1>5, AbortGood
<1> QED BY <1>1, <1>2, <1>3, <1>4, <1>5

LEMMA NextGood == IInv /\ [Next]_vars => IInv'
<1>1. ASSUME IInv, Next PROVE IInv'
  BY <1>1, StepGood, GoodIsInv DEF Next
<1>2. ASSUME IInv, UNCHANGED vars PROVE IInv'
  BY <1>2 DEF vars, IInv, TypeOK, DataOK, MemberOK, RowOK, ComplaintOK, RequestOK, Ties,
              Known, Exists
<1> QED BY <1>1, <1>2

(* The data stays sound in every run: whoever a row, a complaint or a      *)
(* request names was hired, and belongs to the owner of the property or    *)
(* was removed while a request about it was in progress.                   *)
THEOREM Inductive == Spec => []IInv
BY InitGood, NextGood, PTL DEF Spec

(* Every variable keeps its type in every behaviour.                       *)
THEOREM TypeCorrect == Spec => []TypeOK
<1>1. IInv => TypeOK BY DEF IInv
<1> QED BY <1>1, Inductive, PTL

-----------------------------------------------------------------------------
(* A removed member holds no property and no complaint, however requests   *)
(* are interleaved or interrupted, unless one overlapped its removal.      *)
THEOREM RemovalIsComplete == Spec => []RemovedHoldsNothing
<1>1. IInv => RemovedHoldsNothing
  <2> SUFFICES ASSUME IInv, NEW u \in Members, u \notin raced, profile[u].state # "active"
               PROVE  /\ book[u] = None
                      /\ \A i \in Rows : access[i].of # u
                      /\ \A c \in Complaints : complaint[c].staff # u
    BY DEF RemovedHoldsNothing
  <2>1. book[u] = None /\ ~Known(u) /\ u # None
    BY StaffNoneAssumption DEF IInv, DataOK, MemberOK, Known
  <2> QED BY <2>1 DEF IInv, DataOK, RowOK, ComplaintOK, Ties
<1> QED BY <1>1, Inductive, PTL

(* Whoever passes the check for a property works for its owner, or was     *)
(* removed while a request about it was in progress.                       *)
LEMMA AccessByEmployment ==
    ASSUME IInv, NEW u \in Members, NEW p \in Properties, PropertyAccess(u, p),
           u \notin raced \/ profile[u].state = "active"
    PROVE  book[u] = OwnerOf[p]
<1>1. CASE profile[u].scope = AllProperties
  BY <1>1 DEF PropertyAccess, ResolveOwnerFromStaff
<1>2. CASE profile[u].scope # AllProperties
  <2>1. PICK i \in Rows : access[i].of = u /\ access[i].prop = p
    BY <1>2 DEF PropertyAccess, RowsOf
  <2>2. u # None BY StaffNoneAssumption
  <2>3. Ties(u, p) /\ book[u] # None
    BY <2>1, <2>2 DEF IInv, DataOK, RowOK, MemberOK, Ties, Known
  <2> QED BY <2>3 DEF Ties
<1> QED BY <1>1, <1>2

(* Every check of a module goes through the check of the property.         *)
LEMMA ChecksNeedAccess ==
    ASSUME NEW u, NEW p, NEW a
    PROVE  /\ RoomsModuleAccess(u, p, a) => PropertyAccess(u, p)
           /\ TenantsModuleAccess(u, p, a) => PropertyAccess(u, p)
           /\ FinanceModuleAccess(u, p, a) => PropertyAccess(u, p)
           /\ ComplaintsModuleAccess(u, p, a) => PropertyAccess(u, p)
BY DEF RoomsModuleAccess, TenantsModuleAccess, FinanceModuleAccess, ComplaintsModuleAccess

LEMMA TenancyRequestsNeedAccess ==
    ASSUME NEW u, NEW p, TenancyRequests(u, p) PROVE PropertyAccess(u, p)
BY ChecksNeedAccess
   DEF TenancyRequests, MayOnBoardTenancy, MayShiftTenantRoom, MayUpdateTenancyDetails,
       MayPutOnNoticePeriod, MayCancelNoticePeriod, MayGetMoveOutRequests,
       MayGetMoveOutRequestDetails, MayApproveMoveOutRequest, MayRejectMoveOutRequest,
       MayGetRoomShiftRequests, MayGetRoomShiftRequestDetails, MayApproveRoomShiftRequest,
       MayRejectRoomShiftRequest, MayConfirmMoveIn, MayGetMoveInHistory,
       MayGetMoveOutHistory, MayFetchRecentlyDeletedTenants, MayReactivateTenancy,
       RoomShiftAccess, RoomBelongsToProperty, TenancyModuleAccess, MoveOutRequestAccess,
       RoomShiftRequestAccess

LEMMA TenantRequestsNeedAccess ==
    ASSUME NEW u, NEW p, TenantRequests(u, p) PROVE PropertyAccess(u, p)
BY ChecksNeedAccess
   DEF TenantRequests, MayGetTenantsInRoom, MayGetTenantsByProperty, MayGetTenantStats,
       MaySearchTenants, MayGetTenantById, MayUpdateTenant, MayDeleteTenant,
       MayRevokeTenancyExit, MayMoveTenantOut, MayUploadKycDocuments,
       MayFetchKycDetailsOfTenant, TenantsModuleAccessForRoom,
       PropertyTenantListForFinanceAccess, PropertyUnpaidDuesAccess,
       TenantUserModuleAccess, TenancyModuleAccess

LEMMA MoneyRequestsNeedAccess ==
    ASSUME NEW u, NEW p, MoneyRequests(u, p) PROVE PropertyAccess(u, p)
BY ChecksNeedAccess
   DEF MoneyRequests, MayAddDueToTenant, MayAddDueToRoom, MayFetchTenantDuesByTenancyId,
       MayGetAllTenantDues, MayGetUnpaidDuesByProperty, MayGetUnpaidDuesByTenant,
       MayGetDuesByTenantAndProperty, MayCollectDue, MayGetPropertyCollections,
       MaySendBulkReminder, MayGetDueById, MayAddDue, MayDeleteDue, MayEditDue,
       MayGetPaymentHistory, MayCreateExpense, MayFetchExpensesByPropertyId,
       MayUpdateExpense, MayDeleteExpense, MayGetPropertyMetrics,
       MayFetchPropertyMonthlyMatrics, MayGetSettlementData, MayGetRoomsWithMeter,
       MayGetMeterReadingsForMonth, MayGetMeterReadingStatus, MaySubmitAllReadings,
       ResolveOwnerContext, RoomBelongsToProperty, TenantFinanceViewAccess,
       PropertyUnpaidDuesAccess, TenantDuesReadAccess, DueFinanceAccess, DueDeleteAccess,
       RentBookAccess, ExpenseAccess, ExpenseDeleteAccess

LEMMA RoomAndComplaintRequestsNeedAccess ==
    ASSUME NEW u, NEW p, RoomRequests(u, p) \/ ComplaintRequests(u, p)
    PROVE  PropertyAccess(u, p)
BY ChecksNeedAccess
   DEF RoomRequests, MayCreateRoom, MayFetchAllRoomsOfProperty, MayEditRoom, MayDeleteRoom,
       MayDeleteRoomImage, MayGetRoomById, MayGetAlltenantsOfRoom, RoomInventoryAccess,
       RoomListAccessForPicker, ComplaintRequests, MayCreateComplaint,
       MayGetComplaintSummary, MayGetComplaintById, MayGetAllComplaints, MayChangeStatus,
       MayAddLogs, MayAddComplaintPhotos, MayFetchAllStaffsForProperty,
       ComplaintModuleAccess

LEMMA SettingsRequestsNeedOwner ==
    ASSUME NEW u, NEW p, SettingsRequests(u, p)
    PROVE  book[u] = OwnerOf[p]
BY DEF SettingsRequests, MayGetPropertyStaffCollections, MayAddBusinessDetails,
       MayFetchBuinessDetails, MayLinkBankAccountToProperty, MayGetLateFineConfig,
       MayUpsertLateFineConfig, ManageStaffPropertyAccess, OwnerSettingsPropertyAccess,
       ResolveOwnerFromStaff

(* No request about a property gets through for a member who does not work *)
(* for its owner, whatever was granted and edited before.                  *)
THEOREM OnlyEmployeesAct == Spec => []AccessOnlyByEmployment
<1>1. IInv => AccessOnlyByEmployment
  BY AccessByEmployment, TenancyRequestsNeedAccess, TenantRequestsNeedAccess,
     MoneyRequestsNeedAccess, RoomAndComplaintRequestsNeedAccess, SettingsRequestsNeedOwner
  DEF AccessOnlyByEmployment, SomeRequest
<1> QED BY <1>1, Inductive, PTL

(* A complaint is never assigned to two, and its assignee works for the    *)
(* owner of its property, or was removed while the assignment was made.    *)
THEOREM AssigneeOfTheOwner == Spec => []OneAssigneeOfTheOwner
<1>1. IInv => OneAssigneeOfTheOwner
  <2> SUFFICES ASSUME IInv, NEW c \in Complaints, complaint[c].staff # None
               PROVE  LET u == complaint[c].staff
                      IN  /\ complaint[c].owner = None
                          /\ u \in Members => \/ book[u] = OwnerOf[complaint[c].prop]
                                              \/ u \in raced /\ profile[u].state = "removed"
    <3>1. \A u \in Members : u # None BY StaffNoneAssumption
    <3> QED BY <3>1 DEF OneAssigneeOfTheOwner
  <2> DEFINE u == complaint[c].staff
  <2>1. complaint[c].owner = None /\ Ties(u, complaint[c].prop) BY DEF IInv, DataOK, ComplaintOK
  <2> HIDE DEF u
  <2>2. ASSUME u \in Members, book[u] = None
        PROVE  u \in raced /\ profile[u].state = "removed"
    BY <2>1, <2>2 DEF IInv, TypeOK, ProfileRow, DataOK, MemberOK, Ties, Known
  <2> QED BY <2>1, <2>2 DEF Ties, u
<1> QED BY <1>1, Inductive, PTL

(* What the pages of members, owners and complaints list is what the       *)
(* checks will accept.                                                     *)
THEOREM PagesShowAccess == Spec => []PagesAgree
<1>1. ASSUME IInv, NEW u \in Members, profile[u].state = "active"
      PROVE  {q[1] : q \in SelfProfile(u)} = {p \in Properties : PropertyAccess(u, p)}
  <2>1. u # None /\ book[u] # None BY <1>1, StaffNoneAssumption DEF IInv, DataOK, MemberOK
  <2>2. CASE profile[u].scope = AllProperties
    <3>1. SelfProfile(u) = {<<p, NoPerm>> : p \in PropertiesOf(book[u])}
      BY <2>1, <2>2 DEF SelfProfile, ResolveOwnerFromStaff
    <3>2. {q[1] : q \in SelfProfile(u)} = PropertiesOf(book[u])
      <4>1. \A q \in SelfProfile(u) : q[1] \in PropertiesOf(book[u])
        BY <3>1
      <4>2. \A p \in PropertiesOf(book[u]) : <<p, NoPerm>> \in SelfProfile(u)
                                              /\ <<p, NoPerm>>[1] = p
        BY <3>1
      <4> QED BY <4>1, <4>2
    <3>3. {p \in Properties : PropertyAccess(u, p)} = PropertiesOf(book[u])
      BY <1>1, <2>2 DEF PropertyAccess, ResolveOwnerFromStaff, PropertiesOf
    <3> QED BY <3>2, <3>3
  <2>3. CASE profile[u].scope # AllProperties
    <3>1. \A i \in Rows : access[i].of = u => access[i].prop \in Properties
      <4> TAKE i \in Rows
      <4>1. access[i] \in AccessRow /\ RowOK(i) BY <1>1 DEF IInv, TypeOK, DataOK
      <4> QED BY <4>1, <2>1 DEF RowOK, AccessRow, Opt
    <3>2. \A p : p \in {q[1] : q \in SelfProfile(u)}
                   <=> \E i \in Rows : access[i].of = u /\ access[i].prop = p
      <4>1. SelfProfile(u) =
              {<<access[i].prop, access[i].perm>> : i \in {j \in Rows : access[j].of = u}}
        BY <2>3 DEF SelfProfile
      <4>2. \A q \in SelfProfile(u) :
              \E i \in Rows : access[i].of = u /\ access[i].prop = q[1]
        BY <4>1
      <4>3. \A i \in Rows : access[i].of = u =>
              /\ <<access[i].prop, access[i].perm>> \in SelfProfile(u)
              /\ <<access[i].prop, access[i].perm>>[1] = access[i].prop
        BY <4>1
      <4>4. ASSUME NEW i \in Rows, access[i].of = u
            PROVE  access[i].prop \in {q[1] : q \in SelfProfile(u)}
        <5> DEFINE r == <<access[i].prop, access[i].perm>>
        <5>1. r \in SelfProfile(u) /\ r[1] = access[i].prop BY <4>3, <4>4
        <5> HIDE DEF r
        <5> QED BY <5>1
      <4>5. ASSUME NEW p, p \in {q[1] : q \in SelfProfile(u)}
            PROVE  \E i \in Rows : access[i].of = u /\ access[i].prop = p
        BY <4>2, <4>5
      <4> QED BY <4>4, <4>5
    <3>3. \A p : p \in {p1 \in Properties : PropertyAccess(u, p1)}
                   <=> \E i \in Rows : access[i].of = u /\ access[i].prop = p
      BY <1>1, <2>3, <3>1 DEF PropertyAccess, RowsOf
    <3> QED BY <3>2, <3>3
  <2> QED BY <2>2, <2>3
<1>2. ASSUME IInv, NEW o \in Owners
      PROVE  {u \in Members : book[u] = o} = MaintenanceStaffsByOwner(o)
  <2>1. o # None BY StaffNoneAssumption
  <2> QED BY <1>2, <2>1 DEF MaintenanceStaffsByOwner, IInv, DataOK, MemberOK
<1>3. ASSUME IInv, NEW p \in Properties, NEW u \in AllocatedStaff(p) \ raced
      PROVE  book[u] = OwnerOf[p]
  <2>1. PICK i \in Rows : access[i].prop = p /\ access[i].of = u BY DEF AllocatedStaff
  <2>2. p # None BY StaffNoneAssumption
  <2> QED BY <1>3, <2>1, <2>2 DEF IInv, DataOK, RowOK, Ties, Known
<1>4. IInv => PagesAgree
  BY <1>1, <1>2, <1>3 DEF PagesAgree
<1> QED BY <1>4, Inductive, PTL

(* No combination of permissions lets a member take the last step of a job *)
(* whose first page it may not open.                                       *)
THEOREM FirstStepsAllowed == Spec => []JobsCanStart
<1>1. ASSUME NEW u \in Members, NEW p \in Properties
      PROVE  /\ MayOnBoardTenancy(u, p, p) \/ MayShiftTenantRoom(u, p, p) =>
                  MayFetchAllRoomsOfProperty(u, p)
             /\ MayCollectDue(u, p) => /\ MayGetUnpaidDuesByProperty(u, p)
                                      /\ MayGetTenantsByProperty(u, p) /\ MayGetTenantById(u, p)
                                      /\ MayGetUnpaidDuesByTenant(u, p) /\ MayGetDueById(u, p)
  BY DEF MayOnBoardTenancy, MayShiftTenantRoom, RoomShiftAccess, TenancyModuleAccess,
         MayFetchAllRoomsOfProperty, RoomListAccessForPicker, MayCollectDue,
         DueFinanceAccess, MayGetUnpaidDuesByProperty, PropertyUnpaidDuesAccess,
         MayGetTenantsByProperty, PropertyTenantListForFinanceAccess, MayGetTenantById,
         TenantUserModuleAccess, MayGetUnpaidDuesByTenant, TenantFinanceViewAccess,
         MayGetDueById
<1>2. ASSUME NEW u \in Members, NEW p \in Properties
      PROVE  /\ MayUpdateTenancyDetails(u, p) =>
                  MayGetDuesByTenantAndProperty(u, p) /\ MayGetPaymentHistory(u, p)
             /\ MayDeleteTenant(u, p) => MayDeleteDue(u, p)
  BY DEF MayUpdateTenancyDetails, TenancyModuleAccess, MayGetDuesByTenantAndProperty,
         TenantDuesReadAccess, MayGetPaymentHistory, RentBookAccess, MayDeleteTenant,
         MayDeleteDue, DueDeleteAccess
<1>3. ASSUME NEW u \in Members, NEW p \in Properties
      PROVE  /\ MayCreateComplaint(u, p) =>
                  MayGetTenantsByProperty(u, p) /\ MayFetchAllStaffsForProperty(u, p)
             /\ MayChangeStatus(u, p) => MayGetComplaintById(u, p) /\ MayGetAllComplaints(u, p)
  BY DEF MayCreateComplaint, MayGetTenantsByProperty, PropertyTenantListForFinanceAccess,
         MayFetchAllStaffsForProperty, MayChangeStatus, ComplaintModuleAccess,
         MayGetComplaintById, MayGetAllComplaints, ComplaintsModuleAccess
<1>4. JobsCanStart
  BY <1>1, <1>2, <1>3 DEF JobsCanStart
<1> QED BY <1>4, PTL

-----------------------------------------------------------------------------
(* The steps that change neither permissions nor access.                   *)
LEMMA ReadsChangeNothing ==
    ASSUME NEW s \in Slots, StaffReads(s) \/ ComplaintReads(s) \/ Abort(s)
    PROVE  UNCHANGED staffVars /\ (ComplaintReads(s) \/ Abort(s) => UNCHANGED complaint)
BY DEF StaffReads, CreateMaintenanceStaffRead, EditStaffAccessRead, DeleteStaffRead,
       UpdateRowPermissionsRead, UpdateProfilePermissionsRead, ComplaintReads,
       CreateComplaintByTenantRead, CreateComplaintByOwnerRead, AssignMaintenanceStaffRead,
       EditComplaintByTenantRead, AddComplaintPhotosRead, Abort

(* Who may write staff, and who may write complaints.                      *)
StaffStep(s) ==
    \/ CreateMaintenanceStaffCommit(s) \/ EditStaffAccessCommit(s) \/ DeleteStaff(s)
    \/ UpdateRowPermissionsCommit(s) \/ UpdateProfilePermissionsCommit(s)

LEMMA WhoWritesStaff ==
    ASSUME Next PROVE UNCHANGED staffVars \/ \E s \in Slots : StaffStep(s)
<1>1. PICK s \in Slots : \/ (StaffReads(s) \/ StaffCommits(s)) /\ UNCHANGED complaint
                         \/ ComplaintReads(s) \/ ComplaintWrites(s) \/ Abort(s)
  BY DEF Next
<1>2. CASE StaffCommits(s) BY <1>2 DEF StaffCommits, StaffStep
<1>3. CASE ComplaintWrites(s)
  BY <1>3 DEF ComplaintWrites, StaffStep, CreateComplaintCommit, InsertPhoto,
              AssignMaintenanceStaffCommit, ChangeStatus, EditComplaintByTenantWrite,
              AddComplaintPhotosCommit
<1> QED BY <1>1, <1>2, <1>3, ReadsChangeNothing

(* A module's granular permissions change only by an update that states    *)
(* the module, for members whose updates never overlapped.                 *)
THEOREM OthersPermissionsStay == Spec => UnstatedPermissionsStay
<1>1. ASSUME IInv, [Next]_vars, NEW u \in Members, NEW m \in Modules, u \notin raced',
             profile[u].perm.granular[m] # profile'[u].perm.granular[m]
      PROVE  \E s \in Slots : /\ req[s].h = "updateProfilePermissions" /\ req[s].of = u
                              /\ m \in req[s].dto.granular.stated
  <2>1. profile' # profile BY <1>1
  <2>2. PICK s \in Slots : StaffStep(s)
    BY <1>1, <2>1, WhoWritesStaff DEF vars, staffVars
  <2>3. profile \in [Members -> ProfileRow] /\ profile[u] \in ProfileRow
    BY <1>1 DEF IInv, TypeOK
  <2>4. CASE CreateMaintenanceStaffCommit(s)
    <3>1. PICK v \in {v \in Members : profile[v] = NoProfile} :
            profile' = [profile EXCEPT ![v] = [state |-> "active", scope |-> req[s].scope,
                                               perm |-> NoPerm]]
      BY <2>4 DEF CreateMaintenanceStaffCommit
    <3>2. profile'[u].perm = profile[u].perm BY <3>1, <2>3 DEF NoProfile
    <3> QED BY <3>2, <1>1
  <2>5. CASE EditStaffAccessCommit(s)
    <3>1. profile'[u].perm = profile[u].perm
      BY <2>3, <2>5 DEF EditStaffAccessCommit, ProfileRow
    <3> QED BY <3>1, <1>1
  <2>6. CASE DeleteStaff(s)
    <3>1. profile'[u].perm = profile[u].perm
      BY <2>3, <2>6 DEF DeleteStaff, DeleteStaffCommit, ProfileRow
    <3> QED BY <3>1, <1>1
  <2>7. CASE UpdateRowPermissionsCommit(s)
    BY <2>1, <2>7 DEF UpdateRowPermissionsCommit
  <2>8. CASE UpdateProfilePermissionsCommit(s)
    <3>1. req[s].h = "updateProfilePermissions" /\ req[s].h \in OfMember
      BY <2>8 DEF UpdateProfilePermissionsCommit, Runs, OfMember
    <3>2. req[s].of \in Members /\ RequestOK(req[s]) /\ req[s].dto \in Dtos
      BY <1>1, <3>1, MemberOf DEF RequestOK
    <3>3. profile'[u] # profile[u] BY <1>1
    <3>4. req[s].of = u BY <2>3, <2>8, <3>2, <3>3 DEF UpdateProfilePermissionsCommit
    <3>5. u \notin raced
      <4>1. Wrote(s, Subjects(req[s])) BY <2>8 DEF UpdateProfilePermissionsCommit
      <4> QED BY <4>1, <1>1 DEF Wrote
    <3>6. req[s].granular = profile[u].perm.granular /\ req[s].granular \in Granular
      BY <3>1, <3>2, <3>4, <3>5 DEF RequestOK
    <3>7. profile'[u].perm.granular =
            IF req[s].dto.granular = None THEN profile[u].perm.granular
            ELSE MergeGranularPermissions(req[s].granular, req[s].dto.granular)
      BY <2>3, <2>8, <3>2, <3>4 DEF UpdateProfilePermissionsCommit, ProfileRow, Perm
    <3> QED BY <1>1, <3>1, <3>2, <3>4, <3>6, <3>7, GranularType
  <2> QED BY <2>2, <2>4, <2>5, <2>6, <2>7, <2>8 DEF StaffStep
<1>2. IInv /\ [Next]_vars =>
        [\A u \in Members, m \in Modules :
           /\ u \notin raced'
           /\ profile[u].perm.granular[m] # profile'[u].perm.granular[m]
           => \E s \in Slots : /\ req[s].h = "updateProfilePermissions" /\ req[s].of = u
                               /\ m \in req[s].dto.granular.stated]_vars
  BY <1>1
<1> QED BY <1>2, Inductive, PTL DEF Spec, UnstatedPermissionsStay

(* Only editComplaintByTenant marks a complaint as edited.                 *)
LEMMA WhoEdits ==
    ASSUME IInv, Next, NEW c \in Complaints, complaint'[c].edited, ~complaint[c].edited
    PROVE  \E s \in Slots : EditComplaintByTenantWrite(s) /\ req[s].on = c
<1>1. PICK s \in Slots : \/ (StaffReads(s) \/ StaffCommits(s)) /\ UNCHANGED complaint
                         \/ ComplaintReads(s) \/ ComplaintWrites(s) \/ Abort(s)
  BY DEF Next
<1>2. complaint \in [Complaints -> ComplaintRow] /\ complaint[c] \in ComplaintRow
  BY DEF IInv, TypeOK
<1>3. complaint' # complaint OBVIOUS
<1>4. ComplaintWrites(s) BY <1>1, <1>3, ReadsChangeNothing
<1>5. ASSUME NEW d \in Complaints, NEW status \in {"OPEN"} \cup Named,
             NEW tenants \in BOOLEAN, NEW n \in 0..MaxPhotos,
             CreateComplaintCommit(s, d, status, tenants, n)
      PROVE  FALSE
  BY <1>2, <1>5 DEF CreateComplaintCommit, NoComplaint
<1>6. ASSUME InsertPhoto(s) \/ AddComplaintPhotosCommit(s) PROVE FALSE
  BY <1>2, <1>6 DEF InsertPhoto, AddComplaintPhotosCommit, ComplaintRow
<1>7. ASSUME AssignMaintenanceStaffCommit(s) PROVE FALSE
  BY <1>2, <1>7 DEF AssignMaintenanceStaffCommit, BuildAssignToOwnerUpdate,
                    BuildAssignToStaffUpdate, ComplaintRow
<1>8. ASSUME NEW d \in Complaints, NEW status \in Named, ChangeStatus(s, d, status)
      PROVE  FALSE
  BY <1>2, <1>8 DEF ChangeStatus, ComplaintRow
<1>9. ASSUME DeleteStaff(s) PROVE FALSE
  <2>1. complaint'[c] = complaint[c] \/ complaint'[c] = [complaint[c] EXCEPT !.staff = None]
    BY <1>9 DEF DeleteStaff, Unassigned
  <2> QED BY <2>1, <1>2 DEF ComplaintRow
<1>10. EditComplaintByTenantWrite(s)
  BY <1>4, <1>5, <1>6, <1>7, <1>8, <1>9 DEF ComplaintWrites
<1>11. req[s].on = c BY <1>2, <1>10 DEF EditComplaintByTenantWrite
<1> QED BY <1>10, <1>11

(* A tenant's edit that was not overlapped finds the complaint as open as  *)
(* the check before it did.                                                *)
THEOREM EditsOnlyOpen == Spec => TenantEditsOnlyEditable
<1>1. ASSUME IInv, [Next]_vars, NEW c \in Complaints,
             complaint'[c].edited, ~complaint[c].edited, c \notin raced'
      PROVE  complaint[c].status = "OPEN"
  <2>1. Next BY <1>1 DEF vars
  <2>2. PICK s \in Slots : EditComplaintByTenantWrite(s) /\ req[s].on = c
    BY <1>1, <2>1, WhoEdits
  <2>3. req[s].h = "editComplaintByTenant" /\ Wrote(s, Subjects(req[s]))
    BY <2>2 DEF EditComplaintByTenantWrite, Runs
  <2>4. c \notin raced BY <1>1, <2>3 DEF Wrote
  <2> QED BY <1>1, <2>2, <2>3, <2>4 DEF IInv, RequestOK
<1>2. IInv /\ [Next]_vars =>
        [\A c \in Complaints :
           complaint'[c].edited /\ ~complaint[c].edited /\ c \notin raced' =>
               complaint[c].status = "OPEN"]_vars
  BY <1>1
<1> QED BY <1>2, Inductive, PTL DEF Spec, TenantEditsOnlyEditable

-----------------------------------------------------------------------------
(* PropertyAccess of a member whose profile, owner and rows stay.          *)
LEMMA AccessKept ==
    ASSUME NEW u \in Members, NEW p \in Properties,
           profile'[u].state # "none" <=> profile[u].state # "none",
           profile'[u].scope = profile[u].scope, book'[u] = book[u],
           \A i \in Rows : (access'[i].of = u /\ access'[i].prop = p)
                             <=> (access[i].of = u /\ access[i].prop = p)
    PROVE  PropertyAccess(u, p)' <=> PropertyAccess(u, p)
BY DEF PropertyAccess, ResolveOwnerFromStaff, RowsOf

(* An edit gives and takes exactly what it names, except from a member     *)
(* whose scope it narrows.                                                 *)
LEMMA EditChangesAsNamed ==
    ASSUME IInv, NEW s \in Slots, EditStaffAccessCommit(s), NEW p \in Properties,
           NEW u \in Members, req[s].of = u, profile[u].state = "active"
    PROVE  /\ ~PropertyAccess(u, p) /\ PropertyAccess(u, p)' => p \in req[s].add
           /\ PropertyAccess(u, p) /\ ~PropertyAccess(u, p)' =>
                \/ p \in req[s].remove
                \/ profile[u].scope = AllProperties /\ req[s].remove # {}
<1> DEFINE kept == Deleted(access, u, req[s].remove)
<1>1. /\ req[s].h = "editStaffAccess" /\ u # None
      /\ req[s].remove \in SUBSET Properties /\ req[s].add \in SUBSET Properties
  <2>1. req[s].h \in OfMember /\ req[s].h = "editStaffAccess"
    BY DEF EditStaffAccessCommit, Runs, OfMember
  <2> QED BY <2>1, MemberOf DEF Request
<1>2. /\ access \in [Rows -> AccessRow] /\ profile \in [Members -> ProfileRow]
      /\ book' = book
  BY DEF IInv, TypeOK, EditStaffAccessCommit
<1>3. /\ kept \in [Rows -> AccessRow]
      /\ \A i \in Rows : kept[i] = IF access[i].of = u /\ access[i].prop \in req[s].remove
                                   THEN Gone ELSE access[i]
  BY <1>1, <1>2, DeletedType
<1>4. Gone.of = None /\ NoRow.of = None BY DEF Gone, NoRow
<1>5. \A i \in Rows : access[i].of = u /\ access[i].prop = p => book[u] = OwnerOf[p]
  <2> TAKE i \in Rows
  <2>1. book[u] # None BY DEF IInv, DataOK, MemberOK
  <2> QED BY <1>1, <2>1 DEF IInv, DataOK, RowOK, Ties
<1>6. CASE Narrows(s)
  <2>1. /\ access' = kept /\ profile' = [profile EXCEPT ![u].scope = Selective]
        /\ req[s].remove # {}
    BY <1>6 DEF EditStaffAccessCommit, Narrows
  <2>2. profile'[u].scope = Selective /\ profile'[u].state = profile[u].state
    BY <1>1, <1>2, <2>1 DEF ProfileRow
  <2>3. profile[u].scope \in {AllProperties, Selective} /\ AllProperties # Selective
    BY <1>1, <1>2 DEF ProfileRow, AllProperties, Selective
  <2> HIDE DEF kept
  <2>4. \A i \in Rows : access'[i].of = u /\ access'[i].prop = p =>
          access[i].of = u /\ access[i].prop = p
    BY <1>1, <1>3, <1>4, <2>1
  <2>5. \A i \in Rows : access[i].of = u /\ access[i].prop = p /\ p \notin req[s].remove =>
          access'[i].of = u /\ access'[i].prop = p
    BY <1>3, <2>1
  <2>6. PropertyAccess(u, p)' <=> \E i \in Rows : access'[i].of = u /\ access'[i].prop = p
    <3>1. profile'[u].state = "active" BY <2>2
    <3> QED BY <3>1, <2>2, <2>3 DEF PropertyAccess, RowsOf
  <2>7. PropertyAccess(u, p) <=>
          IF profile[u].scope = AllProperties THEN book[u] = OwnerOf[p]
          ELSE \E i \in Rows : access[i].of = u /\ access[i].prop = p
    <3>1. profile[u].state = "active" OBVIOUS
    <3> QED BY <3>1, <2>3 DEF PropertyAccess, RowsOf, ResolveOwnerFromStaff
  <2>8. ~PropertyAccess(u, p) => ~PropertyAccess(u, p)' BY <2>4, <2>6, <2>7, <1>5
  <2>9. PropertyAccess(u, p) /\ ~PropertyAccess(u, p)' =>
          p \in req[s].remove \/ (profile[u].scope = AllProperties /\ req[s].remove # {})
    BY <2>1, <2>5, <2>6, <2>7
  <2> QED BY <2>8, <2>9
<1>7. CASE ~Narrows(s)
  <2>1. access' \in NewRows(kept, u, req[s].add) /\ profile' = profile
    BY <1>7 DEF EditStaffAccessCommit
  <2> HIDE DEF kept
  <2>2. \A i \in Rows : \/ access'[i] = kept[i]
                        \/ kept[i] = NoRow /\ NewRow(access'[i], u, req[s].add)
    BY <1>1, <1>3, <2>1, NewRowsType
  <2>3. \A i \in Rows : access'[i].of = u /\ access'[i].prop = p =>
          (access[i].of = u /\ access[i].prop = p) \/ p \in req[s].add
    BY <1>1, <1>3, <1>4, <2>2 DEF NewRow
  <2>4. \A i \in Rows : access[i].of = u /\ access[i].prop = p /\ p \notin req[s].remove =>
          access'[i].of = u /\ access'[i].prop = p
    <3> TAKE i \in Rows
    <3> HAVE access[i].of = u /\ access[i].prop = p /\ p \notin req[s].remove
    <3>1. kept[i] = access[i] BY <1>3
    <3>2. kept[i] # NoRow BY <3>1, <1>1, <1>4
    <3> QED BY <3>1, <3>2, <2>2
  <2>5. CASE profile[u].scope = AllProperties
    BY <2>1, <2>5, <1>2 DEF PropertyAccess, ResolveOwnerFromStaff
  <2>6. CASE profile[u].scope # AllProperties
    BY <2>1, <2>3, <2>4, <2>6 DEF PropertyAccess, RowsOf
  <2> QED BY <2>5, <2>6
<1> QED BY <1>6, <1>7

(* What the other writes do for a member they leave employed: nothing.     *)
LEMMA OtherWritesKeepAccess ==
    ASSUME IInv, NEW s \in Slots, NEW u \in Members, NEW p \in Properties,
           profile[u].state = "active", profile'[u].state = "active",
           \/ CreateMaintenanceStaffCommit(s) \/ DeleteStaff(s)
           \/ UpdateRowPermissionsCommit(s) \/ UpdateProfilePermissionsCommit(s)
           \/ EditStaffAccessCommit(s) /\ req[s].of # u
    PROVE  PropertyAccess(u, p)' <=> PropertyAccess(u, p)
<1>1. /\ access \in [Rows -> AccessRow] /\ profile \in [Members -> ProfileRow]
      /\ book \in [Members -> Opt(Owners)] /\ req[s] \in Request /\ u # None
      /\ Gone.of = None /\ NoRow.of = None
  BY StaffNoneAssumption DEF IInv, TypeOK, Gone, NoRow
<1>2. CASE CreateMaintenanceStaffCommit(s)
  <2>1. PICK v \in {v \in Members : profile[v] = NoProfile} :
          /\ profile' = [profile EXCEPT ![v] = [state |-> "active", scope |-> req[s].scope,
                                                perm |-> NoPerm]]
          /\ book' = [book EXCEPT ![v] = req[s].owner]
          /\ access' \in NewRows(access, v, req[s].add)
    BY <1>2 DEF CreateMaintenanceStaffCommit
  <2>2. v # u /\ v \in Members BY DEF NoProfile
  <2>3. profile'[u] = profile[u] /\ book'[u] = book[u] BY <1>1, <2>1, <2>2
  <2>4. \A i \in Rows : access'[i] = access[i]
                        \/ (access[i] = NoRow /\ NewRow(access'[i], v, req[s].add))
    <3>1. req[s].add \in SUBSET Properties BY <1>1 DEF Request
    <3> QED BY <3>1, <1>1, <2>1, <2>2, NewRowsType
  <2>5. \A i \in Rows : access'[i].of = u <=> access[i].of = u
    BY <1>1, <2>2, <2>4 DEF NewRow
  <2>6. \A i \in Rows : access[i].of = u => access'[i] = access[i]
    BY <1>1, <2>4
  <2> QED BY <2>3, <2>5, <2>6, AccessKept
<1>3. CASE DeleteStaff(s)
  <2> DEFINE v == req[s].of
  <2>1. v \in Members
    BY <1>3, MemberOf DEF DeleteStaff, DeleteStaffCommit, Runs, OfMember
  <2>2. /\ access' = Deleted(access, v, Properties) /\ book' = [book EXCEPT ![v] = None]
        /\ profile' = [profile EXCEPT ![v].state = "removed"]
    BY <1>3 DEF DeleteStaff, DeleteStaffCommit
  <2> HIDE DEF v
  <2>3. v # u BY <1>1, <2>1, <2>2 DEF ProfileRow
  <2>4. profile'[u] = profile[u] /\ book'[u] = book[u] BY <1>1, <2>1, <2>2, <2>3
  <2>5. \A i \in Rows : access'[i] = access[i] \/ (access[i].of = v /\ access'[i] = Gone)
    BY <1>1, <2>1, <2>2, DeletedType
  <2> QED BY <1>1, <2>3, <2>4, <2>5, AccessKept
<1>4. CASE UpdateRowPermissionsCommit(s)
  <2>1. \A i \in Rows : access'[i].of = access[i].of /\ access'[i].prop = access[i].prop
    BY <1>1, <1>4 DEF UpdateRowPermissionsCommit, AccessRow
  <2>2. profile' = profile /\ book' = book BY <1>4 DEF UpdateRowPermissionsCommit
  <2> QED BY <2>1, <2>2, AccessKept
<1>5. CASE UpdateProfilePermissionsCommit(s)
  <2>1. profile'[u].scope = profile[u].scope
    BY <1>1, <1>5 DEF UpdateProfilePermissionsCommit, ProfileRow
  <2>2. access' = access /\ book' = book BY <1>5 DEF UpdateProfilePermissionsCommit
  <2> QED BY <2>1, <2>2, AccessKept
<1>6. CASE EditStaffAccessCommit(s) /\ req[s].of # u
  <2> DEFINE v == req[s].of
             kept == Deleted(access, v, req[s].remove)
  <2>1. /\ v \in Members /\ v # u
        /\ req[s].remove \in SUBSET Properties /\ req[s].add \in SUBSET Properties
    BY <1>1, <1>6, MemberOf DEF EditStaffAccessCommit, Runs, OfMember, Request
  <2>2. kept \in [Rows -> AccessRow]
        /\ \A i \in Rows : kept[i] = access[i] \/ (access[i].of = v /\ kept[i] = Gone)
    BY <1>1, <2>1, DeletedType
  <2>3. access' = kept \/ access' \in NewRows(kept, v, req[s].add)
    BY <1>6 DEF EditStaffAccessCommit
  <2>4. profile'[u] = profile[u] /\ book'[u] = book[u]
    BY <1>1, <1>6, <2>1 DEF EditStaffAccessCommit
  <2> HIDE DEF v, kept
  <2>5. \A i \in Rows : access'[i] = kept[i]
                        \/ (kept[i] = NoRow /\ NewRow(access'[i], v, req[s].add))
    BY <2>1, <2>2, <2>3, NewRowsType
  <2>6. \A i \in Rows : access'[i].of = u \/ access[i].of = u => access'[i] = access[i]
    BY <1>1, <2>1, <2>2, <2>5 DEF NewRow
  <2> QED BY <2>4, <2>6, AccessKept
<1> QED BY <1>2, <1>3, <1>4, <1>5, <1>6

(* For a member who stays employed, properties open and close only as      *)
(* editStaffAccess names them, or all at once when it narrows the scope.   *)
THEOREM AccessAsNamed == Spec => AccessChangesOnlyAsNamed
<1>1. ASSUME IInv, [Next]_vars, NEW u \in Members, NEW p \in Properties,
             profile[u].state = "active", profile'[u].state = "active",
             ~(PropertyAccess(u, p)' <=> PropertyAccess(u, p))
      PROVE  \E s \in Slots :
               /\ req[s].h = "editStaffAccess" /\ req[s].of = u /\ req'[s] = Idle
               /\ ~PropertyAccess(u, p) /\ PropertyAccess(u, p)' => p \in req[s].add
               /\ PropertyAccess(u, p) /\ ~PropertyAccess(u, p)' =>
                    \/ p \in req[s].remove
                    \/ profile[u].scope = AllProperties /\ req[s].remove # {}
  <2>1. ~UNCHANGED staffVars BY <1>1, AccessKept DEF staffVars
  <2>2. PICK s \in Slots : StaffStep(s)
    BY <1>1, <2>1, WhoWritesStaff DEF vars, staffVars
  <2>3. EditStaffAccessCommit(s) /\ req[s].of = u
    BY <1>1, <2>2, OtherWritesKeepAccess DEF StaffStep
  <2>4. req[s].h = "editStaffAccess" /\ Done(s) BY <2>3 DEF EditStaffAccessCommit, Runs
  <2>5. req'[s] = Idle BY <1>1, <2>4, DoneLeft DEF IInv
  <2> QED BY <1>1, <2>3, <2>4, <2>5, EditChangesAsNamed
<1>2. IInv /\ [Next]_vars =>
        [\A u \in Members, p \in Properties :
           LET Edits(s) == req[s].h = "editStaffAccess" /\ req[s].of = u /\ req'[s] = Idle
               Had == PropertyAccess(u, p)
               Has == PropertyAccess(u, p)'
           IN  profile[u].state = "active" /\ profile'[u].state = "active" =>
                 /\ ~Had /\ Has => \E s \in Slots : Edits(s) /\ p \in req[s].add
                 /\ Had /\ ~Has => \E s \in Slots :
                       /\ Edits(s)
                       /\ \/ p \in req[s].remove
                          \/ profile[u].scope = AllProperties /\ req[s].remove # {}]_vars
  BY <1>1
<1> QED BY <1>2, Inductive, PTL DEF Spec, AccessChangesOnlyAsNamed
===============================================================================
