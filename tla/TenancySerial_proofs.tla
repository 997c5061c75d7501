------------------------ MODULE TenancySerial_proofs ------------------------
(***************************************************************************)
(* What Tenancy keeps when requests do not overlap (one slot). What a      *)
(* handler read is then still true when it writes; with two slots it is    *)
(* not, and the run TenancyRace shows the first of these invariants fail.  *)
(***************************************************************************)
EXTENDS Tenancy_proofs

OneAtATime == \A s1, s2 \in Slots : s1 = s2

(* What the snapshot q says of the rows is still so.                       *)
Fresh(q) ==
    /\ q.h \in {"updateTenancyDetails", "putOnNoticePeriod", "cancelNoticePeriod",
                "approveMoveOutRequest", "confirmMoveIn", "shiftTenantRoom",
                "deleteTenant"} => Is(q.ten, Blocking)
    /\ q.h = "confirmMoveIn" => ~AlreadyMovedIn(q.ten)
    /\ q.h \in {"revokeTenancyExit", "reActiveTenancy"} => Is(q.ten, {"EXITED"})
    /\ q.h \in {"shiftTenantRoom", "deleteTenant", "revokeTenancyExit", "reActiveTenancy"} =>
         tenancy[q.ten].room = q.room
    /\ q.h = "shiftTenantRoom" => tenancy[q.ten].prop = q.prop
    /\ q.h = "deleteTenant" => ~Owes(q.ten)
    /\ q.h = "addDue" => \A t \in Tenancies, p \in Properties : <<t, p>> \in q.dues =>
         Is(t, Blocking) /\ tenancy[t].prop = p

AllFresh == \A s \in Slots : Fresh(req[s])

LEMMA IdleFresh ==
    ASSUME NEW s \in Slots, req'[s].h \in {"idle", "createTenant", "approveRoomShiftRequest",
             "markApproved", "supersede", "rejectRoomShiftRequest", "rejectMoveOutRequest",
             "requestMoveOut", "requestRoomShift", "updateTenantProfile"}
    PROVE  Fresh(req[s])'
BY DEF Fresh

LEMMA DoneFresh ==
    ASSUME TypeInv, NEW s \in Slots, Done(s) PROVE Fresh(req[s])'
BY IdleFresh DEF Done, Idle, TypeInv, TypeOK

LEMMA FreshReads ==
    ASSUME TypeInv, NEW s \in Slots, Reads(s) PROVE Fresh(req[s])'
<1>t. /\ req \in [Slots -> Request]
      /\ tenancy \in [Tenancies -> Row]
  BY DEF TypeInv, TypeOK
<1>r. UNCHANGED rows
  BY ReadsGood DEF GoodRead
<1>1. ASSUME NEW n \in Phones, NEW r \in Rooms, CreateTenantRead(s, n, r) PROVE Fresh(req[s])'
  BY <1>1, <1>t, IdleFresh DEF CreateTenantRead, Remember, Idle
<1>2. ASSUME NEW t \in Tenancies, NEW sets \in BOOLEAN, UpdateTenancyDetailsRead(s, t, sets)
      PROVE  Fresh(req[s])'
  BY <1>2, <1>t, <1>r DEF UpdateTenancyDetailsRead, Remember, Idle, Fresh, Is, Current, Blocking, rows
<1>3. ASSUME NEW t \in Tenancies, NEW r \in Rooms, NEW p \in Opt(Properties),
             ShiftTenantRoomRead(s, t, r, p)
      PROVE  Fresh(req[s])'
  BY <1>3, <1>t, <1>r DEF ShiftTenantRoomRead, MayShift, ShiftSnapshot, Remember, Idle, Fresh, Is,
     Current, Blocking, rows
<1>4. ASSUME NEW t \in Tenancies, NEW r \in Rooms, NEW p \in Opt(Properties),
             RequestRoomShiftRead(s, t, r, p)
      PROVE  Fresh(req[s])'
  BY <1>4, <1>t, IdleFresh DEF RequestRoomShiftRead, Remember, Idle
<1>5. ASSUME NEW t \in Tenancies, PutOnNoticePeriodRead(s, t) PROVE Fresh(req[s])'
  BY <1>5, <1>t, <1>r DEF PutOnNoticePeriodRead, Remember, Idle, Fresh, Is, Current, Blocking, rows
<1>6. ASSUME NEW t \in Tenancies, CancelNoticePeriodRead(s, t) PROVE Fresh(req[s])'
  BY <1>6, <1>t, <1>r DEF CancelNoticePeriodRead, Remember, Idle, Fresh, Is, Blocking, rows
<1>7. ASSUME NEW t \in Tenancies, RequestMoveOutRead(s, t) PROVE Fresh(req[s])'
  BY <1>7, <1>t, IdleFresh DEF RequestMoveOutRead, Remember, Idle
<1>8. ASSUME NEW t \in Tenancies, ConfirmMoveInRead(s, t) PROVE Fresh(req[s])'
  BY <1>8, <1>t, <1>r DEF ConfirmMoveInRead, Remember, Idle, Fresh, Is, Blocking, AlreadyMovedIn, rows
<1>9. ASSUME NEW t \in Tenancies, DeleteTenantRead(s, t) PROVE Fresh(req[s])'
  BY <1>9, <1>t, <1>r DEF DeleteTenantRead, Remember, Idle, Fresh, Is, Owes, rows
<1>10. ASSUME NEW t \in Tenancies, RevokeTenancyExitRead(s, t) PROVE Fresh(req[s])'
  BY <1>10, <1>t, <1>r DEF RevokeTenancyExitRead, Remember, Idle, Fresh, Is, rows
<1>11. ASSUME NEW t \in Tenancies, ReActiveTenancyRead(s, t) PROVE Fresh(req[s])'
  BY <1>11, <1>t, <1>r DEF ReActiveTenancyRead, Remember, Idle, Fresh, Is, rows
<1>12. ASSUME NEW t \in Tenancies, AddDueToTenantRead(s, t) PROVE Fresh(req[s])'
  BY <1>12, <1>t, <1>r DEF AddDueToTenantRead, Billable, Remember, Idle, Fresh, Is, rows
<1>13. ASSUME NEW r \in Rooms, AddDueToRoomRead(s, r) PROVE Fresh(req[s])'
  BY <1>13, <1>t, <1>r DEF AddDueToRoomRead, Billable, Remember, Idle, Fresh, Is, rows
<1>14. ASSUME NEW i \in MoveReqs, ApproveMoveOutRequestRead(s, i) PROVE Fresh(req[s])'
  BY <1>14, <1>t, <1>r DEF ApproveMoveOutRequestRead, Remember, Idle, Fresh, Is, Blocking, rows
<1>15. ASSUME NEW i \in MoveReqs, RejectMoveOutRequestRead(s, i) PROVE Fresh(req[s])'
  BY <1>15, <1>t, IdleFresh DEF RejectMoveOutRequestRead, Remember, Idle
<1>16. ASSUME NEW i \in ShiftReqs, ApproveRoomShiftRequestRead(s, i) PROVE Fresh(req[s])'
  BY <1>16, <1>t, IdleFresh DEF ApproveRoomShiftRequestRead, Remember, Idle
<1>17. ASSUME NEW i \in ShiftReqs, RejectRoomShiftRequestRead(s, i) PROVE Fresh(req[s])'
  BY <1>17, <1>t, IdleFresh DEF RejectRoomShiftRequestRead, Remember, Idle
<1>18. ASSUME NEW u \in Users, NEW n \in Phones, UpdateTenantProfileRead(s, u, n)
      PROVE  Fresh(req[s])'
  BY <1>18, <1>t, IdleFresh DEF UpdateTenantProfileRead, Remember, Idle
<1> QED BY <1>1, <1>2, <1>3, <1>4, <1>5, <1>6, <1>7, <1>8, <1>9, <1>10, <1>11, <1>12, <1>13,
           <1>14, <1>15, <1>16, <1>17, <1>18 DEF Reads

LEMMA FreshCommits ==
    ASSUME TypeInv, NEW s \in Slots, Commits(s) PROVE Fresh(req[s])'
<1>t. req \in [Slots -> Request] /\ tenancy \in [Tenancies -> Row]
  BY DEF TypeInv, TypeOK
<1>1. CASE Done(s)
  BY <1>1, DoneFresh
<1>2. CASE ShiftTenantRoomCommit(s)
  <2>1. \/ Done(s)
        \/ Remember(s, [req[s] EXCEPT !.h = "markApproved"])
    BY <1>2 DEF ShiftTenantRoomCommit
  <2>2. CASE Remember(s, [req[s] EXCEPT !.h = "markApproved"])
    BY <2>2, <1>t, IdleFresh DEF Remember, Request
  <2> QED BY <1>1, <2>1, <2>2
<1>3. CASE ApproveRoomShiftRequestShift(s)
  BY <1>3, <1>t DEF ApproveRoomShiftRequestShift, MayShift, ShiftSnapshot, Remember, Idle, Fresh,
     Is, Current, Blocking, rows
<1>4. CASE ApproveRoomShiftRequestMark(s)
  BY <1>4, <1>t, IdleFresh DEF ApproveRoomShiftRequestMark, Remember, Request
<1>5. CASE \/ CreateTenantCommit(s)
           \/ UpdateTenancyDetailsCommit(s)
           \/ ApproveRoomShiftRequestSupersede(s)
           \/ PutOnNoticePeriodCommit(s)
           \/ CancelNoticePeriodCommit(s)
           \/ RequestMoveOutCommit(s)
           \/ ApproveMoveOutRequestCommit(s)
           \/ RejectMoveOutRequestCommit(s)
           \/ RequestRoomShiftCommit(s)
           \/ RejectRoomShiftRequestCommit(s)
           \/ ConfirmMoveInCommit(s)
           \/ DeleteTenantCommit(s)
           \/ RevokeTenancyExitCommit(s)
           \/ ReActiveTenancyCommit(s)
           \/ AddDueCommit(s)
           \/ UpdateTenantProfileCommit(s)
  <2>1. Done(s)
    BY <1>5 DEF CreateTenantCommit, UpdateTenancyDetailsCommit,
       ApproveRoomShiftRequestSupersede, PutOnNoticePeriodCommit, CancelNoticePeriodCommit,
       RequestMoveOutCommit, ApproveMoveOutRequestCommit, RejectMoveOutRequestCommit,
       RequestRoomShiftCommit, RejectRoomShiftRequestCommit, ConfirmMoveInCommit,
       DeleteTenantCommit, RevokeTenancyExitCommit, ReActiveTenancyCommit, AddDueCommit,
       UpdateTenantProfileCommit
  <2> QED BY <1>1, <2>1
<1> QED BY <1>2, <1>3, <1>4, <1>5 DEF Commits

LEMMA FreshNext ==
    ASSUME OneAtATime, TypeInv, AllFresh, [Next]_vars PROVE AllFresh'
<1>1. ASSUME NEW s \in Slots, Reads(s) \/ Commits(s) \/ Abort(s) PROVE AllFresh'
  <2>1. Fresh(req[s])'
    BY <1>1, FreshReads, FreshCommits, DoneFresh DEF Abort
  <2> QED BY <2>1 DEF AllFresh, OneAtATime
<1>2. ASSUME NEW t \in Tenancies, JoinDateArrives(t) PROVE AllFresh'
  <2>1. \A x \in Tenancies : /\ tenancy'[x].status = tenancy[x].status
                             /\ tenancy'[x].room = tenancy[x].room
                             /\ tenancy'[x].prop = tenancy[x].prop
    BY <1>2 DEF JoinDateArrives, TypeInv, TypeOK, Row
  <2>2. UNCHANGED <<req, moveIns, openDues>>
    BY <1>2 DEF JoinDateArrives
  <2>3. ASSUME NEW s \in Slots PROVE Fresh(req[s])'
    <3>1. Fresh(req[s]) /\ SnapshotOK(req[s]) /\ req'[s] = req[s]
      BY <2>2 DEF AllFresh, TypeInv, Consistent
    <3> QED BY <2>1, <2>2, <3>1 DEF Fresh, SnapshotOK, Is, AlreadyMovedIn, Owes
  <2> QED BY <2>3 DEF AllFresh
<1>3. ASSUME NEW t \in Tenancies, NEW p \in Properties, DuesClosed(t, p) PROVE AllFresh'
  <2>1. UNCHANGED <<req, tenancy, moveIns>> /\ \A x \in Tenancies : openDues'[x] \subseteq openDues[x]
    BY <1>3 DEF DuesClosed, TypeInv, TypeOK
  <2>2. ASSUME NEW s \in Slots PROVE Fresh(req[s])'
    <3>1. Fresh(req[s]) /\ SnapshotOK(req[s]) /\ req'[s] = req[s]
      BY <2>1 DEF AllFresh, TypeInv, Consistent
    <3> QED BY <2>1, <3>1 DEF Fresh, SnapshotOK, Is, AlreadyMovedIn, Owes
  <2> QED BY <2>2 DEF AllFresh
<1>4. ASSUME NEW r \in Rooms, NEW n \in 1..MaxBeds, EditRoom(r, n) PROVE AllFresh'
  BY <1>4 DEF EditRoom, AllFresh, Fresh, Is, AlreadyMovedIn, Owes
<1>5. CASE UNCHANGED vars
  BY <1>5 DEF vars, AllFresh, Fresh, Is, AlreadyMovedIn, Owes
<1> QED BY <1>1, <1>2, <1>3, <1>4, <1>5 DEF Next

-----------------------------------------------------------------------------
(* Room.occupiedBeds counts the residents.                                 *)

Lives(t, r) == IF t \in Residents(r) THEN 1 ELSE 0

(* Rewriting one tenancy changes the count of a room by what it changes    *)
(* for that tenancy.                                                       *)
LEMMA OneRowCounted ==
    ASSUME NEW t \in Tenancies, NEW r \in Rooms,
           \A x \in Tenancies : x # t => tenancy'[x] = tenancy[x]
    PROVE  Cardinality(Residents(r)') = Cardinality(Residents(r)) - Lives(t, r) + Lives(t, r)'
<1> DEFINE before == Residents(r)
           after == Residents(r)'
<1>1. before \ {t} = after \ {t}
  BY DEF Residents, Is
<1>2. IsFiniteSet(before) /\ IsFiniteSet(after)
  <2>1. before \subseteq Tenancies /\ after \subseteq Tenancies
    BY DEF Residents
  <2> QED BY <2>1, PoolAssumption, FS_Subset
<1>3. /\ Cardinality(before) \in Nat /\ Cardinality(after) \in Nat
      /\ Cardinality(before \ {t}) = IF t \in before THEN Cardinality(before) - 1
                                                     ELSE Cardinality(before)
      /\ Cardinality(after \ {t}) = IF t \in after THEN Cardinality(after) - 1
                                                   ELSE Cardinality(after)
  BY <1>2, FS_RemoveElement, FS_CardinalityType
<1>4. Lives(t, r) = IF t \in before THEN 1 ELSE 0
  BY DEF Lives
<1>5. Lives(t, r)' = IF t \in after THEN 1 ELSE 0
  BY DEF Lives
<1> HIDE DEF before, after
<1>6. Cardinality(after) = Cardinality(before) - Lives(t, r) + Lives(t, r)'
  BY <1>1, <1>3, <1>4, <1>5
<1> QED BY <1>6 DEF before, after

(* A step that keeps each tenancy's room, and whether it holds a bed.      *)
LEMMA CountKept ==
    ASSUME BedCountExact, UNCHANGED [r \in Rooms |-> beds[r].occupied],
           \A t \in Tenancies : /\ Is(t, Blocking)' <=> Is(t, Blocking)
                                /\ Is(t, Blocking) => tenancy'[t].room = tenancy[t].room
    PROVE  BedCountExact'
<1>1. ASSUME NEW r \in Rooms PROVE beds'[r].occupied = Cardinality(Residents(r))'
  <2>1. Residents(r)' = Residents(r)
    BY DEF Residents
  <2>2. beds'[r].occupied = beds[r].occupied
    BY Zenon
  <2> QED BY <2>1, <2>2 DEF BedCountExact
<1> QED BY <1>1 DEF BedCountExact

LEMMA BedWritten ==
    ASSUME TypeInv, BedCountExact, NEW t \in Tenancies,
           \A x \in Tenancies : x # t => tenancy'[x] = tenancy[x],
           \A r \in Rooms : beds'[r].occupied = beds[r].occupied - Lives(t, r) + Lives(t, r)'
    PROVE  BedCountExact'
<1>1. ASSUME NEW r \in Rooms PROVE beds'[r].occupied = Cardinality(Residents(r)')
  <2>1. Cardinality(Residents(r)') = Cardinality(Residents(r)) - Lives(t, r) + Lives(t, r)'
    BY OneRowCounted
  <2>2. beds[r].occupied = Cardinality(Residents(r))
    BY DEF BedCountExact
  <2> QED BY <2>1, <2>2
<1> QED BY <1>1 DEF BedCountExact

(* How the bed writes of the handlers change the count of a room.          *)
LEMMA Counts ==
    ASSUME TypeInv, NEW from \in Rooms, NEW to \in Rooms, NEW r \in Rooms
    PROVE  /\ Taken(to)[r].occupied = beds[r].occupied + (IF r = to THEN 1 ELSE 0)
           /\ Freed(from)[r].occupied = beds[r].occupied - (IF r = from THEN 1 ELSE 0)
           /\ Moved(from, to)[r].occupied = beds[r].occupied - (IF r = from THEN 1 ELSE 0)
                                                             + (IF r = to THEN 1 ELSE 0)
           /\ beds[r].occupied \in Int
<1>1. beds \in [Rooms -> [occupied: Int, total: 1..MaxBeds]]
  BY DEF TypeInv, TypeOK
<1>2. Taken(to)[r].occupied = beds[r].occupied + (IF r = to THEN 1 ELSE 0)
  BY <1>1 DEF Taken
<1>3. Freed(from)[r].occupied = beds[r].occupied - (IF r = from THEN 1 ELSE 0)
  BY <1>1 DEF Freed
<1>4. Freed(from) \in [Rooms -> [occupied: Int, total: 1..MaxBeds]]
  BY BedsTyped
<1>5. Moved(from, to)[r].occupied = Freed(from)[r].occupied + (IF r = to THEN 1 ELSE 0)
  BY <1>4 DEF Moved
<1> QED BY <1>1, <1>2, <1>3, <1>5

LEMMA BedCommits ==
    ASSUME TypeInv, BedCountExact, NEW s \in Slots, Fresh(req[s]), Commits(s)
    PROVE  BedCountExact'
<1> DEFINE q == req[s]
<1>q. q \in Request /\ SnapshotOK(q) /\ Fresh(q)
  BY DEF TypeInv, TypeOK, Consistent
<1>t. tenancy \in [Tenancies -> Row]
  BY DEF TypeInv, TypeOK
<1>1. CASE CreateTenantCommit(s)
  <2>1. PICK u \in IF q.user = None THEN {v \in Users : phone[v] = None} ELSE {q.user},
             t \in {x \in Tenancies : tenancy[x] = NoRow}, future \in BOOLEAN :
          tenancy' = [tenancy EXCEPT ![t] =
                       [status |-> IF future THEN "PENDING" ELSE "ACTIVE",
                        deleted |-> FALSE, user |-> u, room |-> q.to,
                        prop |-> PropOf[q.to], future |-> future]]
    BY <1>1 DEF CreateTenantCommit
  <2>2. /\ \A x \in Tenancies : x # t => tenancy'[x] = tenancy[x]
        /\ tenancy'[t].status \in {"PENDING", "ACTIVE"} /\ tenancy'[t].room = q.to
        /\ tenancy[t].status = "none"
    BY <2>1, <1>t DEF NoRow
  <2>3. \A r \in Rooms : Lives(t, r) = 0 /\ Lives(t, r)' = IF r = q.to THEN 1 ELSE 0
    BY <2>1, <2>2 DEF Lives, Residents, Is, Blocking
  <2>4. q.to \in Rooms /\ beds' = Taken(q.to)
    BY <1>1, <1>q DEF CreateTenantCommit, Runs, SnapshotOK
  <2>5. \A r \in Rooms : beds'[r].occupied = beds[r].occupied - Lives(t, r) + Lives(t, r)'
    BY <2>3, <2>4, Counts
  <2> QED BY <2>2, <2>5, BedWritten
<1>2. CASE ShiftTenantRoomCommit(s)
  <2>1. q.ten \in Tenancies /\ q.room \in Rooms /\ q.to \in Rooms /\ beds' = Moved(q.room, q.to)
    BY <1>2, <1>q DEF ShiftTenantRoomCommit, Runs, SnapshotOK
  <2>2. PICK t \in Tenancies : t = q.ten
    BY <2>1
  <2>3. Is(t, Blocking) /\ tenancy[t].room = q.room
    BY <1>2, <1>q, <2>2 DEF ShiftTenantRoomCommit, Runs, Fresh
  <2>4. /\ \A x \in Tenancies : x # t => tenancy'[x] = tenancy[x]
        /\ tenancy'[t].status = tenancy[t].status /\ tenancy'[t].room = q.to
    <3>1. CASE PropOf[q.to] # q.prop
      BY <1>2, <1>t, <2>2, <3>1 DEF ShiftTenantRoomCommit, Row
    <3>2. CASE PropOf[q.to] = q.prop
      BY <1>2, <1>t, <2>2, <3>2 DEF ShiftTenantRoomCommit, Row
    <3> QED BY <3>1, <3>2
  <2>5. \A r \in Rooms : /\ Lives(t, r) = IF r = q.room THEN 1 ELSE 0
                         /\ Lives(t, r)' = IF r = q.to THEN 1 ELSE 0
    BY <2>3, <2>4 DEF Lives, Residents, Is
  <2>6. \A r \in Rooms : beds'[r].occupied = beds[r].occupied - Lives(t, r) + Lives(t, r)'
    BY <2>1, <2>5, Counts
  <2> QED BY <2>4, <2>6, BedWritten
<1>3. CASE DeleteTenantCommit(s)
  <2>1. PICK t \in Tenancies : t = q.ten
    BY <1>3, <1>q DEF DeleteTenantCommit, Runs, SnapshotOK
  <2>2. /\ Is(t, Blocking) /\ tenancy[t].room = q.room /\ q.room \in Rooms
        /\ beds' = Freed(q.room)
    BY <1>3, <1>q, <2>1 DEF DeleteTenantCommit, Runs, Fresh, SnapshotOK
  <2>3. /\ \A x \in Tenancies : x # t => tenancy'[x] = tenancy[x]
        /\ tenancy'[t].status = "EXITED"
    BY <1>3, <1>t, <2>1 DEF DeleteTenantCommit, Row
  <2>4. \A r \in Rooms : Lives(t, r) = (IF r = q.room THEN 1 ELSE 0) /\ Lives(t, r)' = 0
    BY <2>2, <2>3 DEF Lives, Residents, Is, Blocking
  <2>5. \A r \in Rooms : beds'[r].occupied = beds[r].occupied - Lives(t, r) + Lives(t, r)'
    BY <2>2, <2>4, Counts
  <2> QED BY <2>3, <2>5, BedWritten
<1>4. CASE RevokeTenancyExitCommit(s) \/ ReActiveTenancyCommit(s)
  <2>1. PICK t \in Tenancies : t = q.ten
    BY <1>4, <1>q DEF RevokeTenancyExitCommit, ReActiveTenancyCommit, Runs, SnapshotOK
  <2>2. /\ Is(t, {"EXITED"}) /\ tenancy[t].room = q.room /\ q.room \in Rooms
        /\ beds' = Taken(q.room) /\ tenancy' = Returned(t)
    BY <1>4, <1>q, <2>1 DEF RevokeTenancyExitCommit, ReActiveTenancyCommit, Runs, Fresh, SnapshotOK
  <2>3. /\ \A x \in Tenancies : x # t => tenancy'[x] = tenancy[x]
        /\ tenancy'[t].status = "ACTIVE" /\ tenancy'[t].room = q.room
    BY <1>t, <2>2 DEF Returned, Row
  <2>4. \A r \in Rooms : Lives(t, r) = 0 /\ Lives(t, r)' = IF r = q.room THEN 1 ELSE 0
    BY <2>2, <2>3 DEF Lives, Residents, Is, Blocking
  <2>5. \A r \in Rooms : beds'[r].occupied = beds[r].occupied - Lives(t, r) + Lives(t, r)'
    BY <2>2, <2>4, Counts
  <2> QED BY <2>3, <2>5, BedWritten
<1>5. CASE \/ UpdateTenancyDetailsCommit(s)
           \/ PutOnNoticePeriodCommit(s)
           \/ CancelNoticePeriodCommit(s)
           \/ ApproveMoveOutRequestCommit(s)
           \/ ConfirmMoveInCommit(s)
  <2>1. PICK t \in Tenancies : t = q.ten
    BY <1>5, <1>q DEF UpdateTenancyDetailsCommit, PutOnNoticePeriodCommit,
       CancelNoticePeriodCommit, ApproveMoveOutRequestCommit, ConfirmMoveInCommit, Runs, SnapshotOK
  <2>2. Is(t, Blocking) /\ UNCHANGED beds
    BY <1>5, <1>q, <2>1 DEF UpdateTenancyDetailsCommit, PutOnNoticePeriodCommit,
       CancelNoticePeriodCommit, ApproveMoveOutRequestCommit, ConfirmMoveInCommit, Runs, Fresh
  <2>3. \/ UNCHANGED tenancy
        \/ tenancy' = WithStatus(t, "ACTIVE")
        \/ tenancy' = WithStatus(t, "NOTICE_PERIOD")
    BY <1>5, <2>1 DEF UpdateTenancyDetailsCommit, PutOnNoticePeriodCommit,
       CancelNoticePeriodCommit, ApproveMoveOutRequestCommit, ConfirmMoveInCommit
  <2>4. \A x \in Tenancies : /\ Is(x, Blocking)' <=> Is(x, Blocking)
                             /\ tenancy'[x].room = tenancy[x].room
    BY <1>t, <2>2, <2>3 DEF WithStatus, Is, Blocking, Row
  <2> QED BY <2>2, <2>4, CountKept
<1>6. CASE \/ ApproveRoomShiftRequestShift(s)
           \/ ApproveRoomShiftRequestMark(s)
           \/ ApproveRoomShiftRequestSupersede(s)
           \/ RequestMoveOutCommit(s)
           \/ RejectMoveOutRequestCommit(s)
           \/ RequestRoomShiftCommit(s)
           \/ RejectRoomShiftRequestCommit(s)
           \/ AddDueCommit(s)
           \/ UpdateTenantProfileCommit(s)
  <2>1. UNCHANGED <<tenancy, beds>>
    BY <1>6 DEF ApproveRoomShiftRequestShift, ApproveRoomShiftRequestMark,
       ApproveRoomShiftRequestSupersede, RequestMoveOutCommit, RejectMoveOutRequestCommit,
       RequestRoomShiftCommit, RejectRoomShiftRequestCommit, AddDueCommit,
       UpdateTenantProfileCommit, rows
  <2> QED BY <2>1, CountKept DEF Is
<1> QED BY <1>1, <1>2, <1>3, <1>4, <1>5, <1>6 DEF Commits

LEMMA BedNext ==
    ASSUME OneAtATime, TypeInv, AllFresh, BedCountExact, [Next]_vars
    PROVE  BedCountExact'
<1>1. ASSUME NEW s \in Slots, Commits(s) PROVE BedCountExact'
  BY <1>1, BedCommits DEF AllFresh
<1>2. ASSUME NEW s \in Slots, Reads(s) PROVE UNCHANGED <<tenancy, beds>>
  BY <1>2, ReadsGood DEF GoodRead, rows
<1>3. ASSUME NEW s \in Slots, Abort(s) PROVE UNCHANGED <<tenancy, beds>>
  BY <1>3 DEF Abort, rows
<1>4. ASSUME NEW t \in Tenancies, JoinDateArrives(t) PROVE BedCountExact'
  <2>1. UNCHANGED beds
    BY <1>4 DEF JoinDateArrives
  <2>2. \A x \in Tenancies : /\ tenancy'[x].status = tenancy[x].status
                             /\ tenancy'[x].room = tenancy[x].room
    BY <1>4 DEF JoinDateArrives, TypeInv, TypeOK, Row
  <2> QED BY <2>1, <2>2, CountKept DEF Is
<1>5. ASSUME NEW t \in Tenancies, NEW p \in Properties, DuesClosed(t, p)
      PROVE  UNCHANGED <<tenancy, beds>>
  BY <1>5 DEF DuesClosed
<1>6. ASSUME NEW r \in Rooms, NEW n \in 1..MaxBeds, EditRoom(r, n) PROVE BedCountExact'
  <2>1. UNCHANGED tenancy
    BY <1>6 DEF EditRoom
  <2>2. \A x \in Rooms : beds'[x].occupied = beds[x].occupied
    BY <1>6 DEF EditRoom, Resized, TypeInv, TypeOK
  <2> QED BY <2>1, <2>2, CountKept DEF Is
<1>7. CASE UNCHANGED <<tenancy, beds>>
  BY <1>7, CountKept DEF Is
<1> QED BY <1>1, <1>2, <1>3, <1>4, <1>5, <1>6, <1>7 DEF Next, vars

(* While requests do not overlap, the occupiedBeds counter of every room   *)
(* equals the number of tenancies that hold a bed of it, through any       *)
(* sequence of onboardings, shifts, approvals, exits and returns.          *)
THEOREM BedCount ==
    ASSUME OneAtATime PROVE Spec => []BedCountExact
<1>1. Init => AllFresh /\ BedCountExact
  <2> SUFFICES ASSUME Init PROVE AllFresh /\ BedCountExact
    OBVIOUS
  <2>1. AllFresh
    BY DEF Init, AllFresh, Fresh, Idle
  <2>2. ASSUME NEW r \in Rooms PROVE beds[r].occupied = Cardinality(Residents(r))
    <3>1. Residents(r) = {}
      BY DEF Init, Residents, Is, Blocking, NoRow
    <3>2. beds[r].occupied = 0
      BY DEF Init
    <3> QED BY <3>1, <3>2, FS_EmptySet
  <2> QED BY <2>1, <2>2 DEF BedCountExact
<1>2. TypeInv /\ AllFresh /\ BedCountExact /\ [Next]_vars => (AllFresh /\ BedCountExact)'
  BY FreshNext, BedNext
<1> QED BY <1>1, <1>2, TypeCorrect, PTL DEF Spec

-----------------------------------------------------------------------------
(* What one tenancy row, its dues and its trackers say of each other.      *)
NoMoveIn == [waiting |-> FALSE, movedIn |-> 0]

Orderly(t) ==
    /\ tenancy[t].status = "none" => moveIns[t] = NoMoveIn
    /\ tenancy[t].status # "none" => /\ tenancy[t].prop = PropOf[tenancy[t].room]
                                     /\ openDues[t] \subseteq {tenancy[t].prop}
    /\ tenancy[t].status = "EXITED" <=> tenancy[t].deleted
    /\ tenancy[t].status = "EXITED" => openDues[t] = {}
    /\ moveIns[t].movedIn <= 1
    /\ tenancy[t].status = "PENDING" => moveIns[t] = [waiting |-> TRUE, movedIn |-> 0]

AllOrderly == \A t \in Tenancies : Orderly(t)

(* Rewriting one tenancy leaves the others orderly.                        *)
LEMMA OneRowOrdered ==
    ASSUME AllOrderly, NEW t \in Tenancies, Orderly(t)',
           \A x \in Tenancies : x # t => /\ tenancy'[x] = tenancy[x]
                                         /\ openDues'[x] = openDues[x]
                                         /\ moveIns'[x] = moveIns[x]
    PROVE  AllOrderly'
BY DEF AllOrderly, Orderly

(* A tenancy that holds a bed and only changes among the current statuses. *)
LEMMA StillOrderly ==
    ASSUME TypeInv, AllOrderly, NEW t \in Tenancies, Is(t, Blocking),
           \/ UNCHANGED tenancy
           \/ tenancy' = WithStatus(t, "ACTIVE")
           \/ tenancy' = WithStatus(t, "NOTICE_PERIOD"),
           UNCHANGED <<openDues, moveIns>>
    PROVE  AllOrderly'
<1>1. tenancy \in [Tenancies -> Row] BY DEF TypeInv, TypeOK
<1>2. CASE UNCHANGED tenancy BY <1>2 DEF AllOrderly, Orderly
<1>3. CASE tenancy' = WithStatus(t, "ACTIVE") \/ tenancy' = WithStatus(t, "NOTICE_PERIOD")
  <2>1. /\ \A x \in Tenancies : x # t => tenancy'[x] = tenancy[x]
        /\ tenancy'[t].status \in Current
        /\ tenancy'[t].prop = tenancy[t].prop /\ tenancy'[t].room = tenancy[t].room
        /\ tenancy'[t].deleted = tenancy[t].deleted
    BY <1>1, <1>3 DEF WithStatus, Row, Current
  <2>2. Orderly(t)' BY <2>1 DEF AllOrderly, Orderly, Is, Blocking, Current
  <2> QED BY <2>1, <2>2, OneRowOrdered
<1> QED BY <1>2, <1>3

LEMMA OrderlyCommits ==
    ASSUME TypeInv, AllOrderly, NEW s \in Slots, Fresh(req[s]), Commits(s)
    PROVE  AllOrderly'
<1> DEFINE q == req[s]
<1>q. q \in Request /\ SnapshotOK(q) /\ Fresh(q)
  BY DEF TypeInv, TypeOK, Consistent
<1>t. /\ tenancy \in [Tenancies -> Row]
      /\ moveIns \in [Tenancies -> [waiting: BOOLEAN, movedIn: Nat]]
      /\ openDues \in [Tenancies -> SUBSET Properties]
  BY DEF TypeInv, TypeOK
<1>1. CASE CreateTenantCommit(s)
  <2>1. PICK u \in IF q.user = None THEN {v \in Users : phone[v] = None} ELSE {q.user},
             t \in {x \in Tenancies : tenancy[x] = NoRow},
             future \in BOOLEAN, leaves \in BOOLEAN :
          /\ leaving' = IF leaves THEN Scheduled(u) ELSE Unscheduled(u)
          /\ tenancy' = [tenancy EXCEPT ![t] =
                       [status |-> IF future THEN "PENDING" ELSE "ACTIVE",
                        deleted |-> FALSE, user |-> u, room |-> q.to,
                        prop |-> PropOf[q.to], future |-> future]]
          /\ openDues' = [openDues EXCEPT ![t] = {PropOf[q.to]}]
          /\ moveIns' = [moveIns EXCEPT ![t].waiting = future]
    BY <1>1 DEF CreateTenantCommit
  <2>2. t \in Tenancies /\ tenancy[t].status = "none" BY DEF NoRow
  <2>3. /\ tenancy'[t].status = IF future THEN "PENDING" ELSE "ACTIVE"
        /\ tenancy'[t].prop = PropOf[q.to] /\ tenancy'[t].room = q.to
        /\ tenancy'[t].deleted = FALSE
        /\ openDues'[t] = {PropOf[q.to]}
    BY <2>1, <2>2, <1>t
  <2>4. moveIns'[t] = [waiting |-> future, movedIn |-> 0]
    <3>1. moveIns[t] = NoMoveIn BY <2>2 DEF AllOrderly, Orderly
    <3> QED BY <2>1, <2>2, <3>1, <1>t DEF NoMoveIn
  <2>5. Orderly(t)'
    <3>1. CASE future = TRUE BY <2>3, <2>4, <3>1 DEF Orderly
    <3>2. CASE future = FALSE BY <2>3, <2>4, <3>2 DEF Orderly
    <3> QED BY <3>1, <3>2
  <2>6. \A x \in Tenancies : x # t => /\ tenancy'[x] = tenancy[x]
                                      /\ openDues'[x] = openDues[x]
                                      /\ moveIns'[x] = moveIns[x]
    BY <2>1, <1>t
  <2> QED BY <2>2, <2>5, <2>6, OneRowOrdered
<1>2. CASE ShiftTenantRoomCommit(s)
  <2>1. PICK t \in Tenancies : t = q.ten
    BY <1>2, <1>q DEF ShiftTenantRoomCommit, Runs, SnapshotOK
  <2>2. /\ Is(t, Blocking) /\ tenancy[t].prop = q.prop
        /\ UNCHANGED moveIns
    BY <1>2, <1>q, <2>1 DEF ShiftTenantRoomCommit, Runs, Fresh
  <2>3. /\ \A x \in Tenancies : x # t => tenancy'[x] = tenancy[x]
        /\ tenancy'[t].status = tenancy[t].status /\ tenancy'[t].deleted = tenancy[t].deleted
        /\ tenancy'[t].room = q.to /\ tenancy'[t].prop = PropOf[q.to]
    <3>1. CASE PropOf[q.to] # q.prop
      BY <1>2, <1>t, <2>1, <3>1 DEF ShiftTenantRoomCommit, Row
    <3>2. CASE PropOf[q.to] = q.prop
      BY <1>2, <1>t, <2>1, <2>2, <3>2 DEF ShiftTenantRoomCommit, Row
    <3> QED BY <3>1, <3>2
  <2>4. /\ \A x \in Tenancies : x # t => openDues'[x] = openDues[x]
        /\ openDues'[t] \subseteq {PropOf[q.to]}
    <3>1. CASE PropOf[q.to] # q.prop
      <4>1. openDues' = Rebooked(t, PropOf[q.to]) BY <1>2, <2>1, <3>1 DEF ShiftTenantRoomCommit
      <4> QED BY <4>1, <1>t DEF Rebooked
    <3>2. CASE PropOf[q.to] = q.prop
      <4>1. UNCHANGED openDues BY <1>2, <3>2 DEF ShiftTenantRoomCommit
      <4>2. openDues[t] \subseteq {q.prop} BY <2>2 DEF AllOrderly, Orderly, Is, Blocking
      <4> QED BY <4>1, <4>2, <3>2
    <3> QED BY <3>1, <3>2
  <2>5. Orderly(t)' BY <2>2, <2>3, <2>4 DEF AllOrderly, Orderly, Is, Blocking
  <2> QED BY <2>2, <2>3, <2>4, <2>5, OneRowOrdered
<1>3. CASE DeleteTenantCommit(s)
  <2>1. PICK t \in Tenancies : t = q.ten
    BY <1>3, <1>q DEF DeleteTenantCommit, Runs, SnapshotOK
  <2>2. Is(t, Blocking) /\ openDues[t] = {} /\ UNCHANGED <<openDues, moveIns>>
    BY <1>3, <1>q, <2>1 DEF DeleteTenantCommit, Runs, Fresh, Owes
  <2>3. /\ \A x \in Tenancies : x # t => tenancy'[x] = tenancy[x]
        /\ tenancy'[t].status = "EXITED" /\ tenancy'[t].deleted = TRUE
        /\ tenancy'[t].room = tenancy[t].room /\ tenancy'[t].prop = tenancy[t].prop
    BY <1>3, <1>t, <2>1 DEF DeleteTenantCommit, Row
  <2>4. Orderly(t)' BY <2>2, <2>3 DEF AllOrderly, Orderly, Is, Blocking
  <2> QED BY <2>2, <2>3, <2>4, OneRowOrdered
<1>4. CASE RevokeTenancyExitCommit(s) \/ ReActiveTenancyCommit(s)
  <2>1. PICK t \in Tenancies : t = q.ten
    BY <1>4, <1>q DEF RevokeTenancyExitCommit, ReActiveTenancyCommit, Runs, SnapshotOK
  <2>2. /\ Is(t, {"EXITED"}) /\ tenancy' = Returned(t)
        /\ UNCHANGED <<openDues, moveIns>>
    BY <1>4, <1>q, <2>1 DEF RevokeTenancyExitCommit, ReActiveTenancyCommit, Runs, Fresh
  <2>3. /\ \A x \in Tenancies : x # t => tenancy'[x] = tenancy[x]
        /\ tenancy'[t].status = "ACTIVE" /\ tenancy'[t].deleted = FALSE
        /\ tenancy'[t].room = tenancy[t].room /\ tenancy'[t].prop = tenancy[t].prop
    BY <1>t, <2>2 DEF Returned, Row
  <2>4. Orderly(t)' BY <2>2, <2>3 DEF AllOrderly, Orderly, Is
  <2> QED BY <2>2, <2>3, <2>4, OneRowOrdered
<1>5. CASE \/ UpdateTenancyDetailsCommit(s)
           \/ PutOnNoticePeriodCommit(s)
           \/ CancelNoticePeriodCommit(s)
           \/ ApproveMoveOutRequestCommit(s)
  <2>1. PICK t \in Tenancies : t = q.ten
    BY <1>5, <1>q DEF UpdateTenancyDetailsCommit, PutOnNoticePeriodCommit,
       CancelNoticePeriodCommit, ApproveMoveOutRequestCommit, Runs, SnapshotOK
  <2>2. Is(t, Blocking) /\ UNCHANGED <<openDues, moveIns>>
    BY <1>5, <1>q, <2>1 DEF UpdateTenancyDetailsCommit, PutOnNoticePeriodCommit,
       CancelNoticePeriodCommit, ApproveMoveOutRequestCommit, Runs, Fresh
  <2>3. \/ UNCHANGED tenancy
        \/ tenancy' = WithStatus(t, "ACTIVE")
        \/ tenancy' = WithStatus(t, "NOTICE_PERIOD")
    BY <1>5, <2>1 DEF UpdateTenancyDetailsCommit, PutOnNoticePeriodCommit,
       CancelNoticePeriodCommit, ApproveMoveOutRequestCommit
  <2> QED BY <2>2, <2>3, StillOrderly
<1>6. CASE ConfirmMoveInCommit(s)
  <2>1. PICK t \in Tenancies : t = q.ten
    BY <1>6, <1>q DEF ConfirmMoveInCommit, Runs, SnapshotOK
  <2>2. Is(t, Blocking) /\ ~(moveIns[t].movedIn > 0) /\ UNCHANGED openDues
    BY <1>6, <1>q, <2>1 DEF ConfirmMoveInCommit, Runs, Fresh, AlreadyMovedIn
  <2>3. /\ \A x \in Tenancies : x # t => tenancy'[x] = tenancy[x]
        /\ tenancy'[t].status = "ACTIVE" /\ tenancy'[t].deleted = tenancy[t].deleted
        /\ tenancy'[t].room = tenancy[t].room /\ tenancy'[t].prop = tenancy[t].prop
    BY <1>6, <1>t, <2>1 DEF ConfirmMoveInCommit, WithStatus, Row
  <2>4. /\ \A x \in Tenancies : x # t => moveIns'[x] = moveIns[x]
        /\ moveIns'[t].movedIn = moveIns[t].movedIn + 1 /\ moveIns[t].movedIn \in Nat
    BY <1>6, <1>t, <2>1 DEF ConfirmMoveInCommit
  <2>5. moveIns'[t].movedIn <= 1 BY <2>2, <2>4
  <2>6. Orderly(t)' BY <2>2, <2>3, <2>5 DEF AllOrderly, Orderly, Is, Blocking
  <2> QED BY <2>2, <2>3, <2>4, <2>6, OneRowOrdered
<1>7. CASE AddDueCommit(s)
  <2>1. UNCHANGED <<tenancy, moveIns>> BY <1>7 DEF AddDueCommit
  <2>2. ASSUME NEW t \in Tenancies PROVE Orderly(t)'
    <3> DEFINE billed == {p \in Properties : <<t, p>> \in q.dues}
    <3>1. openDues'[t] = openDues[t] \cup billed BY <1>7 DEF AddDueCommit
    <3>2. CASE billed = {} BY <2>1, <3>1, <3>2 DEF AllOrderly, Orderly
    <3>3. CASE billed # {}
      <4>1. Is(t, Blocking) /\ billed \subseteq {tenancy[t].prop}
        BY <1>7, <1>q, <3>3 DEF AddDueCommit, Runs, Fresh
      <4> HIDE DEF billed
      <4> QED BY <2>1, <3>1, <4>1 DEF AllOrderly, Orderly, Is, Blocking
    <3> QED BY <3>2, <3>3
  <2> QED BY <2>2 DEF AllOrderly
<1>8. CASE \/ ApproveRoomShiftRequestShift(s)
           \/ ApproveRoomShiftRequestMark(s)
           \/ ApproveRoomShiftRequestSupersede(s)
           \/ RequestMoveOutCommit(s)
           \/ RejectMoveOutRequestCommit(s)
           \/ RequestRoomShiftCommit(s)
           \/ RejectRoomShiftRequestCommit(s)
           \/ UpdateTenantProfileCommit(s)
  <2>1. UNCHANGED <<tenancy, openDues, moveIns>>
    BY <1>8 DEF ApproveRoomShiftRequestShift, ApproveRoomShiftRequestMark,
       ApproveRoomShiftRequestSupersede, RequestMoveOutCommit, RejectMoveOutRequestCommit,
       RequestRoomShiftCommit, RejectRoomShiftRequestCommit, UpdateTenantProfileCommit, rows
  <2> QED BY <2>1 DEF AllOrderly, Orderly
<1> QED BY <1>1, <1>2, <1>3, <1>4, <1>5, <1>6, <1>7, <1>8 DEF Commits

LEMMA OrderlyNext ==
    ASSUME OneAtATime, TypeInv, AllFresh, AllOrderly, [Next]_vars
    PROVE  AllOrderly'
<1>1. ASSUME NEW s \in Slots, Commits(s) PROVE AllOrderly'
  BY <1>1, OrderlyCommits DEF AllFresh
<1>2. ASSUME NEW s \in Slots, Reads(s) PROVE UNCHANGED <<tenancy, openDues, moveIns>>
  BY <1>2, ReadsGood DEF GoodRead, rows
<1>3. ASSUME NEW s \in Slots, Abort(s) PROVE UNCHANGED <<tenancy, openDues, moveIns>>
  BY <1>3 DEF Abort, rows
<1>4. ASSUME NEW t \in Tenancies, JoinDateArrives(t) PROVE AllOrderly'
  <2>1. UNCHANGED <<openDues, moveIns>>
    BY <1>4 DEF JoinDateArrives
  <2>2. \A x \in Tenancies : /\ tenancy'[x].status = tenancy[x].status
                             /\ tenancy'[x].deleted = tenancy[x].deleted
                             /\ tenancy'[x].room = tenancy[x].room
                             /\ tenancy'[x].prop = tenancy[x].prop
    BY <1>4 DEF JoinDateArrives, TypeInv, TypeOK, Row
  <2> QED BY <2>1, <2>2 DEF AllOrderly, Orderly
<1>5. ASSUME NEW t \in Tenancies, NEW p \in Properties, DuesClosed(t, p) PROVE AllOrderly'
  <2>1. /\ UNCHANGED <<tenancy, moveIns>>
        /\ \A x \in Tenancies : openDues'[x] \subseteq openDues[x]
    BY <1>5 DEF DuesClosed, TypeInv, TypeOK
  <2> QED BY <2>1 DEF AllOrderly, Orderly
<1>6. ASSUME NEW r \in Rooms, NEW n \in 1..MaxBeds, EditRoom(r, n)
      PROVE  UNCHANGED <<tenancy, openDues, moveIns>>
  BY <1>6 DEF EditRoom
<1>7. CASE UNCHANGED <<tenancy, openDues, moveIns>>
  BY <1>7 DEF AllOrderly, Orderly
<1> QED BY <1>1, <1>2, <1>3, <1>4, <1>5, <1>6, <1>7 DEF Next, vars

LEMMA OrderlyAlways == ASSUME OneAtATime PROVE Spec => []AllOrderly
<1>1. Init => AllFresh /\ AllOrderly
  <2> SUFFICES ASSUME Init PROVE AllFresh /\ AllOrderly
    OBVIOUS
  <2>1. AllFresh
    BY DEF Init, AllFresh, Fresh, Idle
  <2>2. AllOrderly
    BY DEF Init, AllOrderly, Orderly, NoRow, NoMoveIn
  <2> QED BY <2>1, <2>2
<1>2. TypeInv /\ AllFresh /\ AllOrderly /\ [Next]_vars => (AllFresh /\ AllOrderly)'
  BY FreshNext, OrderlyNext
<1> QED BY <1>1, <1>2, TypeCorrect, PTL DEF Spec

(* While requests do not overlap, a tenancy stays in the property of its   *)
(* room and its open dues with it, through any sequence of shifts, exits,  *)
(* returns and new dues.                                                   *)
THEOREM RoomFollowed == ASSUME OneAtATime PROVE Spec => []TenancyFollowsRoom
<1>1. AllOrderly /\ TypeInv => TenancyFollowsRoom
  BY DEF AllOrderly, Orderly, TenancyFollowsRoom, TypeInv, Consistent
<1> QED BY <1>1, OrderlyAlways, TypeCorrect, PTL

(* While requests do not overlap, deleteTenant lets nobody leave with an   *)
(* open due and no due is added to a tenancy that has ended.               *)
THEOREM LeftWithoutDues == ASSUME OneAtATime PROVE Spec => []ExitedOwesNothing
<1>1. AllOrderly => ExitedOwesNothing
  BY DEF AllOrderly, Orderly, ExitedOwesNothing, Is, NotDeleted
<1> QED BY <1>1, OrderlyAlways, PTL

(* While requests do not overlap, confirmMoveIn moves a tenancy in at most *)
(* once, also after an exit and a return.                                  *)
THEOREM MovedInOnce == ASSUME OneAtATime PROVE Spec => []MoveInConfirmedOnce
<1>1. AllOrderly => MoveInConfirmedOnce
  BY DEF AllOrderly, Orderly, MoveInConfirmedOnce, Is
<1> QED BY <1>1, OrderlyAlways, PTL

-----------------------------------------------------------------------------
(* What a handler found out about requests and phone numbers is still so.  *)
Awaited(q) ==
    /\ q.h = "createTenant" => q.user \in UsersByPhone(q.phone)
    /\ q.h = "requestMoveOut" => ~OpenMoveOut(q.ten)
    /\ q.h = "requestRoomShift" => ~OpenShift(q.ten)
    /\ q.h \in {"approveMoveOutRequest", "rejectMoveOutRequest"} =>
         moveOut[q.id].status = "PENDING"
    /\ \/ q.h \in {"approveRoomShiftRequest", "rejectRoomShiftRequest", "markApproved"}
       \/ q.h = "shiftTenantRoom" /\ q.id # None
       => shiftReq[q.id].status = "PENDING"

(* The inductive invariant, besides TypeInv.                               *)
Answerable == /\ \A s \in Slots : Awaited(req[s])
              /\ OneOpenRequest

LEMMA OthersAwaitNothing ==
    ASSUME NEW s \in Slots, req'[s].h \in {"idle", "updateTenancyDetails", "putOnNoticePeriod",
             "cancelNoticePeriod", "confirmMoveIn", "deleteTenant", "revokeTenancyExit",
             "reActiveTenancy", "addDue", "supersede", "updateTenantProfile"}
    PROVE  Awaited(req[s])'
BY DEF Awaited

LEMMA AwaitedReads ==
    ASSUME TypeInv, NEW s \in Slots, Reads(s) PROVE Awaited(req[s])'
<1>t. req \in [Slots -> Request]
  BY DEF TypeInv, TypeOK
<1>r. UNCHANGED rows
  BY ReadsGood DEF GoodRead
<1>1. ASSUME NEW n \in Phones, NEW r \in Rooms, CreateTenantRead(s, n, r)
      PROVE  Awaited(req[s])'
  BY <1>1, <1>t, <1>r DEF CreateTenantRead, Remember, Idle, Awaited, UsersByPhone, rows
<1>2. ASSUME NEW t \in Tenancies,
             \/ \E sets \in BOOLEAN : UpdateTenancyDetailsRead(s, t, sets)
             \/ PutOnNoticePeriodRead(s, t) \/ CancelNoticePeriodRead(s, t)
             \/ ConfirmMoveInRead(s, t) \/ DeleteTenantRead(s, t)
             \/ RevokeTenancyExitRead(s, t) \/ ReActiveTenancyRead(s, t)
             \/ AddDueToTenantRead(s, t)
      PROVE  Awaited(req[s])'
  <2>1. CASE \E sets \in BOOLEAN : UpdateTenancyDetailsRead(s, t, sets)
    BY <2>1, <1>t, OthersAwaitNothing DEF UpdateTenancyDetailsRead, Remember, Idle
  <2>2. CASE PutOnNoticePeriodRead(s, t) \/ CancelNoticePeriodRead(s, t)
    BY <2>2, <1>t, OthersAwaitNothing
       DEF PutOnNoticePeriodRead, CancelNoticePeriodRead, Remember, Idle
  <2>3. CASE ConfirmMoveInRead(s, t)
    BY <2>3, <1>t, OthersAwaitNothing DEF ConfirmMoveInRead, Remember, Idle
  <2>4. CASE DeleteTenantRead(s, t)
    BY <2>4, <1>t, OthersAwaitNothing DEF DeleteTenantRead, Remember, Idle
  <2>5. CASE RevokeTenancyExitRead(s, t) \/ ReActiveTenancyRead(s, t)
    BY <2>5, <1>t, OthersAwaitNothing
       DEF RevokeTenancyExitRead, ReActiveTenancyRead, Remember, Idle
  <2>6. CASE AddDueToTenantRead(s, t)
    BY <2>6, <1>t, OthersAwaitNothing DEF AddDueToTenantRead, Remember, Idle
  <2> QED BY <1>2, <2>1, <2>2, <2>3, <2>4, <2>5, <2>6
<1>3. ASSUME NEW r \in Rooms, AddDueToRoomRead(s, r) PROVE Awaited(req[s])'
  BY <1>3, <1>t, OthersAwaitNothing DEF AddDueToRoomRead, Remember, Idle
<1>4. ASSUME NEW t \in Tenancies, NEW r \in Rooms, NEW p \in Opt(Properties),
             ShiftTenantRoomRead(s, t, r, p)
      PROVE  Awaited(req[s])'
  BY <1>4, <1>t DEF ShiftTenantRoomRead, ShiftSnapshot, Remember, Idle, Awaited
<1>5. ASSUME NEW t \in Tenancies, NEW r \in Rooms, NEW p \in Opt(Properties),
             RequestRoomShiftRead(s, t, r, p)
      PROVE  Awaited(req[s])'
  BY <1>5, <1>t, <1>r DEF RequestRoomShiftRead, OpenShift, Remember, Idle, Awaited, rows
<1>6. ASSUME NEW t \in Tenancies, RequestMoveOutRead(s, t) PROVE Awaited(req[s])'
  BY <1>6, <1>t, <1>r DEF RequestMoveOutRead, OpenMoveOut, Remember, Idle, Awaited, rows
<1>7. ASSUME NEW i \in MoveReqs, ApproveMoveOutRequestRead(s, i) \/ RejectMoveOutRequestRead(s, i)
      PROVE  Awaited(req[s])'
  <2>1. moveOut'[i].status = "PENDING" BY <1>7, <1>r
    DEF ApproveMoveOutRequestRead, RejectMoveOutRequestRead, rows
  <2>2. req'[s].id = i /\ req'[s].h \in {"approveMoveOutRequest", "rejectMoveOutRequest"}
    <3>1. CASE ApproveMoveOutRequestRead(s, i)
      BY <3>1, <1>t DEF ApproveMoveOutRequestRead, Remember, Idle
    <3>2. CASE RejectMoveOutRequestRead(s, i)
      BY <3>2, <1>t DEF RejectMoveOutRequestRead, Remember, Idle
    <3> QED BY <1>7, <3>1, <3>2
  <2> QED BY <2>1, <2>2 DEF Awaited
<1>8. ASSUME NEW i \in ShiftReqs,
             ApproveRoomShiftRequestRead(s, i) \/ RejectRoomShiftRequestRead(s, i)
      PROVE  Awaited(req[s])'
  <2>1. shiftReq'[i].status = "PENDING" BY <1>8, <1>r
    DEF ApproveRoomShiftRequestRead, RejectRoomShiftRequestRead, rows
  <2>2. req'[s].id = i /\ req'[s].h \in {"approveRoomShiftRequest", "rejectRoomShiftRequest"}
    <3>1. CASE ApproveRoomShiftRequestRead(s, i)
      BY <3>1, <1>t DEF ApproveRoomShiftRequestRead, Remember, Idle
    <3>2. CASE RejectRoomShiftRequestRead(s, i)
      BY <3>2, <1>t DEF RejectRoomShiftRequestRead, Remember, Idle
    <3> QED BY <1>8, <3>1, <3>2
  <2> QED BY <2>1, <2>2 DEF Awaited
<1>9. ASSUME NEW u \in Users, NEW n \in Phones, UpdateTenantProfileRead(s, u, n)
      PROVE  Awaited(req[s])'
  BY <1>9, <1>t, OthersAwaitNothing DEF UpdateTenantProfileRead, Remember, Idle
<1> QED BY <1>1, <1>2, <1>3, <1>4, <1>5, <1>6, <1>7, <1>8, <1>9 DEF Reads

LEMMA AwaitedCommits ==
    ASSUME TypeInv, NEW s \in Slots, Awaited(req[s]), Commits(s) PROVE Awaited(req[s])'
<1>t. req \in [Slots -> Request] /\ Idle.h = "idle"
  BY DEF TypeInv, TypeOK, Idle
<1>1. CASE Done(s)
  BY <1>1, <1>t, OthersAwaitNothing DEF Done
<1>2. CASE ShiftTenantRoomCommit(s)
  <2>1. CASE req[s].id = None BY <1>1, <1>2, <2>1 DEF ShiftTenantRoomCommit
  <2>2. CASE req[s].id # None
    <3>1. /\ shiftReq[req[s].id].status = "PENDING" /\ UNCHANGED shiftReq
          /\ req'[s] = [req[s] EXCEPT !.h = "markApproved"]
      BY <1>2, <1>t, <2>2 DEF ShiftTenantRoomCommit, Runs, Awaited, Remember
    <3>2. req'[s].h = "markApproved" /\ req'[s].id = req[s].id BY <1>t, <3>1 DEF Request
    <3> QED BY <3>1, <3>2 DEF Awaited
  <2> QED BY <2>1, <2>2
<1>3. CASE ApproveRoomShiftRequestShift(s)
  <2>1. /\ shiftReq[req[s].id].status = "PENDING" /\ UNCHANGED shiftReq
        /\ req'[s].h = "shiftTenantRoom" /\ req'[s].id = req[s].id
    BY <1>3, <1>t DEF ApproveRoomShiftRequestShift, Runs, Awaited, Remember, ShiftSnapshot,
       Idle, rows
  <2> QED BY <2>1 DEF Awaited
<1>4. CASE ApproveRoomShiftRequestMark(s)
  BY <1>4, <1>t, OthersAwaitNothing DEF ApproveRoomShiftRequestMark, Remember, Request
<1> QED
  BY <1>1, <1>2, <1>3, <1>4
     DEF Commits, CreateTenantCommit, UpdateTenancyDetailsCommit,
         ApproveRoomShiftRequestSupersede, PutOnNoticePeriodCommit, CancelNoticePeriodCommit,
         RequestMoveOutCommit, ApproveMoveOutRequestCommit, RejectMoveOutRequestCommit,
         RequestRoomShiftCommit, RejectRoomShiftRequestCommit, ConfirmMoveInCommit,
         DeleteTenantCommit, RevokeTenancyExitCommit, ReActiveTenancyCommit, AddDueCommit,
         UpdateTenantProfileCommit

-----------------------------------------------------------------------------
(* What commits do to requests: decide open ones, or open one where none   *)
(* is open.                                                                *)
Decides ==
    /\ \A i \in MoveReqs : \/ moveOut'[i] = moveOut[i]
                           \/ moveOut[i].status = "PENDING" /\ moveOut'[i].status # "PENDING"
    /\ \A i \in ShiftReqs : \/ shiftReq'[i] = shiftReq[i]
                            \/ shiftReq[i].status = "PENDING" /\ shiftReq'[i].status # "PENDING"

OpensMoveOut ==
    \E t \in Tenancies, i \in MoveReqs :
        /\ ~OpenMoveOut(t) /\ moveOut[i].status = "none"
        /\ moveOut' = [moveOut EXCEPT ![i] = [status |-> "PENDING", ten |-> t]]
        /\ UNCHANGED shiftReq

OpensShift ==
    \E t \in Tenancies, i \in ShiftReqs :
        /\ ~OpenShift(t) /\ shiftReq[i].status = "none"
        /\ shiftReq'[i].status = "PENDING" /\ shiftReq'[i].ten = t
        /\ \A j \in ShiftReqs : j # i => shiftReq'[j] = shiftReq[j]
        /\ UNCHANGED moveOut

Answers == Decides \/ OpensMoveOut \/ OpensShift

(* A column write decides a row.                                           *)
LEMMA Rejected ==
    /\ \A r \in MoveOutRow : [r EXCEPT !.status = "REJECTED"].status = "REJECTED"
    /\ \A r \in ShiftRow : [r EXCEPT !.status = "REJECTED"].status = "REJECTED"
BY DEF MoveOutRow, ShiftRow

LEMMA CommitsAnswer ==
    ASSUME TypeInv, NEW s \in Slots, Awaited(req[s]), Commits(s) PROVE Answers
<1> DEFINE q == req[s]
<1>t. /\ moveOut \in [MoveReqs -> MoveOutRow] /\ shiftReq \in [ShiftReqs -> ShiftRow]
      /\ SnapshotOK(q) /\ q \in Request
  BY DEF TypeInv, TypeOK, Consistent
<1>1. CASE RequestMoveOutCommit(s)
  <2>1. q.ten \in Tenancies /\ ~OpenMoveOut(q.ten) /\ UNCHANGED shiftReq
    BY <1>1, <1>t DEF RequestMoveOutCommit, Runs, SnapshotOK, Awaited
  <2>2. PICK i \in MoveReqs :
          /\ moveOut[i].status = "none"
          /\ moveOut' = [moveOut EXCEPT ![i] = [status |-> "PENDING", ten |-> q.ten]]
    BY <1>1 DEF RequestMoveOutCommit
  <2> QED BY <2>1, <2>2 DEF Answers, OpensMoveOut
<1>2. CASE RequestRoomShiftCommit(s)
  <2>1. q.ten \in Tenancies /\ ~OpenShift(q.ten) /\ UNCHANGED moveOut
    BY <1>2, <1>t DEF RequestRoomShiftCommit, Runs, SnapshotOK, Awaited
  <2>2. PICK i \in ShiftReqs :
          /\ shiftReq[i].status = "none"
          /\ shiftReq' = [shiftReq EXCEPT ![i] = [status |-> "PENDING", ten |-> q.ten,
                                                  room |-> q.to, prop |-> q.prop]]
    BY <1>2 DEF RequestRoomShiftCommit
  <2>3. shiftReq'[i].status = "PENDING" /\ shiftReq'[i].ten = q.ten
        /\ \A j \in ShiftReqs : j # i => shiftReq'[j] = shiftReq[j]
    BY <1>t, <2>2
  <2> QED BY <2>1, <2>2, <2>3 DEF Answers, OpensShift
<1>3. CASE ApproveMoveOutRequestCommit(s) \/ RejectMoveOutRequestCommit(s)
  <2>1. /\ q.id \in MoveReqs /\ moveOut[q.id].status = "PENDING" /\ UNCHANGED shiftReq
        /\ \/ moveOut' = [moveOut EXCEPT ![q.id].status = "APPROVED"]
           \/ moveOut' = [moveOut EXCEPT ![q.id].status = "REJECTED"]
    BY <1>3, <1>t DEF ApproveMoveOutRequestCommit, RejectMoveOutRequestCommit, Runs,
       SnapshotOK, Awaited
  <2>2. moveOut'[q.id].status # "PENDING"
        /\ \A i \in MoveReqs : i # q.id => moveOut'[i] = moveOut[i]
    BY <1>t, <2>1 DEF MoveOutRow
  <2> QED BY <2>1, <2>2 DEF Answers, Decides
<1>4. CASE ApproveRoomShiftRequestMark(s) \/ RejectRoomShiftRequestCommit(s)
  <2>1. /\ q.id \in ShiftReqs /\ shiftReq[q.id].status = "PENDING" /\ UNCHANGED moveOut
        /\ \/ shiftReq' = [shiftReq EXCEPT ![q.id].status = "APPROVED"]
           \/ shiftReq' = [shiftReq EXCEPT ![q.id].status = "REJECTED"]
    BY <1>4, <1>t DEF ApproveRoomShiftRequestMark, RejectRoomShiftRequestCommit, Runs,
       SnapshotOK, Awaited
  <2>2. shiftReq'[q.id].status # "PENDING"
        /\ \A i \in ShiftReqs : i # q.id => shiftReq'[i] = shiftReq[i]
    BY <1>t, <2>1 DEF ShiftRow
  <2> QED BY <2>1, <2>2 DEF Answers, Decides
<1>5. CASE ApproveRoomShiftRequestSupersede(s)
  <2>1. UNCHANGED moveOut BY <1>5 DEF ApproveRoomShiftRequestSupersede
  <2>2. \A i \in ShiftReqs : \/ shiftReq'[i] = shiftReq[i]
                             \/ /\ shiftReq[i].status = "PENDING"
                                /\ shiftReq'[i] = [shiftReq[i] EXCEPT !.status = "REJECTED"]
    BY <1>5 DEF ApproveRoomShiftRequestSupersede
  <2>3. \A i \in ShiftReqs : \/ shiftReq'[i] = shiftReq[i]
                             \/ shiftReq[i].status = "PENDING" /\ shiftReq'[i].status # "PENDING"
    <3> SUFFICES ASSUME NEW i \in ShiftReqs
                 PROVE  \/ shiftReq'[i] = shiftReq[i]
                        \/ shiftReq[i].status = "PENDING" /\ shiftReq'[i].status # "PENDING"
      OBVIOUS
    <3>1. shiftReq[i] \in ShiftRow BY <1>t
    <3> QED BY <2>2, <3>1, Rejected
  <2> QED BY <2>1, <2>3 DEF Answers, Decides
<1>6. CASE PutOnNoticePeriodCommit(s) \/ CancelNoticePeriodCommit(s)
  <2>1. UNCHANGED shiftReq /\ moveOut' = PendingRejected(q.ten)
    BY <1>6 DEF PutOnNoticePeriodCommit, CancelNoticePeriodCommit
  <2>2. \A i \in MoveReqs : \/ moveOut'[i] = moveOut[i]
                            \/ /\ moveOut[i] = [status |-> "PENDING", ten |-> q.ten]
                               /\ moveOut'[i] = [moveOut[i] EXCEPT !.status = "REJECTED"]
    BY <2>1 DEF PendingRejected
  <2>3. \A i \in MoveReqs : \/ moveOut'[i] = moveOut[i]
                            \/ moveOut[i].status = "PENDING" /\ moveOut'[i].status # "PENDING"
    <3> SUFFICES ASSUME NEW i \in MoveReqs
                 PROVE  \/ moveOut'[i] = moveOut[i]
                        \/ moveOut[i].status = "PENDING" /\ moveOut'[i].status # "PENDING"
      OBVIOUS
    <3>1. CASE moveOut'[i] = moveOut[i] BY <3>1
    <3>2. CASE /\ moveOut[i] = [status |-> "PENDING", ten |-> q.ten]
               /\ moveOut'[i] = [moveOut[i] EXCEPT !.status = "REJECTED"]
      <4>1. moveOut[i] \in MoveOutRow /\ moveOut[i].status = "PENDING" BY <1>t, <3>2
      <4>2. moveOut'[i].status = "REJECTED" BY <3>2, <4>1, Rejected
      <4> QED BY <4>1, <4>2
    <3> QED BY <2>2, <3>1, <3>2
  <2> QED BY <2>1, <2>3 DEF Answers, Decides
<1>7. CASE UNCHANGED <<moveOut, shiftReq>>
  BY <1>7 DEF Answers, Decides
<1> QED
  BY <1>1, <1>2, <1>3, <1>4, <1>5, <1>6, <1>7
     DEF Commits, CreateTenantCommit, UpdateTenancyDetailsCommit, ShiftTenantRoomCommit,
         ApproveRoomShiftRequestShift, ConfirmMoveInCommit, DeleteTenantCommit,
         RevokeTenancyExitCommit, ReActiveTenancyCommit, AddDueCommit,
         UpdateTenantProfileCommit, rows

LEMMA AnswersKeepOne ==
    ASSUME TypeInv, TypeInv', OneOpenRequest, Answers PROVE OneOpenRequest'
<1>t. moveOut \in [MoveReqs -> MoveOutRow] /\ shiftReq \in [ShiftReqs -> ShiftRow]
  BY DEF TypeInv, TypeOK
<1>1. CASE Decides BY <1>1 DEF Decides, OneOpenRequest
<1>2. CASE OpensMoveOut
  <2>1. PICK t \in Tenancies, i \in MoveReqs :
          /\ ~OpenMoveOut(t) /\ UNCHANGED shiftReq
          /\ moveOut' = [moveOut EXCEPT ![i] = [status |-> "PENDING", ten |-> t]]
    BY <1>2 DEF OpensMoveOut
  <2>2. \A j \in MoveReqs : moveOut[j] # [status |-> "PENDING", ten |-> t]
    BY <2>1 DEF OpenMoveOut
  <2> QED BY <1>t, <2>1, <2>2 DEF OneOpenRequest
<1>3. CASE OpensShift BY <1>3 DEF OpensShift, OpenShift, OneOpenRequest
<1> QED BY <1>1, <1>2, <1>3 DEF Answers

(* Who comes to share a number in a step, and by whose doing.              *)
Registered ==
    \A u, v \in Users :
        u # v /\ phone'[u] # None /\ phone'[u] = phone'[v] =>
          \/ phone'[u] = phone[u] /\ phone'[v] = phone[v]
          \/ \E s \in Slots : /\ req[s].h = "updateTenantProfile"
                              /\ req[s].user \in {u, v} /\ req'[s] = Idle

(* A new user gets a number that nobody has; a known one keeps its own.    *)
LEMMA CommitsRegister ==
    ASSUME TypeInv, NEW s \in Slots, Awaited(req[s]), Commits(s)
    PROVE  Registered
<1> DEFINE q == req[s]
<1>t. phone \in [Users -> Opt(Phones)] /\ req \in [Slots -> Request] /\ SnapshotOK(q)
  BY DEF TypeInv, TypeOK, Consistent
<1>1. CASE CreateTenantCommit(s)
  <2>1. q.phone \in Phones /\ q.user \in UsersByPhone(q.phone)
    BY <1>1, <1>t DEF CreateTenantCommit, Runs, SnapshotOK, Awaited
  <2>2. PICK u \in IF q.user = None THEN {v \in Users : phone[v] = None} ELSE {q.user} :
          phone' = IF q.user = None THEN WithPhone(u, q.phone) ELSE phone
    BY <1>1 DEF CreateTenantCommit
  <2>3. CASE q.user = None
    <3>1. \A v \in Users : phone[v] # q.phone BY <2>1, <2>3, NoneAssumption DEF UsersByPhone
    <3>2. phone'[u] = q.phone /\ \A v \in Users : v # u => phone'[v] = phone[v]
      BY <1>t, <2>2, <2>3 DEF WithPhone
    <3> QED BY <3>1, <3>2 DEF Registered
  <2>4. CASE q.user # None BY <2>2, <2>4 DEF Registered
  <2> QED BY <2>3, <2>4
<1>2. CASE UpdateTenantProfileCommit(s)
  <2>1. /\ q.h = "updateTenantProfile" /\ req'[s] = Idle
        /\ \A v \in Users : v # q.user => phone'[v] = phone[v]
    BY <1>2, <1>t DEF UpdateTenantProfileCommit, Runs, Done, WithPhone
  <2> QED BY <2>1 DEF Registered
<1>3. CASE UNCHANGED phone BY <1>3 DEF Registered
<1> QED
  BY <1>1, <1>2, <1>3
     DEF Commits, UpdateTenancyDetailsCommit, ShiftTenantRoomCommit,
         ApproveRoomShiftRequestShift, ApproveRoomShiftRequestMark,
         ApproveRoomShiftRequestSupersede, PutOnNoticePeriodCommit, CancelNoticePeriodCommit,
         RequestMoveOutCommit, ApproveMoveOutRequestCommit, RejectMoveOutRequestCommit,
         RequestRoomShiftCommit, RejectRoomShiftRequestCommit, ConfirmMoveInCommit,
         DeleteTenantCommit, RevokeTenancyExitCommit, ReActiveTenancyCommit, AddDueCommit, rows

LEMMA AnswerableNext ==
    ASSUME OneAtATime, TypeInv, Answerable, [Next]_vars
    PROVE  Answerable' /\ Answers /\ Registered
<1>t. TypeInv' BY NextOK
<1>1. ASSUME NEW s \in Slots, Reads(s) \/ Commits(s) \/ Abort(s)
      PROVE  Answerable' /\ Answers /\ Registered
  <2>1. CASE Commits(s)
    <3>1. Answers BY <2>1, CommitsAnswer DEF Answerable
    <3>2. OneOpenRequest' BY <1>t, <3>1, AnswersKeepOne DEF Answerable
    <3>3. Registered BY <2>1, CommitsRegister DEF Answerable
    <3>4. Awaited(req[s])' BY <2>1, AwaitedCommits DEF Answerable
    <3> QED BY <3>1, <3>2, <3>3, <3>4 DEF Answerable, OneAtATime
  <2>2. CASE Reads(s) \/ Abort(s)
    <3>1. UNCHANGED <<moveOut, shiftReq, phone>>
      BY <2>2, ReadsGood DEF GoodRead, Abort, rows
    <3>2. Awaited(req[s])'
      <4>1. CASE Reads(s) BY <4>1, AwaitedReads
      <4>2. CASE Abort(s)
        BY <4>2, OthersAwaitNothing DEF Abort, Done, Idle, TypeInv, TypeOK
      <4> QED BY <2>2, <4>1, <4>2
    <3> QED BY <3>1, <3>2 DEF Answerable, OneAtATime, OneOpenRequest, Registered,
                              Answers, Decides
  <2> QED BY <1>1, <2>1, <2>2
<1>2. CASE UNCHANGED <<moveOut, shiftReq, phone, req>>
  BY <1>2 DEF Answerable, Awaited, UsersByPhone, OpenMoveOut, OpenShift, OneOpenRequest,
     Registered, Answers, Decides
<1> QED BY <1>1, <1>2 DEF Next, JoinDateArrives, DuesClosed, EditRoom, vars

LEMMA AnswerableAlways == ASSUME OneAtATime PROVE Spec => []Answerable
<1>1. Init => Answerable
  BY DEF Init, Answerable, Awaited, Idle, OneOpenRequest
<1> QED BY <1>1, AnswerableNext, TypeCorrect, PTL DEF Spec

(* While requests do not overlap, requestMoveOut and requestRoomShift      *)
(* never leave a tenancy with two open requests of one kind.               *)
THEOREM OneRequestOpen == ASSUME OneAtATime PROVE Spec => []OneOpenRequest
BY AnswerableAlways, PTL DEF Answerable

(* While requests do not overlap, no approval, rejection, shift or change  *)
(* of notice rewrites a request that was decided before.                   *)
THEOREM DecisionsStay == ASSUME OneAtATime PROVE Spec => DecisionsAreFinal
<1> DEFINE Step ==
             /\ \A i \in MoveReqs : moveOut[i].status \in {"APPROVED", "REJECTED"} =>
                  moveOut'[i] = moveOut[i]
             /\ \A i \in ShiftReqs : shiftReq[i].status \in {"APPROVED", "REJECTED"} =>
                  shiftReq'[i] = shiftReq[i]
<1>1. TypeInv /\ Answerable /\ [Next]_vars => [Step]_vars
  <2> SUFFICES ASSUME TypeInv, Answers PROVE Step BY AnswerableNext
  <2> QED BY DEF TypeInv, TypeOK, Answers, Decides, OpensMoveOut, OpensShift
<1> QED BY <1>1, AnswerableAlways, TypeCorrect, PTL DEF Spec, DecisionsAreFinal

(* While requests do not overlap, two users come to share a phone number   *)
(* only when an owner edits the profile of one of them; createTenant       *)
(* inserts no user with a number that another has.                         *)
THEOREM PhonesShared == ASSUME OneAtATime PROVE Spec => PhoneSharedOnlyByEdit
<1>1. TypeInv /\ Answerable /\ [Next]_vars => [Registered]_vars
  BY AnswerableNext
<1> QED BY <1>1, AnswerableAlways, TypeCorrect, PTL
        DEF Spec, PhoneSharedOnlyByEdit, Registered
=============================================================================
