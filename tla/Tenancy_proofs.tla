--------------------------- MODULE Tenancy_proofs ---------------------------
(***************************************************************************)
(* Proofs about Tenancy for all values of its constants: any number of     *)
(* overlapping requests, rooms and tenancies.                              *)
(***************************************************************************)
EXTENDS Tenancy, TLAPS, FiniteSetTheorems

(* A tenancy row that was inserted points to its user, room and property.  *)
Linked(t) == /\ tenancy[t].status # "none"
             /\ tenancy[t].user \in Users
             /\ tenancy[t].room \in Rooms
             /\ tenancy[t].prop \in Properties

(* What a slot remembers is enough to commit: the row is there, and the    *)
(* user read from it, which no handler ever rewrites, is still its user.   *)
SnapshotOK(q) ==
    /\ q.h = "createTenant" => q.to \in Rooms /\ q.phone \in Phones
    /\ q.h = "updateTenantProfile" => q.user \in Users /\ q.phone \in Phones
    /\ q.h \in {"updateTenancyDetails", "putOnNoticePeriod", "cancelNoticePeriod",
                "approveMoveOutRequest", "reActiveTenancy"} =>
         q.ten \in Tenancies /\ Linked(q.ten) /\ q.user = tenancy[q.ten].user
    /\ q.h \in {"shiftTenantRoom", "approveRoomShiftRequest"} =>
         q.ten \in Tenancies /\ Linked(q.ten) /\ q.to \in Rooms
    /\ q.h \in {"requestMoveOut", "requestRoomShift"} => q.ten \in Tenancies /\ Linked(q.ten)
    /\ q.h = "requestRoomShift" => q.to \in Rooms
    /\ q.h \in {"deleteTenant", "revokeTenancyExit", "confirmMoveIn"} =>
         q.ten \in Tenancies /\ Linked(q.ten)
    /\ q.h \in {"shiftTenantRoom", "deleteTenant", "revokeTenancyExit", "reActiveTenancy"} =>
         q.room \in Rooms
    /\ q.h \in {"approveMoveOutRequest", "rejectMoveOutRequest"} =>
         q.id \in MoveReqs /\ moveOut[q.id].status # "none"
    /\ q.h \in {"approveRoomShiftRequest", "rejectRoomShiftRequest", "markApproved"} =>
         q.id \in ShiftReqs /\ shiftReq[q.id].status # "none"
    /\ q.h = "shiftTenantRoom" /\ q.id # None =>
         q.id \in ShiftReqs /\ shiftReq[q.id].status # "none"

Consistent ==
    /\ \A t \in Tenancies : tenancy[t].status = "none" => tenancy[t] = NoRow
    /\ \A t \in Tenancies : tenancy[t].status # "none" => Linked(t)
    /\ \A i \in MoveReqs : moveOut[i].status # "none" =>
         moveOut[i].ten \in Tenancies /\ Linked(moveOut[i].ten)
    /\ \A i \in ShiftReqs : shiftReq[i].status # "none" =>
         /\ shiftReq[i].ten \in Tenancies /\ Linked(shiftReq[i].ten)
         /\ shiftReq[i].room \in Rooms
    /\ \A s \in Slots : SnapshotOK(req[s])

TypeInv == TypeOK /\ Consistent

-----------------------------------------------------------------------------
(* The snapshots stay valid in a step that leaves the identifying columns  *)
(* of every inserted tenancy alone and deletes none.                       *)
RowsKept ==
    \A t \in Tenancies :
        /\ Linked(t) => Linked(t)' /\ tenancy'[t].user = tenancy[t].user
        /\ tenancy'[t].status = "none" => tenancy'[t] = tenancy[t]

(* No handler deletes a request row.                                       *)
RequestsKept ==
    /\ \A i \in MoveReqs : moveOut[i].status # "none" => moveOut'[i].status # "none"
    /\ \A i \in ShiftReqs : shiftReq[i].status # "none" => shiftReq'[i].status # "none"

LEMMA SnapshotKept ==
    ASSUME NEW s \in Slots, SnapshotOK(req[s]), RowsKept, RequestsKept, req'[s] = req[s]
    PROVE  SnapshotOK(req[s])'
BY DEF SnapshotOK, RowsKept, RequestsKept, Linked

(* What is left to show of a step of slot s.                               *)
LEMMA StepOK ==
    ASSUME TypeInv, RowsKept, RequestsKept, NEW s \in Slots,
           req' = [req EXCEPT ![s] = req'[s]], req'[s] \in Request, SnapshotOK(req[s])',
           \A t \in Tenancies : tenancy'[t].status # "none" => Linked(t)',
           \A i \in MoveReqs : moveOut'[i].status # "none" =>
              moveOut'[i].ten \in Tenancies /\ Linked(moveOut[i].ten)',
           \A i \in ShiftReqs : shiftReq'[i].status # "none" =>
              /\ shiftReq'[i].ten \in Tenancies /\ Linked(shiftReq[i].ten)'
              /\ shiftReq'[i].room \in Rooms
    PROVE  Consistent' /\ req' \in [Slots -> Request]
<1>1. req' \in [Slots -> Request]
  BY DEF TypeInv, TypeOK
<1>2. ASSUME NEW x \in Slots PROVE SnapshotOK(req[x])'
  <2>1. CASE x = s
    BY <2>1
  <2>2. CASE x # s
    BY <2>2, SnapshotKept DEF TypeInv, TypeOK, Consistent
  <2> QED BY <2>1, <2>2
<1>3. \A t \in Tenancies : tenancy'[t].status = "none" => tenancy'[t] = NoRow
  BY DEF RowsKept, TypeInv, Consistent
<1> QED BY <1>1, <1>2, <1>3 DEF Consistent

LEMMA ReadOK ==
    ASSUME TypeInv, NEW s \in Slots, UNCHANGED rows,
           req' = [req EXCEPT ![s] = req'[s]], req'[s] \in Request, SnapshotOK(req[s])'
    PROVE  TypeInv' /\ RowsKept
<1>1. RowsKept /\ RequestsKept
  BY DEF RowsKept, RequestsKept, rows, Linked
<1> QED BY <1>1, StepOK DEF TypeInv, TypeOK, rows, Consistent, Linked

(* A read leaves behind a well-formed snapshot of current rows.            *)
GoodRead(s) ==
    /\ req' = [req EXCEPT ![s] = req'[s]]
    /\ req'[s] \in Request
    /\ SnapshotOK(req[s])'
    /\ UNCHANGED rows

LEMMA RowLinked ==
    ASSUME TypeInv, NEW t \in Tenancies, tenancy[t].status # "none"
    PROVE  Linked(t) /\ tenancy[t].status \in Statuses
BY DEF TypeInv, TypeOK, Consistent, Row

LEMMA Remembered ==
    ASSUME TypeInv, NEW s \in Slots, NEW STATE r, r \in Request, SnapshotOK(r),
           req' = [req EXCEPT ![s] = r], UNCHANGED rows
    PROVE  GoodRead(s)
<1>1. req'[s] = r
  BY DEF TypeInv, TypeOK
<1> QED BY <1>1 DEF GoodRead, SnapshotOK, Linked, rows

LEMMA ReadsGood ==
    ASSUME TypeInv, NEW s \in Slots, Reads(s)
    PROVE  GoodRead(s)
<1>1. ASSUME NEW n \in Phones, NEW m \in Rooms, CreateTenantRead(s, n, m)
      PROVE  GoodRead(s)
  <2>1. PICK u \in Opt(Users) : req' = [req EXCEPT ![s] =
              [Idle EXCEPT !.h = "createTenant", !.user = u, !.phone = n, !.to = m]]
    BY <1>1 DEF CreateTenantRead, Remember, UsersByPhone, Opt
  <2> DEFINE r == [Idle EXCEPT !.h = "createTenant", !.user = u, !.phone = n, !.to = m]
  <2>2. r \in Request
    BY DEF Request, Idle, Opt, HandlerNames, Statuses, Blocking, Linked
  <2>3. SnapshotOK(r)
    BY DEF SnapshotOK, Idle
  <2>4. UNCHANGED rows
    BY <1>1 DEF CreateTenantRead
  <2> HIDE DEF r
  <2> QED BY <2>1, <2>2, <2>3, <2>4, Remembered DEF r
<1>2. ASSUME NEW t \in Tenancies, NEW sets \in BOOLEAN, UpdateTenancyDetailsRead(s, t, sets)
      PROVE  GoodRead(s)
  <2> DEFINE r == [Idle EXCEPT !.h = "updateTenancyDetails", !.ten = t,
                               !.user = tenancy[t].user, !.sets = sets]
  <2>1. Linked(t) /\ tenancy[t].status \in Statuses
    BY <1>2, RowLinked DEF UpdateTenancyDetailsRead, Is, Current
  <2>2. r \in Request
    BY <2>1, PropOfAssumption DEF Request, Idle, Opt, HandlerNames, Statuses, Blocking, Linked
  <2>3. SnapshotOK(r)
    BY <2>1 DEF SnapshotOK, Idle
  <2>4. req' = [req EXCEPT ![s] = r] /\ UNCHANGED rows
    BY <1>2 DEF UpdateTenancyDetailsRead, Remember
  <2> HIDE DEF r
  <2> QED BY <2>2, <2>3, <2>4, Remembered
<1>3. ASSUME NEW t \in Tenancies, PutOnNoticePeriodRead(s, t)
      PROVE  GoodRead(s)
  <2> DEFINE r == [Idle EXCEPT !.h = "putOnNoticePeriod", !.ten = t,
                               !.user = tenancy[t].user, !.status = tenancy[t].status]
  <2>1. Linked(t) /\ tenancy[t].status \in Statuses
    BY <1>3, RowLinked DEF PutOnNoticePeriodRead, Is, Current
  <2>2. r \in Request
    BY <2>1, PropOfAssumption DEF Request, Idle, Opt, HandlerNames, Statuses, Blocking, Linked
  <2>3. SnapshotOK(r)
    BY <2>1 DEF SnapshotOK, Idle
  <2>4. req' = [req EXCEPT ![s] = r] /\ UNCHANGED rows
    BY <1>3 DEF PutOnNoticePeriodRead, Remember
  <2> HIDE DEF r
  <2> QED BY <2>2, <2>3, <2>4, Remembered
<1>4. ASSUME NEW t \in Tenancies, CancelNoticePeriodRead(s, t)
      PROVE  GoodRead(s)
  <2> DEFINE r == [Idle EXCEPT !.h = "cancelNoticePeriod", !.ten = t, !.user = tenancy[t].user]
  <2>1. Linked(t) /\ tenancy[t].status \in Statuses
    BY <1>4, RowLinked DEF CancelNoticePeriodRead, Is
  <2>2. r \in Request
    BY <2>1, PropOfAssumption DEF Request, Idle, Opt, HandlerNames, Statuses, Blocking, Linked
  <2>3. SnapshotOK(r)
    BY <2>1 DEF SnapshotOK, Idle
  <2>4. req' = [req EXCEPT ![s] = r] /\ UNCHANGED rows
    BY <1>4 DEF CancelNoticePeriodRead, Remember
  <2> HIDE DEF r
  <2> QED BY <2>2, <2>3, <2>4, Remembered
<1>5. ASSUME NEW t \in Tenancies, RequestMoveOutRead(s, t)
      PROVE  GoodRead(s)
  <2> DEFINE r == [Idle EXCEPT !.h = "requestMoveOut", !.ten = t]
  <2>1. Linked(t) /\ tenancy[t].status \in Statuses
    BY <1>5, RowLinked DEF RequestMoveOutRead, Is, Current
  <2>2. r \in Request
    BY <2>1, PropOfAssumption DEF Request, Idle, Opt, HandlerNames, Statuses, Blocking, Linked
  <2>3. SnapshotOK(r)
    BY <2>1 DEF SnapshotOK, Idle
  <2>4. req' = [req EXCEPT ![s] = r] /\ UNCHANGED rows
    BY <1>5 DEF RequestMoveOutRead, Remember
  <2> HIDE DEF r
  <2> QED BY <2>2, <2>3, <2>4, Remembered
<1>6. ASSUME NEW t \in Tenancies, ConfirmMoveInRead(s, t)
      PROVE  GoodRead(s)
  <2> DEFINE r == [Idle EXCEPT !.h = "confirmMoveIn", !.ten = t]
  <2>1. Linked(t) /\ tenancy[t].status \in Statuses
    BY <1>6, RowLinked DEF ConfirmMoveInRead, Is
  <2>2. r \in Request
    BY <2>1, PropOfAssumption DEF Request, Idle, Opt, HandlerNames, Statuses, Blocking, Linked
  <2>3. SnapshotOK(r)
    BY <2>1 DEF SnapshotOK, Idle
  <2>4. req' = [req EXCEPT ![s] = r] /\ UNCHANGED rows
    BY <1>6 DEF ConfirmMoveInRead, Remember
  <2> HIDE DEF r
  <2> QED BY <2>2, <2>3, <2>4, Remembered
<1>7. ASSUME NEW t \in Tenancies, DeleteTenantRead(s, t)
      PROVE  GoodRead(s)
  <2> DEFINE r == [Idle EXCEPT !.h = "deleteTenant", !.ten = t, !.room = tenancy[t].room]
  <2>1. Linked(t) /\ tenancy[t].status \in Statuses
    BY <1>7, RowLinked DEF DeleteTenantRead, Is, Blocking
  <2>2. r \in Request
    BY <2>1, PropOfAssumption DEF Request, Idle, Opt, HandlerNames, Statuses, Blocking, Linked
  <2>3. SnapshotOK(r)
    BY <2>1 DEF SnapshotOK, Linked, Idle
  <2>4. req' = [req EXCEPT ![s] = r] /\ UNCHANGED rows
    BY <1>7 DEF DeleteTenantRead, Remember
  <2> HIDE DEF r
  <2> QED BY <2>2, <2>3, <2>4, Remembered
<1>8. ASSUME NEW t \in Tenancies, RevokeTenancyExitRead(s, t)
      PROVE  GoodRead(s)
  <2> DEFINE r == [Idle EXCEPT !.h = "revokeTenancyExit", !.ten = t, !.room = tenancy[t].room]
  <2>1. Linked(t) /\ tenancy[t].status \in Statuses
    BY <1>8, RowLinked DEF RevokeTenancyExitRead, Is
  <2>2. r \in Request
    BY <2>1, PropOfAssumption DEF Request, Idle, Opt, HandlerNames, Statuses, Blocking, Linked
  <2>3. SnapshotOK(r)
    BY <2>1 DEF SnapshotOK, Linked, Idle
  <2>4. req' = [req EXCEPT ![s] = r] /\ UNCHANGED rows
    BY <1>8 DEF RevokeTenancyExitRead, Remember
  <2> HIDE DEF r
  <2> QED BY <2>2, <2>3, <2>4, Remembered
<1>9. ASSUME NEW t \in Tenancies, ReActiveTenancyRead(s, t)
      PROVE  GoodRead(s)
  <2> DEFINE r == [Idle EXCEPT !.h = "reActiveTenancy", !.ten = t,
                               !.user = tenancy[t].user, !.room = tenancy[t].room]
  <2>1. Linked(t) /\ tenancy[t].status \in Statuses
    BY <1>9, RowLinked DEF ReActiveTenancyRead, Is
  <2>2. r \in Request
    BY <2>1, PropOfAssumption DEF Request, Idle, Opt, HandlerNames, Statuses, Blocking, Linked
  <2>3. SnapshotOK(r)
    BY <2>1 DEF SnapshotOK, Linked, Idle
  <2>4. req' = [req EXCEPT ![s] = r] /\ UNCHANGED rows
    BY <1>9 DEF ReActiveTenancyRead, Remember
  <2> HIDE DEF r
  <2> QED BY <2>2, <2>3, <2>4, Remembered
<1>10. ASSUME NEW t \in Tenancies, AddDueToTenantRead(s, t)
      PROVE  GoodRead(s)
  <2> DEFINE r == [Idle EXCEPT !.h = "addDue", !.dues = {<<t, tenancy[t].prop>>}]
  <2>1. Linked(t) /\ tenancy[t].status \in Statuses
    BY <1>10, RowLinked DEF AddDueToTenantRead, Is, Billable, Blocking
  <2>5. <<t, tenancy[t].prop>> \in Tenancies \X Properties
    BY <2>1 DEF Linked
  <2>2. r \in Request
    BY <2>5 DEF Request, Idle, Opt, HandlerNames, Statuses, Blocking, Linked
  <2>3. SnapshotOK(r)
    BY <2>1 DEF SnapshotOK, Idle
  <2>4. req' = [req EXCEPT ![s] = r] /\ UNCHANGED rows
    BY <1>10 DEF AddDueToTenantRead, Remember
  <2> HIDE DEF r
  <2> QED BY <2>2, <2>3, <2>4, Remembered
<1>11. ASSUME NEW m \in Rooms, AddDueToRoomRead(s, m)
      PROVE  GoodRead(s)
  <2> DEFINE r == [Idle EXCEPT !.h = "addDue",
                               !.dues = {t \in Tenancies : tenancy[t].room = m /\ Billable(t, PropOf[m])}
                                         \X {PropOf[m]}]
  <2>2. r \in Request
    BY PropOfAssumption DEF Request, Idle, Opt, HandlerNames, Statuses, Blocking, Linked
  <2>3. SnapshotOK(r)
    BY DEF SnapshotOK, Idle
  <2>4. req' = [req EXCEPT ![s] = r] /\ UNCHANGED rows
    BY <1>11 DEF AddDueToRoomRead, Remember
  <2> HIDE DEF r
  <2> QED BY <2>2, <2>3, <2>4, Remembered
<1>12. ASSUME NEW t \in Tenancies, NEW m \in Rooms, NEW p \in Opt(Properties), RequestRoomShiftRead(s, t, m, p)
      PROVE  GoodRead(s)
  <2> DEFINE r == [Idle EXCEPT !.h = "requestRoomShift", !.ten = t, !.to = m,
                               !.prop = IF PropOf[m] = tenancy[t].prop THEN None
                                                                       ELSE PropOf[m]]
  <2>1. Linked(t) /\ tenancy[t].status \in Statuses
    BY <1>12, RowLinked DEF RequestRoomShiftRead, MayShift, Is, Current
  <2>2. r \in Request
    BY <2>1, PropOfAssumption DEF Request, Idle, Opt, HandlerNames, Statuses, Blocking, Linked
  <2>3. SnapshotOK(r)
    BY <2>1 DEF SnapshotOK, Idle
  <2>4. req' = [req EXCEPT ![s] = r] /\ UNCHANGED rows
    BY <1>12 DEF RequestRoomShiftRead, Remember
  <2> HIDE DEF r
  <2> QED BY <2>2, <2>3, <2>4, Remembered
<1>13. ASSUME NEW i \in MoveReqs, ApproveMoveOutRequestRead(s, i)
      PROVE  GoodRead(s)
  <2> DEFINE r == [Idle EXCEPT !.h = "approveMoveOutRequest", !.id = i, !.ten = moveOut[i].ten,
                               !.user = tenancy[moveOut[i].ten].user]
  <2>1. /\ moveOut[i].ten \in Tenancies /\ Linked(moveOut[i].ten)
        /\ moveOut[i].status # "none"
    BY <1>13 DEF ApproveMoveOutRequestRead, TypeInv, Consistent
  <2>2. r \in Request
    BY <2>1, PropOfAssumption DEF Request, Idle, Opt, HandlerNames, Statuses, Blocking, Linked
  <2>3. SnapshotOK(r)
    BY <2>1 DEF SnapshotOK, Idle
  <2>4. req' = [req EXCEPT ![s] = r] /\ UNCHANGED rows
    BY <1>13 DEF ApproveMoveOutRequestRead, Remember
  <2> HIDE DEF r
  <2> QED BY <2>2, <2>3, <2>4, Remembered
<1>14. ASSUME NEW i \in MoveReqs, RejectMoveOutRequestRead(s, i)
      PROVE  GoodRead(s)
  <2> DEFINE r == [Idle EXCEPT !.h = "rejectMoveOutRequest", !.id = i]
  <2>1. moveOut[i].status # "none"
    BY <1>14 DEF RejectMoveOutRequestRead
  <2>2. r \in Request
    BY PropOfAssumption DEF Request, Idle, Opt, HandlerNames, Statuses, Blocking, Linked
  <2>3. SnapshotOK(r)
    BY <2>1 DEF SnapshotOK, Idle
  <2>4. req' = [req EXCEPT ![s] = r] /\ UNCHANGED rows
    BY <1>14 DEF RejectMoveOutRequestRead, Remember
  <2> HIDE DEF r
  <2> QED BY <2>2, <2>3, <2>4, Remembered
<1>15. ASSUME NEW i \in ShiftReqs, ApproveRoomShiftRequestRead(s, i)
      PROVE  GoodRead(s)
  <2> DEFINE r == [Idle EXCEPT !.h = "approveRoomShiftRequest", !.id = i,
                               !.ten = shiftReq[i].ten, !.to = shiftReq[i].room,
                               !.prop = shiftReq[i].prop]
  <2>1. /\ shiftReq[i].ten \in Tenancies /\ Linked(shiftReq[i].ten)
        /\ shiftReq[i].room \in Rooms /\ shiftReq[i].prop \in Opt(Properties)
        /\ shiftReq[i].status # "none"
    BY <1>15 DEF ApproveRoomShiftRequestRead, TypeInv, TypeOK, ShiftRow, Consistent
  <2>2. r \in Request
    BY <2>1, PropOfAssumption DEF Request, Idle, Opt, HandlerNames, Statuses, Blocking, Linked
  <2>3. SnapshotOK(r)
    BY <2>1 DEF SnapshotOK, Idle
  <2>4. req' = [req EXCEPT ![s] = r] /\ UNCHANGED rows
    BY <1>15 DEF ApproveRoomShiftRequestRead, Remember
  <2> HIDE DEF r
  <2> QED BY <2>2, <2>3, <2>4, Remembered
<1>16. ASSUME NEW i \in ShiftReqs, RejectRoomShiftRequestRead(s, i)
      PROVE  GoodRead(s)
  <2> DEFINE r == [Idle EXCEPT !.h = "rejectRoomShiftRequest", !.id = i]
  <2>1. shiftReq[i].status # "none"
    BY <1>16 DEF RejectRoomShiftRequestRead
  <2>2. r \in Request
    BY PropOfAssumption DEF Request, Idle, Opt, HandlerNames, Statuses, Blocking, Linked
  <2>3. SnapshotOK(r)
    BY <2>1 DEF SnapshotOK, Idle
  <2>4. req' = [req EXCEPT ![s] = r] /\ UNCHANGED rows
    BY <1>16 DEF RejectRoomShiftRequestRead, Remember
  <2> HIDE DEF r
  <2> QED BY <2>2, <2>3, <2>4, Remembered
<1>17. ASSUME NEW t \in Tenancies, NEW m \in Rooms, NEW p \in Opt(Properties),
             ShiftTenantRoomRead(s, t, m, p)
      PROVE  GoodRead(s)
  <2> DEFINE r == ShiftSnapshot(t, m, None)
  <2>1. Linked(t)
    BY <1>17, RowLinked DEF ShiftTenantRoomRead, MayShift, Is, Current
  <2>2. r \in Request
    BY <2>1 DEF ShiftSnapshot, Request, Idle, Opt, HandlerNames, Statuses, Blocking, Linked
  <2>3. SnapshotOK(r)
    BY <2>1 DEF ShiftSnapshot, SnapshotOK, Linked, Idle
  <2>4. req' = [req EXCEPT ![s] = r] /\ UNCHANGED rows
    BY <1>17 DEF ShiftTenantRoomRead, Remember
  <2> HIDE DEF r
  <2> QED BY <2>2, <2>3, <2>4, Remembered
<1>18. ASSUME NEW u \in Users, NEW n \in Phones, UpdateTenantProfileRead(s, u, n)
      PROVE  GoodRead(s)
  <2> DEFINE r == [Idle EXCEPT !.h = "updateTenantProfile", !.user = u, !.phone = n]
  <2>1. r \in Request
    BY DEF Request, Idle, Opt, HandlerNames, Statuses, Blocking
  <2>2. SnapshotOK(r)
    BY DEF SnapshotOK, Idle
  <2>3. req' = [req EXCEPT ![s] = r] /\ UNCHANGED rows
    BY <1>18 DEF UpdateTenantProfileRead, Remember
  <2> HIDE DEF r
  <2> QED BY <2>1, <2>2, <2>3, Remembered
<1> QED BY <1>1, <1>2, <1>3, <1>4, <1>5, <1>6, <1>7, <1>8, <1>9, <1>10, <1>11, <1>12, <1>13,
           <1>14, <1>15, <1>16, <1>17, <1>18 DEF Reads

-----------------------------------------------------------------------------
RowsTyped ==
    /\ phone \in [Users -> Opt(Phones)]
    /\ tenancy \in [Tenancies -> Row]
    /\ moveIns \in [Tenancies -> [waiting: BOOLEAN, movedIn: Nat]]
    /\ leaving \subseteq Users
    /\ moveOut \in [MoveReqs -> MoveOutRow]
    /\ shiftReq \in [ShiftReqs -> ShiftRow]
    /\ beds \in [Rooms -> [occupied: Int, total: 1..MaxBeds]]
    /\ openDues \in [Tenancies -> SUBSET Properties]

RowsLinked ==
    /\ \A t \in Tenancies : tenancy[t].status # "none" => Linked(t)
    /\ \A i \in MoveReqs : moveOut[i].status # "none" =>
         moveOut[i].ten \in Tenancies /\ Linked(moveOut[i].ten)
    /\ \A i \in ShiftReqs : shiftReq[i].status # "none" =>
         /\ shiftReq[i].ten \in Tenancies /\ Linked(shiftReq[i].ten)
         /\ shiftReq[i].room \in Rooms

LEMMA IdleOK == Idle \in Request /\ SnapshotOK(Idle)
BY DEF Idle, Request, Opt, HandlerNames, Statuses, SnapshotOK

(* A handler that ends with good rows keeps the invariant.                 *)
LEMMA DoneOK ==
    ASSUME TypeInv, NEW s \in Slots, Done(s), RowsKept, RequestsKept, RowsTyped', RowsLinked'
    PROVE  TypeInv' /\ RowsKept
<1>1. req'[s] = Idle /\ req' = [req EXCEPT ![s] = req'[s]]
  BY DEF TypeInv, TypeOK, Done
<1>2. req'[s] \in Request /\ SnapshotOK(req[s])'
  BY <1>1, IdleOK DEF SnapshotOK, Idle
<1> QED BY <1>1, <1>2, StepOK DEF TypeInv, TypeOK, RowsTyped, RowsLinked

(* One inserted tenancy row is rewritten.                                  *)
LEMMA RowWritten ==
    ASSUME TypeInv, NEW t \in Tenancies, Linked(t),
           tenancy' = [tenancy EXCEPT ![t] = tenancy'[t]], tenancy'[t] \in Row,
           Linked(t)', tenancy'[t].user = tenancy[t].user
    PROVE  /\ tenancy' \in [Tenancies -> Row]
           /\ RowsKept
           /\ \A x \in Tenancies : tenancy'[x].status # "none" => Linked(x)'
<1>1. tenancy' \in [Tenancies -> Row]
  BY DEF TypeInv, TypeOK
<1>2. \A x \in Tenancies : x # t => tenancy'[x] = tenancy[x]
  BY DEF TypeInv, TypeOK
<1> QED BY <1>1, <1>2 DEF RowsKept, Linked, TypeInv, Consistent

LEMMA StatusWritten ==
    ASSUME TypeInv, NEW t \in Tenancies, Linked(t), NEW st \in Statuses \ {"none"},
           tenancy' = WithStatus(t, st)
    PROVE  /\ tenancy' \in [Tenancies -> Row]
           /\ RowsKept
           /\ \A x \in Tenancies : tenancy'[x].status # "none" => Linked(x)'
<1>1. tenancy'[t] = [tenancy[t] EXCEPT !.status = st] /\ tenancy[t] \in Row
  BY DEF TypeInv, TypeOK, WithStatus
<1>2. tenancy' = [tenancy EXCEPT ![t] = tenancy'[t]]
  BY <1>1 DEF WithStatus
<1>3. tenancy'[t] \in Row /\ Linked(t)' /\ tenancy'[t].user = tenancy[t].user
  BY <1>1 DEF Row, Linked
<1> QED BY <1>2, <1>3, RowWritten

LEMMA ReturnWritten ==
    ASSUME TypeInv, NEW t \in Tenancies, Linked(t), tenancy' = Returned(t)
    PROVE  /\ tenancy' \in [Tenancies -> Row]
           /\ RowsKept
           /\ \A x \in Tenancies : tenancy'[x].status # "none" => Linked(x)'
<1>1. /\ tenancy'[t] = [tenancy[t] EXCEPT !.status = "ACTIVE", !.deleted = FALSE]
      /\ tenancy[t] \in Row
  BY DEF TypeInv, TypeOK, Returned
<1>2. tenancy' = [tenancy EXCEPT ![t] = tenancy'[t]]
  BY <1>1 DEF Returned
<1>3. tenancy'[t] \in Row /\ Linked(t)' /\ tenancy'[t].user = tenancy[t].user
  BY <1>1 DEF Row, Linked, Statuses, Blocking
<1> QED BY <1>2, <1>3, RowWritten

(* A step that keeps the rows keeps what requests point to.                *)
LEMMA RequestsLinked ==
    ASSUME TypeInv, RowsKept,
           \A t \in Tenancies : tenancy'[t].status # "none" => Linked(t)',
           \A i \in MoveReqs : moveOut[i].status # "none" =>
              moveOut'[i].status # "none" /\ moveOut'[i].ten = moveOut[i].ten,
           \A i \in MoveReqs : moveOut[i].status = "none" /\ moveOut'[i].status # "none" =>
              moveOut'[i].ten \in Tenancies /\ Linked(moveOut'[i].ten),
           UNCHANGED shiftReq
    PROVE  RowsLinked' /\ RequestsKept
BY DEF RowsLinked, RowsKept, RequestsKept, TypeInv, Consistent

LEMMA Unwritten ==
    ASSUME TypeInv, UNCHANGED tenancy
    PROVE  /\ tenancy' \in [Tenancies -> Row]
           /\ RowsKept
           /\ \A x \in Tenancies : tenancy'[x].status # "none" => Linked(x)'
BY DEF TypeInv, TypeOK, Consistent, RowsKept, Linked

LEMMA ShiftRequestsLinked ==
    ASSUME TypeInv, RowsKept,
           \A t \in Tenancies : tenancy'[t].status # "none" => Linked(t)',
           \A i \in ShiftReqs : /\ shiftReq'[i].ten = shiftReq[i].ten
                                /\ shiftReq'[i].room = shiftReq[i].room
                                /\ shiftReq[i].status = "none" <=> shiftReq'[i].status = "none",
           UNCHANGED moveOut
    PROVE  RowsLinked' /\ RequestsKept
BY DEF RowsLinked, RowsKept, RequestsKept, TypeInv, Consistent

LEMMA BedsTyped ==
    ASSUME TypeInv, NEW r \in Rooms
    PROVE  /\ Taken(r) \in [Rooms -> [occupied: Int, total: 1..MaxBeds]]
           /\ Freed(r) \in [Rooms -> [occupied: Int, total: 1..MaxBeds]]
           /\ \A x \in Rooms : Moved(r, x) \in [Rooms -> [occupied: Int, total: 1..MaxBeds]]
<1> DEFINE B == [occupied: Int, total: 1..MaxBeds]
<1>1. beds \in [Rooms -> B]
  BY DEF TypeInv, TypeOK
<1>2. \A x \in Rooms : /\ [beds[x] EXCEPT !.occupied = @ + 1] \in B
                       /\ [beds[x] EXCEPT !.occupied = @ - 1] \in B
  BY <1>1
<1>3. Taken(r) \in [Rooms -> B] /\ Freed(r) \in [Rooms -> B]
  BY <1>1, <1>2 DEF Taken, Freed
<1>4. ASSUME NEW x \in Rooms PROVE Moved(r, x) \in [Rooms -> B]
  <2>1. Freed(r)[x] \in B
    BY <1>3
  <2>2. [Freed(r)[x] EXCEPT !.occupied = @ + 1] \in B
    BY <2>1
  <2>3. Moved(r, x) = [Freed(r) EXCEPT ![x].occupied = @ + 1]
    BY DEF Moved
  <2> QED BY <1>3, <2>2, <2>3
<1> QED BY <1>3, <1>4

LEMMA RejectedTyped ==
    ASSUME TypeInv, NEW t
    PROVE  /\ PendingRejected(t) \in [MoveReqs -> MoveOutRow]
           /\ \A i \in MoveReqs :
                /\ PendingRejected(t)[i].ten = moveOut[i].ten
                /\ PendingRejected(t)[i].status = "none" <=> moveOut[i].status = "none"
BY DEF TypeInv, TypeOK, PendingRejected, MoveOutRow, Decisions

LEMMA CommitsOK ==
    ASSUME TypeInv, NEW s \in Slots, Commits(s)
    PROVE  TypeInv' /\ RowsKept
<1> DEFINE q == req[s]
<1>q. q \in Request /\ SnapshotOK(q)
  BY DEF TypeInv, TypeOK, Consistent
<1>t. RowsTyped /\ RowsLinked
  BY DEF TypeInv, TypeOK, Consistent, RowsTyped, RowsLinked
<1>1. CASE CreateTenantCommit(s)
  <2>a. (IF q.user = None THEN {v \in Users : phone[v] = None} ELSE {q.user}) \subseteq Users
    BY <1>q DEF Request, Opt
  <2>b. PICK u \in IF q.user = None THEN {v \in Users : phone[v] = None} ELSE {q.user},
             t \in {x \in Tenancies : tenancy[x] = NoRow},
             future \in BOOLEAN, leaves \in BOOLEAN :
          /\ phone' = IF q.user = None THEN WithPhone(u, q.phone) ELSE phone
          /\ leaving' = IF leaves THEN Scheduled(u) ELSE Unscheduled(u)
          /\ tenancy' = [tenancy EXCEPT ![t] =
                           [status |-> IF future THEN "PENDING" ELSE "ACTIVE",
                            deleted |-> FALSE, user |-> u, room |-> q.to,
                            prop |-> PropOf[q.to], future |-> future]]
          /\ openDues' = [openDues EXCEPT ![t] = {PropOf[q.to]}]
          /\ moveIns' = [moveIns EXCEPT ![t].waiting = future]
    BY <1>1 DEF CreateTenantCommit
  <2>1. u \in Users /\ t \in Tenancies /\ tenancy[t] = NoRow
    BY <2>a
  <2>2. q.to \in Rooms /\ q.phone \in Phones /\ PropOf[q.to] \in Properties
    BY <1>1, <1>q, PropOfAssumption DEF CreateTenantCommit, Runs, SnapshotOK
  <2>3. tenancy' \in [Tenancies -> Row] /\ Linked(t)' /\ ~Linked(t)
    BY <2>1, <2>b, <2>2, <1>t DEF RowsTyped, Row, Opt, Statuses, Blocking, Linked, NoRow
  <2>4. \A x \in Tenancies : x # t => tenancy'[x] = tenancy[x]
    BY <2>1, <2>b, <1>t DEF RowsTyped
  <2>5. RowsKept /\ \A x \in Tenancies : tenancy'[x].status # "none" => Linked(x)'
    BY <2>3, <2>4, <1>t DEF RowsKept, Linked, RowsLinked
  <2>6. UNCHANGED <<moveOut, shiftReq>> /\ beds' = Taken(q.to) /\ Done(s)
    BY <1>1 DEF CreateTenantCommit
  <2>7. phone' \in [Users -> Opt(Phones)] /\ leaving' \subseteq Users
    BY <2>1, <2>b, <2>2, <1>t DEF RowsTyped, Opt, Scheduled, Unscheduled, WithPhone
  <2>8. /\ openDues' \in [Tenancies -> SUBSET Properties]
        /\ moveIns' \in [Tenancies -> [waiting: BOOLEAN, movedIn: Nat]]
    BY <2>1, <2>b, <2>2, <1>t DEF RowsTyped
  <2>9. RowsTyped'
    BY <2>2, <2>3, <2>6, <2>7, <2>8, <1>t, BedsTyped DEF RowsTyped
  <2>10. RowsLinked' /\ RequestsKept
    BY <2>5, <2>6, RequestsLinked
  <2> QED BY <2>5, <2>6, <2>9, <2>10, DoneOK
<1>2. CASE UpdateTenancyDetailsCommit(s)
  <2>1. q.ten \in Tenancies /\ Linked(q.ten) /\ q.user \in Users
    BY <1>2, <1>q DEF UpdateTenancyDetailsCommit, Runs, SnapshotOK, Linked
  <2>4. \/ tenancy' = WithStatus(q.ten, "NOTICE_PERIOD")
        \/ tenancy' = WithStatus(q.ten, "ACTIVE")
    BY <1>2 DEF UpdateTenancyDetailsCommit
  <2>2. /\ tenancy' \in [Tenancies -> Row]
        /\ RowsKept
        /\ \A x \in Tenancies : tenancy'[x].status # "none" => Linked(x)'
    BY <2>1, <2>4, StatusWritten DEF Statuses, Blocking
  <2>3. UNCHANGED <<phone, moveIns, moveOut, shiftReq, beds, openDues>> /\ Done(s)
    BY <1>2 DEF UpdateTenancyDetailsCommit
  <2>5. leaving' \subseteq Users
    BY <1>2, <2>1, <1>t DEF UpdateTenancyDetailsCommit, Scheduled, Unscheduled, RowsTyped
  <2>7. RowsTyped'
    BY <2>2, <2>3, <2>5, <1>t DEF RowsTyped
  <2>8. RowsLinked' /\ RequestsKept
    BY <2>2, <2>3, RequestsLinked
  <2> QED BY <2>2, <2>3, <2>7, <2>8, DoneOK
<1>3. CASE PutOnNoticePeriodCommit(s)
  <2>1. q.ten \in Tenancies /\ Linked(q.ten) /\ q.user \in Users
    BY <1>3, <1>q DEF PutOnNoticePeriodCommit, Runs, SnapshotOK, Linked
  <2>4. tenancy' = WithStatus(q.ten, "NOTICE_PERIOD") \/ UNCHANGED tenancy
    BY <1>3 DEF PutOnNoticePeriodCommit
  <2>2. /\ tenancy' \in [Tenancies -> Row]
        /\ RowsKept
        /\ \A x \in Tenancies : tenancy'[x].status # "none" => Linked(x)'
    <3>1. CASE UNCHANGED tenancy
      BY <3>1, <1>t DEF RowsKept, RowsTyped, RowsLinked, Linked
    <3>2. CASE tenancy' = WithStatus(q.ten, "NOTICE_PERIOD")
      BY <2>1, <3>2, StatusWritten DEF Statuses, Blocking
    <3> QED BY <2>4, <3>1, <3>2
  <2>3. /\ UNCHANGED <<phone, moveIns, shiftReq, beds, openDues>> /\ Done(s)
        /\ moveOut' = PendingRejected(q.ten) /\ leaving' = Scheduled(q.user)
    BY <1>3 DEF PutOnNoticePeriodCommit
  <2>7. RowsTyped'
    BY <2>1, <2>2, <2>3, <1>t, RejectedTyped DEF RowsTyped, Scheduled, Unscheduled
  <2>8. RowsLinked' /\ RequestsKept
    BY <2>2, <2>3, RejectedTyped, RequestsLinked
  <2> QED BY <2>2, <2>3, <2>7, <2>8, DoneOK
<1>4. CASE CancelNoticePeriodCommit(s)
  <2>1. q.ten \in Tenancies /\ Linked(q.ten)
    BY <1>4, <1>q DEF CancelNoticePeriodCommit, Runs, SnapshotOK
  <2>2. /\ tenancy' \in [Tenancies -> Row]
        /\ RowsKept
        /\ \A x \in Tenancies : tenancy'[x].status # "none" => Linked(x)'
    BY <1>4, <2>1, StatusWritten DEF CancelNoticePeriodCommit, Statuses, Blocking
  <2>3. /\ UNCHANGED <<phone, moveIns, shiftReq, beds, openDues>> /\ Done(s)
        /\ moveOut' = PendingRejected(q.ten) /\ leaving' = Unscheduled(q.user)
    BY <1>4 DEF CancelNoticePeriodCommit
  <2>7. RowsTyped'
    BY <2>2, <2>3, <1>t, RejectedTyped DEF RowsTyped, Scheduled, Unscheduled
  <2>8. RowsLinked' /\ RequestsKept
    BY <2>2, <2>3, RejectedTyped, RequestsLinked
  <2> QED BY <2>2, <2>3, <2>7, <2>8, DoneOK
<1>5. CASE ApproveMoveOutRequestCommit(s)
  <2>1. q.ten \in Tenancies /\ Linked(q.ten) /\ q.user \in Users
    BY <1>5, <1>q DEF ApproveMoveOutRequestCommit, Runs, SnapshotOK, Linked
  <2>2. /\ tenancy' \in [Tenancies -> Row]
        /\ RowsKept
        /\ \A x \in Tenancies : tenancy'[x].status # "none" => Linked(x)'
    BY <1>5, <2>1, StatusWritten DEF ApproveMoveOutRequestCommit, Statuses, Blocking
  <2>3. /\ UNCHANGED <<phone, moveIns, shiftReq, beds, openDues>> /\ Done(s)
        /\ moveOut' = [moveOut EXCEPT ![q.id].status = "APPROVED"]
        /\ leaving' = Scheduled(q.user)
    BY <1>5 DEF ApproveMoveOutRequestCommit
  <2>4. q.id \in MoveReqs /\ moveOut[q.id].status # "none"
    BY <1>5, <1>q DEF ApproveMoveOutRequestCommit, Runs, SnapshotOK
  <2>5. /\ moveOut' \in [MoveReqs -> MoveOutRow]
        /\ \A i \in MoveReqs : moveOut'[i].ten = moveOut[i].ten
        /\ \A i \in MoveReqs : moveOut[i].status = "none" <=> moveOut'[i].status = "none"
    BY <2>3, <2>4, <1>t DEF RowsTyped, MoveOutRow, Decisions
  <2>7. RowsTyped'
    BY <2>1, <2>2, <2>3, <2>5, <1>t DEF RowsTyped, Scheduled
  <2>8. RowsLinked' /\ RequestsKept
    BY <2>2, <2>3, <2>5, RequestsLinked
  <2> QED BY <2>2, <2>3, <2>7, <2>8, DoneOK
<1>6. CASE RequestMoveOutCommit(s)
  <2>1. q.ten \in Tenancies /\ Linked(q.ten)
    BY <1>6, <1>q DEF RequestMoveOutCommit, Runs, SnapshotOK
  <2>3. UNCHANGED <<phone, tenancy, moveIns, leaving, shiftReq, beds, openDues>> /\ Done(s)
    BY <1>6 DEF RequestMoveOutCommit
  <2>2. /\ tenancy' \in [Tenancies -> Row]
        /\ RowsKept
        /\ \A x \in Tenancies : tenancy'[x].status # "none" => Linked(x)'
    BY <2>3, Unwritten
  <2>4. PICK i \in MoveReqs : /\ moveOut[i].status = "none"
                              /\ moveOut' = [moveOut EXCEPT ![i] =
                                               [status |-> "PENDING", ten |-> q.ten]]
    BY <1>6 DEF RequestMoveOutCommit
  <2>5. /\ moveOut' \in [MoveReqs -> MoveOutRow]
        /\ \A j \in MoveReqs : j # i => moveOut'[j] = moveOut[j]
        /\ moveOut'[i].ten = q.ten
    BY <2>1, <2>4, <1>t DEF RowsTyped, MoveOutRow, Decisions, Opt
  <2>6. PICK t \in Tenancies : t = q.ten
    BY <2>1
  <2>9. Linked(t)'
    BY <2>1, <2>2, <2>6 DEF RowsKept
  <2>7. RowsTyped'
    BY <2>2, <2>3, <2>5, <1>t DEF RowsTyped
  <2>8. RowsLinked' /\ RequestsKept
    BY <2>2, <2>3, <2>4, <2>5, <2>6, <2>9, <1>t DEF RowsLinked, RequestsKept, RowsKept
  <2> QED BY <2>2, <2>3, <2>7, <2>8, DoneOK
<1>7. CASE RejectMoveOutRequestCommit(s)
  <2>1. q.id \in MoveReqs /\ moveOut[q.id].status # "none"
    BY <1>7, <1>q DEF RejectMoveOutRequestCommit, Runs, SnapshotOK
  <2>3. /\ UNCHANGED <<phone, tenancy, moveIns, leaving, shiftReq, beds, openDues>> /\ Done(s)
        /\ moveOut' = [moveOut EXCEPT ![q.id].status = "REJECTED"]
    BY <1>7 DEF RejectMoveOutRequestCommit
  <2>2. /\ tenancy' \in [Tenancies -> Row]
        /\ RowsKept
        /\ \A x \in Tenancies : tenancy'[x].status # "none" => Linked(x)'
    BY <2>3, Unwritten
  <2>5. /\ moveOut' \in [MoveReqs -> MoveOutRow]
        /\ \A i \in MoveReqs : moveOut'[i].ten = moveOut[i].ten
        /\ \A i \in MoveReqs : moveOut[i].status = "none" <=> moveOut'[i].status = "none"
    BY <2>1, <2>3, <1>t DEF RowsTyped, MoveOutRow, Decisions
  <2>7. RowsTyped'
    BY <2>2, <2>3, <2>5, <1>t DEF RowsTyped
  <2>8. RowsLinked' /\ RequestsKept
    BY <2>2, <2>3, <2>5, RequestsLinked
  <2> QED BY <2>2, <2>3, <2>7, <2>8, DoneOK
<1>8. CASE RequestRoomShiftCommit(s)
  <2>1. /\ q.ten \in Tenancies /\ Linked(q.ten) /\ q.to \in Rooms
        /\ q.prop \in Opt(Properties)
    BY <1>8, <1>q DEF RequestRoomShiftCommit, Runs, SnapshotOK, Request
  <2>3. UNCHANGED <<phone, tenancy, moveIns, leaving, moveOut, beds, openDues>> /\ Done(s)
    BY <1>8 DEF RequestRoomShiftCommit
  <2>2. /\ tenancy' \in [Tenancies -> Row]
        /\ RowsKept
        /\ \A x \in Tenancies : tenancy'[x].status # "none" => Linked(x)'
    BY <2>3, Unwritten
  <2>4. PICK i \in ShiftReqs : /\ shiftReq[i].status = "none"
                               /\ shiftReq' = [shiftReq EXCEPT ![i] =
                                     [status |-> "PENDING", ten |-> q.ten,
                                      room |-> q.to, prop |-> q.prop]]
    BY <1>8 DEF RequestRoomShiftCommit
  <2>5. /\ shiftReq' \in [ShiftReqs -> ShiftRow]
        /\ \A j \in ShiftReqs : j # i => shiftReq'[j] = shiftReq[j]
        /\ shiftReq'[i].ten = q.ten /\ shiftReq'[i].room = q.to
    BY <2>1, <2>4, <1>t DEF RowsTyped, ShiftRow, Decisions, Opt
  <2>6. PICK t \in Tenancies : t = q.ten
    BY <2>1
  <2>9. Linked(t)'
    BY <2>1, <2>2, <2>6 DEF RowsKept
  <2>7. RowsTyped'
    BY <2>2, <2>3, <2>5, <1>t DEF RowsTyped
  <2>8. RowsLinked' /\ RequestsKept
    <3>1. ASSUME NEW j \in ShiftReqs, shiftReq'[j].status # "none"
          PROVE  /\ shiftReq'[j].ten \in Tenancies /\ Linked(shiftReq[j].ten)'
                 /\ shiftReq'[j].room \in Rooms
      <4>1. CASE j = i
        BY <2>1, <2>5, <2>6, <2>9, <4>1 DEF Linked
      <4>2. CASE j # i
        BY <2>2, <2>5, <3>1, <4>2, <1>t DEF RowsLinked, RowsKept, Linked
      <4> QED BY <4>1, <4>2
    <3>2. \A j \in MoveReqs : moveOut'[j].status # "none" =>
            moveOut'[j].ten \in Tenancies /\ Linked(moveOut[j].ten)'
      BY <2>2, <2>3, <1>t DEF RowsLinked, RowsKept, Linked
    <3>3. RequestsKept
      BY <2>3, <2>4, <2>5 DEF RequestsKept
    <3> QED BY <2>2, <3>1, <3>2, <3>3 DEF RowsLinked
  <2> QED BY <2>2, <2>3, <2>7, <2>8, DoneOK
<1>9. CASE RejectRoomShiftRequestCommit(s)
  <2>1. q.id \in ShiftReqs /\ shiftReq[q.id].status # "none"
    BY <1>9, <1>q DEF RejectRoomShiftRequestCommit, Runs, SnapshotOK
  <2>3. /\ UNCHANGED <<phone, tenancy, moveIns, leaving, moveOut, beds, openDues>> /\ Done(s)
        /\ shiftReq' = [shiftReq EXCEPT ![q.id].status = "REJECTED"]
    BY <1>9 DEF RejectRoomShiftRequestCommit
  <2>2. /\ tenancy' \in [Tenancies -> Row]
        /\ RowsKept
        /\ \A x \in Tenancies : tenancy'[x].status # "none" => Linked(x)'
    BY <2>3, Unwritten
  <2>5. /\ shiftReq' \in [ShiftReqs -> ShiftRow]
        /\ \A i \in ShiftReqs : /\ shiftReq'[i].ten = shiftReq[i].ten
                                /\ shiftReq'[i].room = shiftReq[i].room
                                /\ shiftReq[i].status = "none" <=> shiftReq'[i].status = "none"
    BY <2>1, <2>3, <1>t DEF RowsTyped, ShiftRow, Decisions
  <2>7. RowsTyped'
    BY <2>2, <2>3, <2>5, <1>t DEF RowsTyped
  <2>8. RowsLinked' /\ RequestsKept
    BY <2>2, <2>3, <2>5, <1>t, ShiftRequestsLinked
  <2> QED BY <2>2, <2>3, <2>7, <2>8, DoneOK
<1>10. CASE ConfirmMoveInCommit(s)
  <2>1. q.ten \in Tenancies /\ Linked(q.ten)
    BY <1>10, <1>q DEF ConfirmMoveInCommit, Runs, SnapshotOK
  <2>2. /\ tenancy' \in [Tenancies -> Row]
        /\ RowsKept
        /\ \A x \in Tenancies : tenancy'[x].status # "none" => Linked(x)'
    BY <1>10, <2>1, StatusWritten DEF ConfirmMoveInCommit, Statuses, Blocking
  <2>3. UNCHANGED <<phone, leaving, moveOut, shiftReq, beds, openDues>> /\ Done(s)
    BY <1>10 DEF ConfirmMoveInCommit
  <2>5. moveIns' \in [Tenancies -> [waiting: BOOLEAN, movedIn: Nat]]
    BY <1>10, <2>1, <1>t DEF ConfirmMoveInCommit, RowsTyped
  <2>7. RowsTyped'
    BY <2>2, <2>3, <2>5, <1>t DEF RowsTyped
  <2>8. RowsLinked' /\ RequestsKept
    BY <2>2, <2>3, RequestsLinked
  <2> QED BY <2>2, <2>3, <2>7, <2>8, DoneOK
<1>11. CASE DeleteTenantCommit(s)
  <2>1. q.ten \in Tenancies /\ Linked(q.ten) /\ q.room \in Rooms
    BY <1>11, <1>q DEF DeleteTenantCommit, Runs, SnapshotOK
  <2>4. tenancy' = [tenancy EXCEPT ![q.ten].status = "EXITED", ![q.ten].deleted = TRUE]
    BY <1>11 DEF DeleteTenantCommit
  <2>2. /\ tenancy' \in [Tenancies -> Row]
        /\ RowsKept
        /\ \A x \in Tenancies : tenancy'[x].status # "none" => Linked(x)'
    <3>0. PICK t \in Tenancies : t = q.ten /\ Linked(t)
      BY <2>1
    <3>1. /\ tenancy'[t] = [tenancy[t] EXCEPT !.status = "EXITED", !.deleted = TRUE]
          /\ tenancy[t] \in Row
      BY <2>4, <3>0, <1>t DEF RowsTyped
    <3>2. tenancy' = [tenancy EXCEPT ![t] = tenancy'[t]]
      BY <2>4, <3>0, <3>1, <1>t DEF RowsTyped
    <3>3. tenancy'[t] \in Row /\ Linked(t)' /\ tenancy'[t].user = tenancy[t].user
      BY <3>0, <3>1 DEF Row, Linked, Statuses
    <3> QED BY <3>0, <3>2, <3>3, RowWritten
  <2>3. /\ UNCHANGED <<phone, moveIns, leaving, moveOut, shiftReq, openDues>> /\ Done(s)
        /\ beds' = Freed(q.room)
    BY <1>11 DEF DeleteTenantCommit
  <2>7. RowsTyped'
    BY <2>1, <2>2, <2>3, <1>t, BedsTyped DEF RowsTyped
  <2>8. RowsLinked' /\ RequestsKept
    BY <2>2, <2>3, RequestsLinked
  <2> QED BY <2>2, <2>3, <2>7, <2>8, DoneOK
<1>12. CASE RevokeTenancyExitCommit(s)
  <2>1. q.ten \in Tenancies /\ Linked(q.ten) /\ q.room \in Rooms
    BY <1>12, <1>q DEF RevokeTenancyExitCommit, Runs, SnapshotOK
  <2>2. /\ tenancy' \in [Tenancies -> Row]
        /\ RowsKept
        /\ \A x \in Tenancies : tenancy'[x].status # "none" => Linked(x)'
    BY <1>12, <2>1, ReturnWritten DEF RevokeTenancyExitCommit
  <2>3. /\ UNCHANGED <<phone, moveIns, moveOut, shiftReq, openDues>> /\ Done(s)
        /\ beds' = Taken(q.room) /\ UNCHANGED leaving
    BY <1>12 DEF RevokeTenancyExitCommit
  <2>7. RowsTyped'
    BY <2>1, <2>2, <2>3, <1>t, BedsTyped DEF RowsTyped
  <2>8. RowsLinked' /\ RequestsKept
    BY <2>2, <2>3, RequestsLinked
  <2> QED BY <2>2, <2>3, <2>7, <2>8, DoneOK
<1>13. CASE ReActiveTenancyCommit(s)
  <2>1. q.ten \in Tenancies /\ Linked(q.ten) /\ q.room \in Rooms
    BY <1>13, <1>q DEF ReActiveTenancyCommit, Runs, SnapshotOK
  <2>2. /\ tenancy' \in [Tenancies -> Row]
        /\ RowsKept
        /\ \A x \in Tenancies : tenancy'[x].status # "none" => Linked(x)'
    BY <1>13, <2>1, ReturnWritten DEF ReActiveTenancyCommit
  <2>3. /\ UNCHANGED <<phone, moveIns, moveOut, shiftReq, openDues>> /\ Done(s)
        /\ beds' = Taken(q.room) /\ leaving' = Unscheduled(q.user)
    BY <1>13 DEF ReActiveTenancyCommit
  <2>7. RowsTyped'
    BY <2>1, <2>2, <2>3, <1>t, BedsTyped DEF RowsTyped, Unscheduled
  <2>8. RowsLinked' /\ RequestsKept
    BY <2>2, <2>3, RequestsLinked
  <2> QED BY <2>2, <2>3, <2>7, <2>8, DoneOK
<1>14. CASE AddDueCommit(s)
  <2>3. UNCHANGED <<phone, tenancy, moveIns, leaving, moveOut, shiftReq, beds>> /\ Done(s)
    BY <1>14 DEF AddDueCommit
  <2>2. /\ tenancy' \in [Tenancies -> Row]
        /\ RowsKept
        /\ \A x \in Tenancies : tenancy'[x].status # "none" => Linked(x)'
    BY <2>3, Unwritten
  <2>5. openDues' \in [Tenancies -> SUBSET Properties]
    BY <1>14, <1>t DEF AddDueCommit, RowsTyped
  <2>7. RowsTyped'
    BY <2>2, <2>3, <2>5, <1>t DEF RowsTyped
  <2>8. RowsLinked' /\ RequestsKept
    BY <2>2, <2>3, RequestsLinked
  <2> QED BY <2>2, <2>3, <2>7, <2>8, DoneOK
<1>15. CASE ShiftTenantRoomCommit(s)
  <2>1. q.ten \in Tenancies /\ Linked(q.ten) /\ q.room \in Rooms /\ q.to \in Rooms
    BY <1>15, <1>q DEF ShiftTenantRoomCommit, Runs, SnapshotOK
  <2>2. PropOf[q.to] \in Properties
    BY <2>1, PropOfAssumption
  <2>3. /\ UNCHANGED <<phone, moveIns, leaving, moveOut, shiftReq>>
        /\ beds' = Moved(q.room, q.to)
        /\ IF q.id = None THEN Done(s) ELSE Remember(s, [q EXCEPT !.h = "markApproved"])
    BY <1>15 DEF ShiftTenantRoomCommit
  <2>4. PICK t \in Tenancies : t = q.ten /\ Linked(t)
    BY <2>1
  <2>5. /\ tenancy' \in [Tenancies -> Row]
        /\ RowsKept
        /\ \A x \in Tenancies : tenancy'[x].status # "none" => Linked(x)'
    <3>1. PICK r \in Rooms, p \in Properties :
            tenancy'[t] = [tenancy[t] EXCEPT !.room = r, !.prop = p] /\ tenancy[t] \in Row
      <4>1. tenancy[t] \in Row /\ tenancy[t].prop \in Properties
        BY <2>4, <1>t DEF RowsTyped, Linked
      <4>2. CASE PropOf[q.to] # q.prop
        BY <1>15, <2>1, <2>2, <2>4, <4>1, <4>2, <1>t DEF ShiftTenantRoomCommit, RowsTyped, Row
      <4>3. CASE PropOf[q.to] = q.prop
        <5>1. tenancy' = [tenancy EXCEPT ![t].room = q.to]
          BY <1>15, <2>4, <4>3 DEF ShiftTenantRoomCommit
        <5>2. tenancy'[t] = [tenancy[t] EXCEPT !.room = q.to]
          BY <5>1, <1>t DEF RowsTyped
        <5>3. tenancy'[t] = [tenancy[t] EXCEPT !.room = q.to, !.prop = tenancy[t].prop]
          BY <5>2, <4>1 DEF Row
        <5> QED BY <2>1, <4>1, <5>3
      <4> QED BY <4>2, <4>3
    <3>2. tenancy' = [tenancy EXCEPT ![t] = tenancy'[t]]
      BY <1>15, <2>4, <1>t DEF ShiftTenantRoomCommit, RowsTyped
    <3>3. tenancy'[t] \in Row /\ Linked(t)' /\ tenancy'[t].user = tenancy[t].user
      BY <2>4, <3>1 DEF Row, Linked, Opt
    <3> QED BY <2>4, <3>2, <3>3, RowWritten
  <2>6. openDues' \in [Tenancies -> SUBSET Properties]
    BY <1>15, <2>2, <1>t DEF ShiftTenantRoomCommit, Rebooked, RowsTyped
  <2>7. RowsTyped'
    BY <2>1, <2>3, <2>5, <2>6, <1>t, BedsTyped DEF RowsTyped
  <2>8. RowsLinked' /\ RequestsKept
    BY <2>3, <2>5, RequestsLinked
  <2>9. CASE q.id = None
    BY <2>3, <2>5, <2>7, <2>8, <2>9, DoneOK
  <2>10. CASE q.id # None
    <3>1. req'[s] = [q EXCEPT !.h = "markApproved"] /\ req' = [req EXCEPT ![s] = req'[s]]
      BY <2>3, <2>10 DEF Remember, TypeInv, TypeOK
    <3>2. req'[s] \in Request /\ req'[s].h = "markApproved" /\ req'[s].id = q.id
      BY <3>1, <1>q DEF Request, HandlerNames
    <3>3. q.id \in ShiftReqs /\ shiftReq[q.id].status # "none"
      BY <1>15, <1>q, <2>10 DEF ShiftTenantRoomCommit, Runs, SnapshotOK
    <3>4. SnapshotOK(req[s])'
      BY <2>3, <3>2, <3>3 DEF SnapshotOK
    <3> QED BY <2>5, <2>7, <2>8, <3>1, <3>2, <3>4, StepOK
            DEF TypeInv, TypeOK, RowsTyped, RowsLinked
  <2> QED BY <2>9, <2>10
<1>16. CASE ApproveRoomShiftRequestShift(s)
  <2> DEFINE r == ShiftSnapshot(q.ten, q.to, q.id)
  <2>1. /\ q.ten \in Tenancies /\ Linked(q.ten) /\ q.to \in Rooms
        /\ q.id \in ShiftReqs /\ shiftReq[q.id].status # "none"
    BY <1>16, <1>q DEF ApproveRoomShiftRequestShift, Runs, SnapshotOK
  <2>2. r \in Request
    BY <2>1, <1>q DEF ShiftSnapshot, Request, Idle, Opt, HandlerNames, Statuses, Linked
  <2>3. SnapshotOK(r)
    BY <2>1 DEF ShiftSnapshot, SnapshotOK, Linked, Idle
  <2>4. req' = [req EXCEPT ![s] = r] /\ UNCHANGED rows
    BY <1>16 DEF ApproveRoomShiftRequestShift, Remember
  <2> HIDE DEF r
  <2>5. GoodRead(s)
    BY <2>2, <2>3, <2>4, Remembered
  <2> QED BY <2>5, ReadOK DEF GoodRead
<1>17. CASE ApproveRoomShiftRequestMark(s)
  <2>1. q.id \in ShiftReqs /\ shiftReq[q.id].status # "none"
    BY <1>17, <1>q DEF ApproveRoomShiftRequestMark, Runs, SnapshotOK
  <2>3. /\ UNCHANGED <<phone, tenancy, moveIns, leaving, moveOut, beds, openDues>>
        /\ shiftReq' = [shiftReq EXCEPT ![q.id].status = "APPROVED"]
        /\ req' = [req EXCEPT ![s] = [q EXCEPT !.h = "supersede"]]
    BY <1>17 DEF ApproveRoomShiftRequestMark, Remember
  <2>2. /\ tenancy' \in [Tenancies -> Row]
        /\ RowsKept
        /\ \A x \in Tenancies : tenancy'[x].status # "none" => Linked(x)'
    BY <2>3, Unwritten
  <2>5. /\ shiftReq' \in [ShiftReqs -> ShiftRow]
        /\ \A i \in ShiftReqs : /\ shiftReq'[i].ten = shiftReq[i].ten
                                /\ shiftReq'[i].room = shiftReq[i].room
                                /\ shiftReq[i].status = "none" <=> shiftReq'[i].status = "none"
    BY <2>1, <2>3, <1>t DEF RowsTyped, ShiftRow, Decisions
  <2>6. req'[s] = [q EXCEPT !.h = "supersede"] /\ req' = [req EXCEPT ![s] = req'[s]]
    BY <2>3 DEF TypeInv, TypeOK
  <2>7. RowsTyped'
    BY <2>2, <2>3, <2>5, <1>t DEF RowsTyped
  <2>8. RowsLinked' /\ RequestsKept
    BY <2>2, <2>3, <2>5, ShiftRequestsLinked
  <2>9. req'[s] \in Request /\ SnapshotOK(req[s])'
    BY <2>6, <1>q DEF Request, HandlerNames, SnapshotOK
  <2> QED BY <2>2, <2>6, <2>7, <2>8, <2>9, StepOK DEF TypeInv, TypeOK, RowsTyped, RowsLinked
<1>18. CASE ApproveRoomShiftRequestSupersede(s)
  <2>3. UNCHANGED <<phone, tenancy, moveIns, leaving, moveOut, beds, openDues>> /\ Done(s)
    BY <1>18 DEF ApproveRoomShiftRequestSupersede
  <2>2. /\ tenancy' \in [Tenancies -> Row]
        /\ RowsKept
        /\ \A x \in Tenancies : tenancy'[x].status # "none" => Linked(x)'
    BY <2>3, Unwritten
  <2>5. /\ shiftReq' \in [ShiftReqs -> ShiftRow]
        /\ \A i \in ShiftReqs : /\ shiftReq'[i].ten = shiftReq[i].ten
                                /\ shiftReq'[i].room = shiftReq[i].room
                                /\ shiftReq[i].status = "none" <=> shiftReq'[i].status = "none"
    BY <1>18, <1>t DEF ApproveRoomShiftRequestSupersede, RowsTyped, ShiftRow, Decisions
  <2>7. RowsTyped'
    BY <2>2, <2>3, <2>5, <1>t DEF RowsTyped
  <2>8. RowsLinked' /\ RequestsKept
    BY <2>2, <2>3, <2>5, ShiftRequestsLinked
  <2> QED BY <2>2, <2>3, <2>7, <2>8, DoneOK
<1>19. CASE UpdateTenantProfileCommit(s)
  <2>1. q.user \in Users /\ q.phone \in Phones
    BY <1>19, <1>q DEF UpdateTenantProfileCommit, Runs, SnapshotOK
  <2>2. /\ UNCHANGED <<tenancy, moveIns, leaving, moveOut, shiftReq, beds, openDues>>
        /\ phone' = WithPhone(q.user, q.phone) /\ Done(s)
    BY <1>19 DEF UpdateTenantProfileCommit
  <2>3. /\ tenancy' \in [Tenancies -> Row]
        /\ RowsKept
        /\ \A x \in Tenancies : tenancy'[x].status # "none" => Linked(x)'
    BY <2>2, Unwritten
  <2>4. RowsTyped'
    BY <2>1, <2>2, <2>3, <1>t DEF RowsTyped, WithPhone, Opt
  <2>5. RowsLinked' /\ RequestsKept
    BY <2>2, <2>3, RequestsLinked
  <2> QED BY <2>2, <2>3, <2>4, <2>5, DoneOK
<1> QED BY <1>1, <1>2, <1>3, <1>4, <1>5, <1>6, <1>7, <1>8, <1>9, <1>10, <1>11, <1>12, <1>13,
           <1>14, <1>15, <1>16, <1>17, <1>18, <1>19 DEF Commits

LEMMA InitOK ==
    ASSUME Init PROVE TypeInv
<1>1. beds \in [Rooms -> [occupied: Int, total: 1..MaxBeds]]
  BY DEF Init
<1>2. req \in [Slots -> Request] /\ \A s \in Slots : SnapshotOK(req[s])
  BY IdleOK DEF Init
<1> QED BY <1>1, <1>2 DEF Init, TypeInv, TypeOK, Consistent, Opt, Row, NoRow, Statuses,
           MoveOutRow, ShiftRow, Decisions

LEMMA OutsideOK ==
    ASSUME TypeInv,
           \/ \E t \in Tenancies : JoinDateArrives(t) \/ \E p \in Properties : DuesClosed(t, p)
           \/ \E r \in Rooms, n \in 1..MaxBeds : EditRoom(r, n)
    PROVE  TypeInv' /\ RowsKept
<1>1. ASSUME NEW t \in Tenancies, JoinDateArrives(t) PROVE TypeInv' /\ RowsKept
  <2>1. /\ tenancy[t] \in Row
        /\ tenancy' = [tenancy EXCEPT ![t] = [tenancy[t] EXCEPT !.future = FALSE]]
    BY <1>1 DEF JoinDateArrives, TypeInv, TypeOK
  <2>2. tenancy' \in [Tenancies -> Row] /\ tenancy[t].status # "none"
    <3>1. tenancy' \in [Tenancies -> Row]
      BY <2>1 DEF TypeInv, TypeOK, Row
    <3>2. NoRow.future = FALSE
      BY DEF NoRow
    <3>3. tenancy[t] # NoRow
      BY <1>1, <3>2, Zenon DEF JoinDateArrives
    <3>4. tenancy[t].status # "none"
      BY <3>3 DEF TypeInv, Consistent
    <3> QED BY <3>1, <3>4
  <2>3. \A x \in Tenancies : /\ tenancy'[x].status = tenancy[x].status
                             /\ tenancy'[x].user = tenancy[x].user
                             /\ tenancy'[x].room = tenancy[x].room
                             /\ tenancy'[x].prop = tenancy[x].prop
                             /\ x # t => tenancy'[x] = tenancy[x]
    BY <2>1 DEF TypeInv, TypeOK, Row
  <2>4. UNCHANGED <<phone, moveIns, leaving, moveOut, shiftReq, beds, openDues, req>>
    BY <1>1 DEF JoinDateArrives
  <2>5. TypeOK'
    BY <2>2, <2>4 DEF TypeInv, TypeOK
  <2>6. RowsKept /\ RequestsKept
    BY <2>2, <2>3, <2>4 DEF RowsKept, RequestsKept, Linked
  <2>7. \A s \in Slots : SnapshotOK(req[s])'
    BY <2>4, <2>6, SnapshotKept DEF TypeInv, Consistent
  <2>8. \A x \in Tenancies : tenancy'[x].status # "none" => Linked(x)'
    BY <2>3 DEF TypeInv, Consistent, Linked
  <2>9. RowsLinked'
    BY <2>4, <2>6, <2>8 DEF TypeInv, Consistent, RowsLinked, RowsKept, Linked
  <2>10. \A x \in Tenancies : tenancy'[x].status = "none" => tenancy'[x] = NoRow
    BY <2>6 DEF TypeInv, Consistent, RowsKept
  <2> QED BY <2>5, <2>6, <2>7, <2>9, <2>10 DEF TypeInv, Consistent, RowsLinked
<1>2. ASSUME NEW t \in Tenancies, NEW p \in Properties, DuesClosed(t, p) PROVE TypeInv' /\ RowsKept
  <2>1. openDues' \in [Tenancies -> SUBSET Properties]
    BY <1>2 DEF DuesClosed, TypeInv, TypeOK
  <2> QED BY <1>2, <2>1 DEF DuesClosed, RowsKept, TypeInv, TypeOK, Consistent, SnapshotOK, Linked
<1>3. ASSUME NEW r \in Rooms, NEW n \in 1..MaxBeds, EditRoom(r, n) PROVE TypeInv' /\ RowsKept
  <2>1. beds' \in [Rooms -> [occupied: Int, total: 1..MaxBeds]]
    BY <1>3 DEF EditRoom, Resized, TypeInv, TypeOK
  <2> QED BY <1>3, <2>1 DEF EditRoom, RowsKept, TypeInv, TypeOK, Consistent, SnapshotOK, Linked
<1> QED BY <1>1, <1>2, <1>3

LEMMA NextOK == TypeInv /\ [Next]_vars => TypeInv' /\ RowsKept
<1> SUFFICES ASSUME TypeInv, [Next]_vars PROVE TypeInv' /\ RowsKept
  OBVIOUS
<1>1. ASSUME NEW s \in Slots, Reads(s) PROVE TypeInv' /\ RowsKept
  BY <1>1, ReadsGood, ReadOK DEF GoodRead
<1>2. ASSUME NEW s \in Slots, Commits(s) PROVE TypeInv' /\ RowsKept
  BY <1>2, CommitsOK
<1>3. ASSUME NEW s \in Slots, Abort(s) PROVE TypeInv' /\ RowsKept
  <2>1. UNCHANGED rows /\ Done(s)
    BY <1>3 DEF Abort
  <2>2. RowsKept /\ RequestsKept /\ RowsTyped' /\ RowsLinked'
    BY <2>1 DEF rows, RowsKept, RequestsKept, RowsTyped, RowsLinked, TypeInv, TypeOK,
                Consistent, Linked
  <2> QED BY <2>1, <2>2, DoneOK
<1>4. CASE UNCHANGED vars
  BY <1>4 DEF vars, RowsKept, TypeInv, TypeOK, Consistent, SnapshotOK, Linked
<1> QED BY <1>1, <1>2, <1>3, <1>4, OutsideOK DEF Next

(* Every reachable state is well typed, and every foreign key and every    *)
(* remembered snapshot points to an inserted row, however requests         *)
(* interleave.                                                             *)
THEOREM TypeCorrect == Spec => []TypeInv
BY InitOK, NextOK, PTL DEF Spec

THEOREM Typing == Spec => []TypeOK
<1>1. TypeInv => TypeOK
  BY DEF TypeInv
<1> QED BY <1>1, TypeCorrect, PTL

-----------------------------------------------------------------------------
(* The move-out date of a tenancy on notice.                               *)

(* A column write, and which tenancies are then on notice.                 *)
LEMMA StatusColumn ==
    ASSUME TypeInv, NEW t \in Tenancies, NEW st, tenancy' = WithStatus(t, st)
    PROVE  \A x \in Tenancies : tenancy'[x].status = IF x = t THEN st ELSE tenancy[x].status
BY DEF TypeInv, TypeOK, WithStatus, Row

LEMMA UserKept ==
    ASSUME TypeInv, RowsKept, NEW t \in Tenancies, tenancy[t].user \in Users
    PROVE  tenancy'[t].user = tenancy[t].user
<1>1. tenancy[t].status # "none"
  BY NoneAssumption DEF TypeInv, Consistent, NoRow
<1> QED BY <1>1 DEF TypeInv, Consistent, RowsKept

(* A step that erases no date and puts nobody on notice without one.       *)
LEMMA DatesKept ==
    ASSUME TypeInv, RowsKept, NoticeDateLostOnlyBySharing, leaving \subseteq leaving',
           \A t \in Tenancies : tenancy'[t].status = "NOTICE_PERIOD" =>
              tenancy[t].status = "NOTICE_PERIOD" \/ tenancy'[t].user \in leaving'
    PROVE  NoticeDateLostOnlyBySharing'
<1>1. SUFFICES ASSUME NEW t \in Tenancies, tenancy'[t].status = "NOTICE_PERIOD",
                      tenancy'[t].user \notin leaving'
               PROVE  \E x \in Tenancies \ {t} : tenancy'[x].user = tenancy'[t].user
  BY DEF NoticeDateLostOnlyBySharing, Is
<1>2. tenancy[t].status = "NOTICE_PERIOD" /\ tenancy[t].user \in Users
  BY <1>1 DEF TypeInv, Consistent, Linked
<1>3. tenancy'[t].user = tenancy[t].user
  BY <1>2, UserKept
<1>4. PICK x \in Tenancies \ {t} : tenancy[x].user = tenancy[t].user
  BY <1>1, <1>2, <1>3 DEF NoticeDateLostOnlyBySharing, Is
<1>5. tenancy'[x].user = tenancy[x].user
  BY <1>2, <1>4, UserKept
<1> QED BY <1>3, <1>4, <1>5

(* A step that erases the date of one tenant, on behalf of tenancy x.      *)
LEMMA DateErased ==
    ASSUME TypeInv, RowsKept, NoticeDateLostOnlyBySharing, NEW x \in Tenancies,
           leaving' = Unscheduled(tenancy'[x].user), tenancy'[x].status # "NOTICE_PERIOD",
           \A t \in Tenancies : tenancy'[t].status = "NOTICE_PERIOD" =>
              tenancy[t].status = "NOTICE_PERIOD"
    PROVE  NoticeDateLostOnlyBySharing'
<1>1. SUFFICES ASSUME NEW t \in Tenancies, tenancy'[t].status = "NOTICE_PERIOD",
                      tenancy'[t].user \notin leaving'
               PROVE  \E y \in Tenancies \ {t} : tenancy'[y].user = tenancy'[t].user
  BY DEF NoticeDateLostOnlyBySharing, Is
<1>2. tenancy[t].status = "NOTICE_PERIOD" /\ tenancy[t].user \in Users
  BY <1>1 DEF TypeInv, Consistent, Linked
<1>3. tenancy'[t].user = tenancy[t].user
  BY <1>2, UserKept
<1>4. CASE tenancy'[t].user = tenancy'[x].user
  BY <1>1, <1>4
<1>5. CASE tenancy'[t].user # tenancy'[x].user
  <2>1. tenancy[t].user \notin leaving
    BY <1>1, <1>3, <1>5 DEF Unscheduled
  <2>2. PICK y \in Tenancies \ {t} : tenancy[y].user = tenancy[t].user
    BY <1>2, <2>1 DEF NoticeDateLostOnlyBySharing, Is
  <2>3. tenancy'[y].user = tenancy[y].user
    BY <1>2, <2>2, UserKept
  <2> QED BY <1>3, <2>2, <2>3
<1> QED BY <1>4, <1>5

LEMMA NoticeCommits ==
    ASSUME TypeInv, RowsKept, NoticeDateLostOnlyBySharing, NEW s \in Slots, Commits(s)
    PROVE  NoticeDateLostOnlyBySharing'
<1> DEFINE q == req[s]
<1>q. q \in Request /\ SnapshotOK(q)
  BY DEF TypeInv, TypeOK, Consistent
<1>u. ASSUME q.ten \in Tenancies, Linked(q.ten), q.user = tenancy[q.ten].user
      PROVE  tenancy'[q.ten].user = q.user
  BY <1>u, UserKept DEF Linked
<1>1. CASE CreateTenantCommit(s)
  <2>1. PICK u \in IF q.user = None THEN {v \in Users : phone[v] = None} ELSE {q.user},
             t \in {x \in Tenancies : tenancy[x] = NoRow},
             future \in BOOLEAN, leaves \in BOOLEAN :
          /\ leaving' = IF leaves THEN Scheduled(u) ELSE Unscheduled(u)
          /\ tenancy' = [tenancy EXCEPT ![t] =
                           [status |-> IF future THEN "PENDING" ELSE "ACTIVE",
                            deleted |-> FALSE, user |-> u, room |-> q.to,
                            prop |-> PropOf[q.to], future |-> future]]
    BY <1>1 DEF CreateTenantCommit
  <2>2. t \in Tenancies /\ tenancy'[t].status # "NOTICE_PERIOD" /\ tenancy'[t].user = u
    BY <2>1 DEF TypeInv, TypeOK
  <2>3. \A x \in Tenancies : tenancy'[x].status = "NOTICE_PERIOD" =>
          tenancy[x].status = "NOTICE_PERIOD"
    BY <2>1, <2>2 DEF TypeInv, TypeOK
  <2>4. CASE leaves
    <3>1. leaving \subseteq leaving'
      BY <2>1, <2>4, Zenon DEF Scheduled
    <3> QED BY <2>3, <3>1, DatesKept
  <2>5. CASE ~leaves
    <3>1. leaving' = Unscheduled(tenancy'[t].user)
      BY <2>1, <2>2, <2>5, Zenon
    <3> QED BY <2>2, <2>3, <3>1, DateErased
  <2> QED BY <2>4, <2>5
<1>2. CASE UpdateTenancyDetailsCommit(s)
  <2>1. q.ten \in Tenancies /\ tenancy'[q.ten].user = q.user
    BY <1>2, <1>q, <1>u DEF UpdateTenancyDetailsCommit, Runs, SnapshotOK
  <2>2. PICK t \in Tenancies : t = q.ten
    BY <2>1
  <2>3. \/ tenancy' = WithStatus(t, "NOTICE_PERIOD") /\ leaving' = Scheduled(q.user)
        \/ tenancy' = WithStatus(t, "ACTIVE") /\ leaving' = Unscheduled(q.user)
    BY <1>2, <2>2 DEF UpdateTenancyDetailsCommit
  <2>4. CASE tenancy' = WithStatus(t, "NOTICE_PERIOD") /\ leaving' = Scheduled(q.user)
    BY <2>1, <2>2, <2>4, StatusColumn, DatesKept DEF Scheduled
  <2>5. CASE tenancy' = WithStatus(t, "ACTIVE") /\ leaving' = Unscheduled(q.user)
    BY <2>1, <2>2, <2>5, StatusColumn, DateErased
  <2> QED BY <2>3, <2>4, <2>5
<1>3. CASE PutOnNoticePeriodCommit(s)
  <2>1. q.ten \in Tenancies /\ tenancy'[q.ten].user = q.user
    BY <1>3, <1>q, <1>u DEF PutOnNoticePeriodCommit, Runs, SnapshotOK
  <2>2. PICK t \in Tenancies : t = q.ten
    BY <2>1
  <2>3. /\ tenancy' = WithStatus(t, "NOTICE_PERIOD") \/ UNCHANGED tenancy
        /\ leaving' = Scheduled(q.user)
    BY <1>3, <2>2 DEF PutOnNoticePeriodCommit
  <2> QED BY <2>1, <2>2, <2>3, StatusColumn, DatesKept DEF Scheduled
<1>4. CASE ApproveMoveOutRequestCommit(s)
  <2>1. q.ten \in Tenancies /\ tenancy'[q.ten].user = q.user
    BY <1>4, <1>q, <1>u DEF ApproveMoveOutRequestCommit, Runs, SnapshotOK
  <2>2. PICK t \in Tenancies : t = q.ten
    BY <2>1
  <2>3. tenancy' = WithStatus(t, "NOTICE_PERIOD") /\ leaving' = Scheduled(q.user)
    BY <1>4, <2>2 DEF ApproveMoveOutRequestCommit
  <2> QED BY <2>1, <2>2, <2>3, StatusColumn, DatesKept DEF Scheduled
<1>5. CASE CancelNoticePeriodCommit(s)
  <2>1. q.ten \in Tenancies /\ tenancy'[q.ten].user = q.user
    BY <1>5, <1>q, <1>u DEF CancelNoticePeriodCommit, Runs, SnapshotOK
  <2>2. PICK t \in Tenancies : t = q.ten
    BY <2>1
  <2>3. tenancy' = WithStatus(t, "ACTIVE") /\ leaving' = Unscheduled(q.user)
    BY <1>5, <2>2 DEF CancelNoticePeriodCommit
  <2> QED BY <2>1, <2>2, <2>3, StatusColumn, DateErased
<1>6. CASE ReActiveTenancyCommit(s)
  <2>1. q.ten \in Tenancies /\ tenancy'[q.ten].user = q.user
    BY <1>6, <1>q, <1>u DEF ReActiveTenancyCommit, Runs, SnapshotOK
  <2>2. PICK t \in Tenancies : t = q.ten
    BY <2>1
  <2>3. tenancy' = Returned(t) /\ leaving' = Unscheduled(q.user)
    BY <1>6, <2>2 DEF ReActiveTenancyCommit
  <2>4. \A x \in Tenancies : tenancy'[x].status = IF x = t THEN "ACTIVE" ELSE tenancy[x].status
    BY <2>3 DEF Returned, TypeInv, TypeOK, Row
  <2> QED BY <2>1, <2>2, <2>3, <2>4, DateErased
<1>7. CASE ConfirmMoveInCommit(s)
  <2>1. PICK t \in Tenancies : t = q.ten
    BY <1>7, <1>q DEF ConfirmMoveInCommit, Runs, SnapshotOK
  <2>2. tenancy' = WithStatus(t, "ACTIVE") /\ UNCHANGED leaving
    BY <1>7, <2>1 DEF ConfirmMoveInCommit
  <2> QED BY <2>2, StatusColumn, DatesKept
<1>8. CASE DeleteTenantCommit(s)
  <2>1. UNCHANGED leaving
    BY <1>8 DEF DeleteTenantCommit
  <2>2. \A x \in Tenancies : tenancy'[x].status \in {"EXITED", tenancy[x].status}
    BY <1>8 DEF DeleteTenantCommit, TypeInv, TypeOK, Row
  <2> QED BY <2>1, <2>2, DatesKept
<1>9. CASE RevokeTenancyExitCommit(s)
  <2>1. UNCHANGED leaving
    BY <1>9 DEF RevokeTenancyExitCommit
  <2>2. \A x \in Tenancies : tenancy'[x].status \in {"ACTIVE", tenancy[x].status}
    BY <1>9 DEF RevokeTenancyExitCommit, Returned, TypeInv, TypeOK, Row
  <2> QED BY <2>1, <2>2, DatesKept
<1>10. CASE ShiftTenantRoomCommit(s)
  <2>1. UNCHANGED leaving
    BY <1>10 DEF ShiftTenantRoomCommit
  <2>2. \A x \in Tenancies : tenancy'[x].status = tenancy[x].status
    <3>1. PICK r, p : \/ tenancy' = [tenancy EXCEPT ![q.ten].room = r, ![q.ten].prop = p]
                      \/ tenancy' = [tenancy EXCEPT ![q.ten].room = r]
      <4>1. CASE PropOf[q.to] # q.prop
        BY <1>10, <4>1 DEF ShiftTenantRoomCommit
      <4>2. CASE PropOf[q.to] = q.prop
        BY <1>10, <4>2 DEF ShiftTenantRoomCommit
      <4> QED BY <4>1, <4>2
    <3>2. tenancy \in [Tenancies -> Row]
      BY DEF TypeInv, TypeOK
    <3>3. CASE tenancy' = [tenancy EXCEPT ![q.ten].room = r]
      BY <3>2, <3>3 DEF Row
    <3>4. CASE tenancy' = [tenancy EXCEPT ![q.ten].room = r, ![q.ten].prop = p]
      <4>1. ASSUME NEW x \in Tenancies, x = q.ten PROVE tenancy'[x].status = tenancy[x].status
        <5>1. tenancy'[x] = [tenancy[x] EXCEPT !.room = r, !.prop = p]
          BY <3>2, <3>4, <4>1
        <5> QED BY <3>2, <5>1 DEF Row
      <4>2. ASSUME NEW x \in Tenancies, x # q.ten PROVE tenancy'[x] = tenancy[x]
        BY <3>2, <3>4, <4>2
      <4> QED BY <4>1, <4>2
    <3> QED BY <3>1, <3>3, <3>4
  <2> QED BY <2>1, <2>2, DatesKept
<1>11. CASE \/ ApproveRoomShiftRequestShift(s)
             \/ ApproveRoomShiftRequestMark(s)
             \/ ApproveRoomShiftRequestSupersede(s)
             \/ RequestMoveOutCommit(s)
             \/ RejectMoveOutRequestCommit(s)
             \/ RequestRoomShiftCommit(s)
             \/ RejectRoomShiftRequestCommit(s)
             \/ AddDueCommit(s)
             \/ UpdateTenantProfileCommit(s)
  <2>1. UNCHANGED <<tenancy, leaving>>
    BY <1>11 DEF ApproveRoomShiftRequestShift, ApproveRoomShiftRequestMark,
                 ApproveRoomShiftRequestSupersede, RequestMoveOutCommit,
                 RejectMoveOutRequestCommit, RequestRoomShiftCommit,
                 RejectRoomShiftRequestCommit, AddDueCommit,
                 UpdateTenantProfileCommit, rows
  <2> QED BY <2>1 DEF NoticeDateLostOnlyBySharing, Is
<1> QED BY <1>1, <1>2, <1>3, <1>4, <1>5, <1>6, <1>7, <1>8, <1>9, <1>10, <1>11 DEF Commits

LEMMA NoticeNext ==
    TypeInv /\ NoticeDateLostOnlyBySharing /\ [Next]_vars => NoticeDateLostOnlyBySharing'
<1> SUFFICES ASSUME TypeInv, NoticeDateLostOnlyBySharing, [Next]_vars
             PROVE  NoticeDateLostOnlyBySharing'
  OBVIOUS
<1>1. RowsKept
  BY NextOK
<1>2. ASSUME NEW s \in Slots, Reads(s) PROVE UNCHANGED <<tenancy, leaving>>
  BY <1>2, ReadsGood DEF GoodRead, rows
<1>3. ASSUME NEW s \in Slots, Abort(s) PROVE UNCHANGED <<tenancy, leaving>>
  BY <1>3 DEF Abort, rows
<1>4. ASSUME NEW t \in Tenancies, JoinDateArrives(t)
      PROVE  NoticeDateLostOnlyBySharing'
  <2>1. UNCHANGED leaving
    BY <1>4 DEF JoinDateArrives
  <2>2. \A x \in Tenancies : tenancy'[x].status = tenancy[x].status
    BY <1>4 DEF JoinDateArrives, TypeInv, TypeOK, Row
  <2> QED BY <1>1, <2>1, <2>2, DatesKept
<1>5. ASSUME NEW t \in Tenancies, NEW p \in Properties, DuesClosed(t, p)
      PROVE  UNCHANGED <<tenancy, leaving>>
  BY <1>5 DEF DuesClosed
<1>6. ASSUME NEW r \in Rooms, NEW n \in 1..MaxBeds, EditRoom(r, n)
      PROVE  UNCHANGED <<tenancy, leaving>>
  BY <1>6 DEF EditRoom
<1>7. CASE UNCHANGED <<tenancy, leaving>>
  BY <1>7 DEF NoticeDateLostOnlyBySharing, Is
<1>8. ASSUME NEW s \in Slots, Commits(s) PROVE NoticeDateLostOnlyBySharing'
  BY <1>1, <1>8, NoticeCommits
<1> QED BY <1>2, <1>3, <1>4, <1>5, <1>6, <1>7, <1>8 DEF Next, vars

(* However requests interleave, a tenancy on notice loses its move-out     *)
(* date only to another tenancy of the same tenant.                        *)
THEOREM NoticeDate == Spec => []NoticeDateLostOnlyBySharing
<1>1. Init => NoticeDateLostOnlyBySharing
  BY DEF Init, NoticeDateLostOnlyBySharing, Is, NoRow
<1> QED BY <1>1, NoticeNext, TypeCorrect, PTL DEF Spec

-----------------------------------------------------------------------------
(* Capacity: which steps may raise the bed count of a room, and how far.   *)

WithinCapacity ==
    \A r \in Rooms : beds'[r].occupied <= beds[r].occupied \/ beds'[r].occupied <= beds[r].total

LEMMA TakenWithin ==
    ASSUME TypeInv, NEW r \in Rooms, ~Full(r), beds' = Taken(r)
    PROVE  WithinCapacity
BY DEF TypeInv, TypeOK, Full, Taken, WithinCapacity

LEMMA MovedWithin ==
    ASSUME TypeInv, NEW from \in Rooms, NEW to \in Rooms, ~Full(to), beds' = Moved(from, to)
    PROVE  WithinCapacity
<1>1. Freed(from) \in [Rooms -> [occupied: Int, total: 1..MaxBeds]]
  BY BedsTyped
<1>2. \A r \in Rooms : /\ Freed(from)[r].occupied <= beds[r].occupied
                       /\ beds[r].occupied \in Int /\ beds[r].total \in Int
  BY DEF Freed, TypeInv, TypeOK
<1>3. /\ beds'[to].occupied = Freed(from)[to].occupied + 1
      /\ \A r \in Rooms : r # to => beds'[r] = Freed(from)[r]
  BY <1>1 DEF Moved
<1>4. beds[to].occupied < beds[to].total
  BY <1>2 DEF Full
<1>5. beds'[to].occupied <= beds[to].total
  BY <1>1, <1>2, <1>3, <1>4
<1> QED BY <1>2, <1>3, <1>5 DEF WithinCapacity

LEMMA CommitsWithin ==
    ASSUME TypeInv, NEW s \in Slots, Commits(s)
    PROVE  \/ WithinCapacity
           \/ /\ req[s].h \in {"revokeTenancyExit", "reActiveTenancy"}
              /\ req[s].room \in Rooms /\ req'[s] = Idle
              /\ beds' = Taken(req[s].room)
<1> DEFINE q == req[s]
<1>q. q \in Request /\ SnapshotOK(q)
  BY DEF TypeInv, TypeOK, Consistent
<1>1. CASE CreateTenantCommit(s)
  BY <1>1, <1>q, TakenWithin DEF CreateTenantCommit, Runs, SnapshotOK
<1>2. CASE ShiftTenantRoomCommit(s)
  <2>1. q.room \in Rooms /\ q.to \in Rooms
    BY <1>2, <1>q DEF ShiftTenantRoomCommit, Runs, SnapshotOK
  <2>2. ~Full(q.to) /\ beds' = Moved(q.room, q.to)
    BY <1>2 DEF ShiftTenantRoomCommit
  <2> QED BY <2>1, <2>2, MovedWithin
<1>3. CASE DeleteTenantCommit(s)
  BY <1>3 DEF DeleteTenantCommit, Freed, TypeInv, TypeOK, WithinCapacity
<1>4. CASE RevokeTenancyExitCommit(s)
  BY <1>4, <1>q DEF RevokeTenancyExitCommit, Runs, SnapshotOK, Done, TypeInv, TypeOK
<1>5. CASE ReActiveTenancyCommit(s)
  BY <1>5, <1>q DEF ReActiveTenancyCommit, Runs, SnapshotOK, Done, TypeInv, TypeOK
<1>6. CASE \/ UpdateTenancyDetailsCommit(s)
           \/ ApproveRoomShiftRequestShift(s)
           \/ ApproveRoomShiftRequestMark(s)
           \/ ApproveRoomShiftRequestSupersede(s)
           \/ PutOnNoticePeriodCommit(s)
           \/ CancelNoticePeriodCommit(s)
           \/ RequestMoveOutCommit(s)
           \/ ApproveMoveOutRequestCommit(s)
           \/ RejectMoveOutRequestCommit(s)
           \/ RequestRoomShiftCommit(s)
           \/ RejectRoomShiftRequestCommit(s)
           \/ ConfirmMoveInCommit(s)
           \/ AddDueCommit(s)
           \/ UpdateTenantProfileCommit(s)
  <2>1. UNCHANGED beds
    BY <1>6 DEF UpdateTenancyDetailsCommit, ApproveRoomShiftRequestShift,
                ApproveRoomShiftRequestMark, ApproveRoomShiftRequestSupersede,
                PutOnNoticePeriodCommit, CancelNoticePeriodCommit, RequestMoveOutCommit,
                ApproveMoveOutRequestCommit, RejectMoveOutRequestCommit,
                RequestRoomShiftCommit, RejectRoomShiftRequestCommit,
                ConfirmMoveInCommit, AddDueCommit, UpdateTenantProfileCommit, rows
  <2> QED BY <2>1 DEF WithinCapacity, TypeInv, TypeOK
<1> QED BY <1>1, <1>2, <1>3, <1>4, <1>5, <1>6 DEF Commits

(* However requests interleave, only the return of an exited tenancy takes *)
(* a bed that the room does not have.                                      *)
THEOREM Capacity == Spec => OverbookedOnlyByReturn
<1> DEFINE Step == \A r \in Rooms :
         beds'[r].occupied > beds[r].occupied /\ beds'[r].occupied > beds[r].total =>
           \E s \in Slots : /\ req[s].h \in {"revokeTenancyExit", "reActiveTenancy"}
                            /\ req[s].room = r /\ req'[s] = Idle
<1>1. TypeInv /\ [Next]_vars => [Step]_vars
  <2> SUFFICES ASSUME TypeInv, Next PROVE Step
    OBVIOUS
  <2>t. TypeInv'
    BY NextOK
  <2>1. CASE WithinCapacity
    BY <2>1, <2>t DEF WithinCapacity, TypeInv, TypeOK
  <2>2. ASSUME NEW s \in Slots, Reads(s) PROVE UNCHANGED beds
    BY <2>2, ReadsGood DEF GoodRead, rows
  <2>3. ASSUME NEW s \in Slots, Abort(s) PROVE UNCHANGED beds
    BY <2>3 DEF Abort, rows
  <2>4. ASSUME NEW t \in Tenancies, \/ JoinDateArrives(t)
                                    \/ \E p \in Properties : DuesClosed(t, p)
        PROVE  UNCHANGED beds
    BY <2>4 DEF JoinDateArrives, DuesClosed
  <2>5. ASSUME NEW r \in Rooms, NEW n \in 1..MaxBeds, EditRoom(r, n) PROVE WithinCapacity
    BY <2>5 DEF EditRoom, Resized, WithinCapacity, TypeInv, TypeOK
  <2>6. CASE UNCHANGED beds
    BY <2>6 DEF TypeInv, TypeOK
  <2>7. ASSUME NEW s \in Slots, Commits(s) PROVE Step
    <3>1. CASE /\ req[s].h \in {"revokeTenancyExit", "reActiveTenancy"}
               /\ req[s].room \in Rooms /\ req'[s] = Idle
               /\ beds' = Taken(req[s].room)
      <4>1. ASSUME NEW r \in Rooms, r # req[s].room PROVE beds'[r] = beds[r]
        BY <3>1, <4>1 DEF Taken, TypeInv, TypeOK
      <4> QED BY <3>1, <4>1 DEF TypeInv, TypeOK
    <3> QED BY <2>1, <2>7, <3>1, CommitsWithin
  <2> QED BY <2>1, <2>2, <2>3, <2>4, <2>5, <2>6, <2>7 DEF Next
<1> QED BY <1>1, TypeCorrect, PTL DEF Spec, OverbookedOnlyByReturn
=============================================================================
