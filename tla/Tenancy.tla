------------------------------- MODULE Tenancy -------------------------------
(***************************************************************************)
(* Tenancies, rooms and the requests of tenants: tenancy.service.ts,       *)
(* tenent.service.ts and the parts of the propertyowner, property, due and *)
(* billing services that read or write the same rows.                      *)
(*                                                                         *)
(* Every handler of these services reads the rows it needs with plain      *)
(* queries, checks them, and then writes in one transaction. Between the   *)
(* two the Node process runs other requests. A handler is therefore two    *)
(* actions, ...Read and ...Commit, and the request slot s keeps in req[s]  *)
(* exactly the columns the handler remembers from its read. A transaction  *)
(* is one step: its writes are blind (by primary key, or increments) and   *)
(* the rows it touches stay locked until it commits.                       *)
(***************************************************************************)
EXTENDS Integers, FiniteSets

CONSTANTS
    Phones,      \* phone numbers an owner may type in
    Users,       \* pool of User rows
    Properties,  \* properties, all of one owner
    Rooms,       \* rooms
    PropOf,      \* the property of each room
    Tenancies,   \* pool of Tenancy rows
    MoveReqs,    \* pool of MoveOutRequest rows
    ShiftReqs,   \* pool of RoomShiftRequest rows
    Slots,       \* requests in progress at the same time
    Handlers,    \* handlers that are called in this instance
    MaxBeds,     \* bound: largest totalBeds of a room
    MaxCount,    \* bound: largest distance of occupiedBeds from 0
    None         \* SQL NULL

ASSUME PropOfAssumption == PropOf \in [Rooms -> Properties]
ASSUME NoneAssumption ==
    None \notin Phones \cup Users \cup Properties \cup Rooms \cup Tenancies
                \cup MoveReqs \cup ShiftReqs
ASSUME PoolAssumption == IsFiniteSet(Tenancies)
ASSUME BoundAssumption == MaxBeds \in Nat \ {0} /\ MaxCount \in Nat

VARIABLES
    phone,     \* User.phoneNumber, None for a row not inserted yet
    tenancy,   \* Tenancy rows
    moveIns,   \* TenantMoveInTracker rows of each tenancy
    leaving,   \* users whose TenentProfile.moveOutDate is set
    moveOut,   \* MoveOutRequest rows
    shiftReq,  \* RoomShiftRequest rows
    beds,      \* Room.occupiedBeds and Room.totalBeds
    openDues,  \* properties the open dues of a tenancy are booked under
    req        \* what the handler running in each slot remembers

rows == <<phone, tenancy, moveIns, leaving, moveOut, shiftReq, beds, openDues>>
vars == <<phone, tenancy, moveIns, leaving, moveOut, shiftReq, beds, openDues, req>>

Opt(S) == S \cup {None}

(* Status sets of the queries. EVICTED is in the schema but never written. *)
Blocking == {"ACTIVE", "NOTICE_PERIOD", "PENDING"}   \* also BILLABLE_...
Current == {"ACTIVE", "NOTICE_PERIOD"}
Statuses == Blocking \cup {"EXITED", "none"}         \* "none": no such row

Row == [status: Statuses, deleted: BOOLEAN, user: Opt(Users), room: Opt(Rooms),
        prop: Opt(Properties), future: BOOLEAN]
NoRow == [status |-> "none", deleted |-> FALSE, user |-> None, room |-> None,
          prop |-> None, future |-> FALSE]

Decisions == {"none", "PENDING", "APPROVED", "REJECTED"}
MoveOutRow == [status: Decisions, ten: Opt(Tenancies)]
ShiftRow == [status: Decisions, ten: Opt(Tenancies), room: Opt(Rooms),
             prop: Opt(Properties)]

HandlerNames ==
    {"createTenant", "updateTenancyDetails", "shiftTenantRoom",
     "approveRoomShiftRequest", "markApproved", "supersede",
     "rejectRoomShiftRequest", "putOnNoticePeriod", "cancelNoticePeriod",
     "approveMoveOutRequest", "rejectMoveOutRequest", "requestMoveOut",
     "requestRoomShift", "confirmMoveIn", "deleteTenant", "revokeTenancyExit",
     "reActiveTenancy", "addDue", "updateTenantProfile"}

Request ==
    [h: HandlerNames \cup {"idle"}, ten: Opt(Tenancies), user: Opt(Users),
     phone: Opt(Phones), room: Opt(Rooms), prop: Opt(Properties),
     to: Opt(Rooms), id: Opt(MoveReqs \cup ShiftReqs), status: Statuses,
     sets: BOOLEAN, dues: SUBSET (Tenancies \X Properties)]
Idle == [h |-> "idle", ten |-> None, user |-> None, phone |-> None,
         room |-> None, prop |-> None, to |-> None, id |-> None,
         status |-> "none", sets |-> FALSE, dues |-> {}]

Init ==
    /\ phone = [u \in Users |-> None]
    /\ tenancy = [t \in Tenancies |-> NoRow]
    /\ moveIns = [t \in Tenancies |-> [waiting |-> FALSE, movedIn |-> 0]]
    /\ leaving = {}
    /\ moveOut = [i \in MoveReqs |-> [status |-> "none", ten |-> None]]
    /\ shiftReq = [i \in ShiftReqs |->
                     [status |-> "none", ten |-> None, room |-> None, prop |-> None]]
    /\ beds \in [Rooms -> [occupied: {0}, total: 1..MaxBeds]]
    /\ openDues = [t \in Tenancies |-> {}]
    /\ req = [s \in Slots |-> Idle]

-----------------------------------------------------------------------------
(* Conditions and effects the handlers share.                              *)

Begins(s, handler) == handler \in Handlers /\ req[s] = Idle
Runs(s, handler) == req[s].h = handler
Remember(s, r) == req' = [req EXCEPT ![s] = r]
Done(s) == req' = [req EXCEPT ![s] = Idle]

(* Operators named ...Mutant are wrong variants, used to show that a     *)
(* property fails when the code is changed that way.                      *)
FullMutant(r) == beds[r].occupied > beds[r].total
Full(r) == beds[r].occupied >= beds[r].total
Is(t, S) == tenancy[t].status \in S
NotDeleted(t) == ~tenancy[t].deleted
OpenMoveOutMutant(t) == FALSE
OpenMoveOut(t) == \E i \in MoveReqs : moveOut[i] = [status |-> "PENDING", ten |-> t]
OpenShift(t) == \E i \in ShiftReqs : shiftReq[i].status = "PENDING" /\ shiftReq[i].ten = t
OwesMutant(t) == FALSE
Owes(t) == openDues[t] # {}
AlreadyMovedInMutant(t) == FALSE
AlreadyMovedIn(t) == moveIns[t].movedIn > 0

WithStatus(t, status) == [tenancy EXCEPT ![t].status = status]
Taken(r) == [beds EXCEPT ![r].occupied = @ + 1]
Freed(r) == [beds EXCEPT ![r].occupied = @ - 1]
MovedMutant(from, to) == Taken(to)
Moved(from, to) == [Freed(from) EXCEPT ![to].occupied = @ + 1]
ScheduledMutant(u) == leaving
Scheduled(u) == leaving \cup {u}
Unscheduled(u) == leaving \ {u}
PendingRejectedMutant(t) ==
    [i \in MoveReqs |-> IF moveOut[i].ten = t THEN [moveOut[i] EXCEPT !.status = "REJECTED"]
                                              ELSE moveOut[i]]
PendingRejected(t) ==
    [i \in MoveReqs |-> IF moveOut[i] = [status |-> "PENDING", ten |-> t]
                        THEN [moveOut[i] EXCEPT !.status = "REJECTED"]
                        ELSE moveOut[i]]

(* The two bounds on how far occupiedBeds may drift from the truth.        *)
CanRise(r) == beds[r].occupied < MaxCount
CanFall(r) == beds[r].occupied > -MaxCount

-----------------------------------------------------------------------------
(* createTenant: the pre-flight checks and the onboarding transaction.     *)

UsersByPhoneMutant(n) == {None}
UsersByPhone(n) ==
    LET found == {u \in Users : phone[u] = n}
    IN  IF found = {} THEN {None} ELSE found

(* The query fetches only ACTIVE and NOTICE_PERIOD tenancies, which are    *)
(* then searched for a blocking status.                                    *)
BlockedIn(u, p) ==
    \E t \in Tenancies : /\ tenancy[t].user = u /\ tenancy[t].prop = p
                         /\ Is(t, Current \cap Blocking)

CreateTenantRead(s, n, r) ==
    /\ Begins(s, "createTenant")
    /\ ~Full(r)
    /\ \E u \in UsersByPhone(n) :
        /\ u # None => ~BlockedIn(u, PropOf[r])
        /\ Remember(s, [Idle EXCEPT !.h = "createTenant", !.user = u, !.phone = n, !.to = r])
    /\ UNCHANGED rows

WithPhone(u, n) == [phone EXCEPT ![u] = n]

(* Only a new user gets the number of the form.                            *)
CreateTenantCommit(s) ==
    /\ Runs(s, "createTenant")
    /\ ~Full(req[s].to) /\ CanRise(req[s].to)
    /\ \E u \in IF req[s].user = None THEN {v \in Users : phone[v] = None}
                                      ELSE {req[s].user},
          t \in {x \in Tenancies : tenancy[x] = NoRow},
          future \in BOOLEAN, leaves \in BOOLEAN :
        /\ phone' = IF req[s].user = None THEN WithPhone(u, req[s].phone) ELSE phone
        /\ leaving' = IF leaves THEN Scheduled(u) ELSE Unscheduled(u)
        /\ tenancy' = [tenancy EXCEPT ![t] =
                         [status |-> IF future THEN "PENDING" ELSE "ACTIVE",
                          deleted |-> FALSE, user |-> u, room |-> req[s].to,
                          prop |-> PropOf[req[s].to], future |-> future]]
        /\ openDues' = [openDues EXCEPT ![t] = {PropOf[req[s].to]}]
        /\ moveIns' = [moveIns EXCEPT ![t].waiting = future]
    /\ beds' = Taken(req[s].to)
    /\ Done(s)
    /\ UNCHANGED <<moveOut, shiftReq>>

(* updateTenantProfile of the owner, when the form holds a phone number:   *)
(* any tenant with a tenancy here, past ones too, and no look who else has *)
(* the number.                                                             *)
UpdateTenantProfileRead(s, u, n) ==
    /\ Begins(s, "updateTenantProfile")
    /\ \E t \in Tenancies : tenancy[t].user = u
    /\ Remember(s, [Idle EXCEPT !.h = "updateTenantProfile", !.user = u, !.phone = n])
    /\ UNCHANGED rows

UpdateTenantProfileCommit(s) ==
    /\ Runs(s, "updateTenantProfile")
    /\ phone' = WithPhone(req[s].user, req[s].phone)
    /\ Done(s)
    /\ UNCHANGED <<tenancy, moveIns, leaving, moveOut, shiftReq, beds, openDues>>

-----------------------------------------------------------------------------
(* updateTenancyDetails, when the form holds a move-out date (sets) or an  *)
(* empty one. Without either it writes nothing modelled here.              *)

UpdateTenancyDetailsRead(s, t, sets) ==
    /\ Begins(s, "updateTenancyDetails")
    /\ Is(t, Current) /\ NotDeleted(t)
    /\ Remember(s, [Idle EXCEPT !.h = "updateTenancyDetails", !.ten = t,
                                !.user = tenancy[t].user, !.sets = sets])
    /\ UNCHANGED rows

UpdateTenancyDetailsCommit(s) ==
    /\ Runs(s, "updateTenancyDetails")
    /\ IF req[s].sets
       THEN tenancy' = WithStatus(req[s].ten, "NOTICE_PERIOD") /\ leaving' = Scheduled(req[s].user)
       ELSE tenancy' = WithStatus(req[s].ten, "ACTIVE") /\ leaving' = Unscheduled(req[s].user)
    /\ Done(s)
    /\ UNCHANGED <<phone, moveIns, moveOut, shiftReq, beds, openDues>>

-----------------------------------------------------------------------------
(* shiftTenantRoom, called by the owner or by approveRoomShiftRequest. p is *)
(* the requested property, None when the form leaves it out.                *)

Destination(t, p) == IF p = None THEN tenancy[t].prop ELSE p

MayShift(t, r, p) ==
    /\ Is(t, Current) /\ NotDeleted(t)
    /\ ~(r = tenancy[t].room /\ Destination(t, p) = tenancy[t].prop)
    /\ PropOf[r] = Destination(t, p)
    /\ ~Full(r)

ShiftSnapshot(t, r, i) ==
    [Idle EXCEPT !.h = "shiftTenantRoom", !.ten = t, !.room = tenancy[t].room,
                 !.prop = tenancy[t].prop, !.to = r, !.id = i]

ShiftTenantRoomRead(s, t, r, p) ==
    /\ Begins(s, "shiftTenantRoom")
    /\ MayShift(t, r, p)
    /\ Remember(s, ShiftSnapshot(t, r, None))
    /\ UNCHANGED rows

(* A move to another property takes the open dues along.                   *)
RebookedMutant(t, p) == openDues
Rebooked(t, p) == [openDues EXCEPT ![t] = IF @ = {} THEN {} ELSE {p}]

ShiftTenantRoomCommit(s) ==
    LET q == req[s]
        isCrossProperty == PropOf[q.to] # q.prop
    IN  /\ Runs(s, "shiftTenantRoom")
        /\ ~Full(q.to) /\ CanRise(q.to) /\ CanFall(q.room)
        /\ IF isCrossProperty
           THEN /\ tenancy' = [tenancy EXCEPT ![q.ten].room = q.to,
                                              ![q.ten].prop = PropOf[q.to]]
                /\ openDues' = Rebooked(q.ten, PropOf[q.to])
           ELSE /\ tenancy' = [tenancy EXCEPT ![q.ten].room = q.to]
                /\ UNCHANGED openDues
        /\ beds' = Moved(q.room, q.to)
        /\ IF q.id = None THEN Done(s) ELSE Remember(s, [q EXCEPT !.h = "markApproved"])
        /\ UNCHANGED <<phone, moveIns, leaving, moveOut, shiftReq>>

ApproveRoomShiftRequestRead(s, i) ==
    /\ Begins(s, "approveRoomShiftRequest")
    /\ shiftReq[i].status = "PENDING"
    /\ Is(shiftReq[i].ten, Current) /\ NotDeleted(shiftReq[i].ten)
    /\ Remember(s, [Idle EXCEPT !.h = "approveRoomShiftRequest", !.id = i,
                                !.ten = shiftReq[i].ten, !.to = shiftReq[i].room,
                                !.prop = shiftReq[i].prop])
    /\ UNCHANGED rows

(* The call of shiftTenantRoom reads the tenancy again.                    *)
ApproveRoomShiftRequestShift(s) ==
    LET q == req[s]
    IN  /\ Runs(s, "approveRoomShiftRequest")
        /\ MayShift(q.ten, q.to, q.prop)
        /\ Remember(s, ShiftSnapshot(q.ten, q.to, q.id))
        /\ UNCHANGED rows

(* Two updates after the transaction, outside of it.                       *)
ApproveRoomShiftRequestMark(s) ==
    /\ Runs(s, "markApproved")
    /\ shiftReq' = [shiftReq EXCEPT ![req[s].id].status = "APPROVED"]
    /\ Remember(s, [req[s] EXCEPT !.h = "supersede"])
    /\ UNCHANGED <<phone, tenancy, moveIns, leaving, moveOut, beds, openDues>>

ApproveRoomShiftRequestSupersede(s) ==
    /\ Runs(s, "supersede")
    /\ shiftReq' = [i \in ShiftReqs |->
            IF /\ i # req[s].id
               /\ shiftReq[i].ten = req[s].ten /\ shiftReq[i].status = "PENDING"
            THEN [shiftReq[i] EXCEPT !.status = "REJECTED"]
            ELSE shiftReq[i]]
    /\ Done(s)
    /\ UNCHANGED <<phone, tenancy, moveIns, leaving, moveOut, beds, openDues>>

-----------------------------------------------------------------------------
(* The move-out date: putOnNoticePeriod, cancelNoticePeriod.               *)

PutOnNoticePeriodRead(s, t) ==
    /\ Begins(s, "putOnNoticePeriod")
    /\ Is(t, Current) /\ NotDeleted(t)
    /\ Remember(s, [Idle EXCEPT !.h = "putOnNoticePeriod", !.ten = t,
                                !.user = tenancy[t].user, !.status = tenancy[t].status])
    /\ UNCHANGED rows

(* The status is written only if the tenancy was read as ACTIVE.           *)
PutOnNoticePeriodCommit(s) ==
    /\ Runs(s, "putOnNoticePeriod")
    /\ tenancy' = IF req[s].status = "ACTIVE" THEN WithStatus(req[s].ten, "NOTICE_PERIOD")
                                              ELSE tenancy
    /\ leaving' = Scheduled(req[s].user)
    /\ moveOut' = PendingRejected(req[s].ten)
    /\ Done(s)
    /\ UNCHANGED <<phone, moveIns, shiftReq, beds, openDues>>

CancelNoticePeriodRead(s, t) ==
    /\ Begins(s, "cancelNoticePeriod")
    /\ Is(t, {"NOTICE_PERIOD"}) /\ NotDeleted(t)
    /\ Remember(s, [Idle EXCEPT !.h = "cancelNoticePeriod", !.ten = t, !.user = tenancy[t].user])
    /\ UNCHANGED rows

CancelNoticePeriodCommit(s) ==
    /\ Runs(s, "cancelNoticePeriod")
    /\ tenancy' = WithStatus(req[s].ten, "ACTIVE")
    /\ leaving' = Unscheduled(req[s].user)
    /\ moveOut' = PendingRejected(req[s].ten)
    /\ Done(s)
    /\ UNCHANGED <<phone, moveIns, shiftReq, beds, openDues>>

-----------------------------------------------------------------------------
(* Requests of tenants and their approval.                                 *)

RequestMoveOutRead(s, t) ==
    /\ Begins(s, "requestMoveOut")
    /\ Is(t, Current) /\ NotDeleted(t)
    /\ ~OpenMoveOut(t)
    /\ Remember(s, [Idle EXCEPT !.h = "requestMoveOut", !.ten = t])
    /\ UNCHANGED rows

RequestMoveOutCommit(s) ==
    /\ Runs(s, "requestMoveOut")
    /\ \E i \in {j \in MoveReqs : moveOut[j].status = "none"} :
        moveOut' = [moveOut EXCEPT ![i] = [status |-> "PENDING", ten |-> req[s].ten]]
    /\ Done(s)
    /\ UNCHANGED <<phone, tenancy, moveIns, leaving, shiftReq, beds, openDues>>

ApproveMoveOutRequestRead(s, i) ==
    /\ Begins(s, "approveMoveOutRequest")
    /\ moveOut[i].status = "PENDING"
    /\ NotDeleted(moveOut[i].ten) /\ Is(moveOut[i].ten, {"ACTIVE"})
    /\ Remember(s, [Idle EXCEPT !.h = "approveMoveOutRequest", !.id = i,
                                !.ten = moveOut[i].ten,
                                !.user = tenancy[moveOut[i].ten].user])
    /\ UNCHANGED rows

ApproveMoveOutRequestCommit(s) ==
    /\ Runs(s, "approveMoveOutRequest")
    /\ moveOut' = [moveOut EXCEPT ![req[s].id].status = "APPROVED"]
    /\ tenancy' = WithStatus(req[s].ten, "NOTICE_PERIOD")
    /\ leaving' = Scheduled(req[s].user)
    /\ Done(s)
    /\ UNCHANGED <<phone, moveIns, shiftReq, beds, openDues>>

RejectMoveOutRequestRead(s, i) ==
    /\ Begins(s, "rejectMoveOutRequest")
    /\ moveOut[i].status = "PENDING"
    /\ Remember(s, [Idle EXCEPT !.h = "rejectMoveOutRequest", !.id = i])
    /\ UNCHANGED rows

RejectMoveOutRequestCommit(s) ==
    /\ Runs(s, "rejectMoveOutRequest")
    /\ moveOut' = [moveOut EXCEPT ![req[s].id].status = "REJECTED"]
    /\ Done(s)
    /\ UNCHANGED <<phone, tenancy, moveIns, leaving, shiftReq, beds, openDues>>

RequestRoomShiftRead(s, t, r, p) ==
    /\ Begins(s, "requestRoomShift")
    /\ MayShift(t, r, p)
    /\ ~OpenShift(t)
    /\ Remember(s, [Idle EXCEPT !.h = "requestRoomShift", !.ten = t, !.to = r,
                                !.prop = IF PropOf[r] = tenancy[t].prop THEN None
                                                                        ELSE PropOf[r]])
    /\ UNCHANGED rows

RequestRoomShiftCommit(s) ==
    /\ Runs(s, "requestRoomShift")
    /\ \E i \in {j \in ShiftReqs : shiftReq[j].status = "none"} :
        shiftReq' = [shiftReq EXCEPT ![i] =
                       [status |-> "PENDING", ten |-> req[s].ten,
                        room |-> req[s].to, prop |-> req[s].prop]]
    /\ Done(s)
    /\ UNCHANGED <<phone, tenancy, moveIns, leaving, moveOut, beds, openDues>>

RejectRoomShiftRequestRead(s, i) ==
    /\ Begins(s, "rejectRoomShiftRequest")
    /\ shiftReq[i].status = "PENDING"
    /\ Remember(s, [Idle EXCEPT !.h = "rejectRoomShiftRequest", !.id = i])
    /\ UNCHANGED rows

RejectRoomShiftRequestCommit(s) ==
    /\ Runs(s, "rejectRoomShiftRequest")
    /\ shiftReq' = [shiftReq EXCEPT ![req[s].id].status = "REJECTED"]
    /\ Done(s)
    /\ UNCHANGED <<phone, tenancy, moveIns, leaving, moveOut, beds, openDues>>

-----------------------------------------------------------------------------
(* Moving in, leaving, coming back.                                        *)

ConfirmMoveInRead(s, t) ==
    /\ Begins(s, "confirmMoveIn")
    /\ NotDeleted(t)
    /\ Is(t, {"PENDING"}) \/ (Is(t, {"ACTIVE"}) /\ tenancy[t].future)
    /\ ~AlreadyMovedIn(t)
    /\ Remember(s, [Idle EXCEPT !.h = "confirmMoveIn", !.ten = t])
    /\ UNCHANGED rows

(* Turns the WAITING tracker into a MOVED_IN one or inserts a MOVED_IN one. *)
ConfirmMoveInCommit(s) ==
    /\ Runs(s, "confirmMoveIn")
    /\ tenancy' = WithStatus(req[s].ten, "ACTIVE")
    /\ moveIns' = [moveIns EXCEPT ![req[s].ten] = [waiting |-> FALSE, movedIn |-> @.movedIn + 1]]
    /\ Done(s)
    /\ UNCHANGED <<phone, leaving, moveOut, shiftReq, beds, openDues>>

DeleteTenantRead(s, t) ==
    /\ Begins(s, "deleteTenant")
    /\ Is(t, Blocking) /\ NotDeleted(t)
    /\ ~Owes(t)
    /\ Remember(s, [Idle EXCEPT !.h = "deleteTenant", !.ten = t, !.room = tenancy[t].room])
    /\ UNCHANGED rows

DeleteTenantCommit(s) ==
    /\ Runs(s, "deleteTenant")
    /\ CanFall(req[s].room)
    /\ tenancy' = [tenancy EXCEPT ![req[s].ten].status = "EXITED",
                                  ![req[s].ten].deleted = TRUE]
    /\ beds' = Freed(req[s].room)
    /\ Done(s)
    /\ UNCHANGED <<phone, moveIns, leaving, moveOut, shiftReq, openDues>>

Returned(t) == [tenancy EXCEPT ![t].status = "ACTIVE", ![t].deleted = FALSE]

(* revokeTenancyExit does not look at the room's capacity.                 *)
RevokeTenancyExitRead(s, t) ==
    /\ Begins(s, "revokeTenancyExit")
    /\ Is(t, {"EXITED"})
    /\ Remember(s, [Idle EXCEPT !.h = "revokeTenancyExit", !.ten = t, !.room = tenancy[t].room])
    /\ UNCHANGED rows

RevokeTenancyExitCommit(s) ==
    /\ Runs(s, "revokeTenancyExit")
    /\ CanRise(req[s].room)
    /\ tenancy' = Returned(req[s].ten)
    /\ beds' = Taken(req[s].room)
    /\ Done(s)
    /\ UNCHANGED <<phone, moveIns, leaving, moveOut, shiftReq, openDues>>

(* reActiveTenancy does, but before its transaction and without a lock.    *)
ReActiveTenancyRead(s, t) ==
    /\ Begins(s, "reActiveTenancy")
    /\ Is(t, {"EXITED"})
    /\ ~Full(tenancy[t].room)
    /\ Remember(s, [Idle EXCEPT !.h = "reActiveTenancy", !.ten = t,
                                !.user = tenancy[t].user, !.room = tenancy[t].room])
    /\ UNCHANGED rows

ReActiveTenancyCommit(s) ==
    /\ Runs(s, "reActiveTenancy")
    /\ CanRise(req[s].room)
    /\ tenancy' = Returned(req[s].ten)
    /\ beds' = Taken(req[s].room)
    /\ leaving' = Unscheduled(req[s].user)
    /\ Done(s)
    /\ UNCHANGED <<phone, moveIns, moveOut, shiftReq, openDues>>

-----------------------------------------------------------------------------
(* Dues: addDueToTenant, createDueForTenant and addDueToRoom insert a due   *)
(* for the tenancies they read, under the property they read.              *)

Billable(t, p) == Is(t, Blocking) /\ NotDeleted(t) /\ tenancy[t].prop = p

AddDueToTenantRead(s, t) ==
    /\ Begins(s, "addDue")
    /\ Billable(t, tenancy[t].prop)
    /\ Remember(s, [Idle EXCEPT !.h = "addDue", !.dues = {<<t, tenancy[t].prop>>}])
    /\ UNCHANGED rows

AddDueToRoomRead(s, r) ==
    LET billed == {t \in Tenancies : tenancy[t].room = r /\ Billable(t, PropOf[r])}
    IN  /\ Begins(s, "addDue")
        /\ billed # {}
        /\ Remember(s, [Idle EXCEPT !.h = "addDue", !.dues = billed \X {PropOf[r]}])
        /\ UNCHANGED rows

AddDueCommit(s) ==
    /\ Runs(s, "addDue")
    /\ openDues' = [t \in Tenancies |->
                      openDues[t] \cup {p \in Properties : <<t, p>> \in req[s].dues}]
    /\ Done(s)
    /\ UNCHANGED <<phone, tenancy, moveIns, leaving, moveOut, shiftReq, beds>>

(* Payments and deletions close the open dues booked under one property.   *)
DuesClosed(t, p) ==
    /\ p \in openDues[t]
    /\ openDues' = [openDues EXCEPT ![t] = @ \ {p}]
    /\ UNCHANGED <<phone, tenancy, moveIns, leaving, moveOut, shiftReq, beds, req>>

-----------------------------------------------------------------------------
(* editRoom writes totalBeds whatever the occupancy (and never 0).         *)
ResizedMutant(r, n) == [beds EXCEPT ![r].total = n - 1]
Resized(r, n) == [beds EXCEPT ![r].total = n]

EditRoom(r, n) ==
    /\ "editRoom" \in Handlers
    /\ beds' = Resized(r, n)
    /\ UNCHANGED <<phone, tenancy, moveIns, leaving, moveOut, shiftReq, openDues, req>>

(* The joining date of a tenancy is no longer in the future.               *)
JoinDateArrives(t) ==
    /\ tenancy[t].future
    /\ tenancy' = [tenancy EXCEPT ![t].future = FALSE]
    /\ UNCHANGED <<phone, moveIns, leaving, moveOut, shiftReq, beds, openDues, req>>

(* A request is refused at a later check, its transaction times out, is    *)
(* chosen as deadlock victim or rolls back, or the process dies.           *)
Abort(s) ==
    /\ req[s] # Idle
    /\ Done(s)
    /\ UNCHANGED rows

-----------------------------------------------------------------------------
Reads(s) ==
    \/ \E n \in Phones : \/ \E r \in Rooms : CreateTenantRead(s, n, r)
                        \/ \E u \in Users : UpdateTenantProfileRead(s, u, n)
    \/ \E t \in Tenancies :
        \/ \E sets \in BOOLEAN : UpdateTenancyDetailsRead(s, t, sets)
        \/ \E r \in Rooms, p \in Opt(Properties) :
            ShiftTenantRoomRead(s, t, r, p) \/ RequestRoomShiftRead(s, t, r, p)
        \/ PutOnNoticePeriodRead(s, t)
        \/ CancelNoticePeriodRead(s, t)
        \/ RequestMoveOutRead(s, t)
        \/ ConfirmMoveInRead(s, t)
        \/ DeleteTenantRead(s, t)
        \/ RevokeTenancyExitRead(s, t)
        \/ ReActiveTenancyRead(s, t)
        \/ AddDueToTenantRead(s, t)
    \/ \E r \in Rooms : AddDueToRoomRead(s, r)
    \/ \E i \in MoveReqs : ApproveMoveOutRequestRead(s, i) \/ RejectMoveOutRequestRead(s, i)
    \/ \E i \in ShiftReqs : ApproveRoomShiftRequestRead(s, i) \/ RejectRoomShiftRequestRead(s, i)

Commits(s) ==
    \/ CreateTenantCommit(s)
    \/ UpdateTenantProfileCommit(s)
    \/ UpdateTenancyDetailsCommit(s)
    \/ ShiftTenantRoomCommit(s)
    \/ ApproveRoomShiftRequestShift(s)
    \/ ApproveRoomShiftRequestMark(s)
    \/ ApproveRoomShiftRequestSupersede(s)
    \/ PutOnNoticePeriodCommit(s)
    \/ CancelNoticePeriodCommit(s)
    \/ RequestMoveOutCommit(s)
    \/ ApproveMoveOutRequestCommit(s)
    \/ RejectMoveOutRequestCommit(s)
    \/ RequestRoomShiftCommit(s)
    \/ RejectRoomShiftRequestCommit(s)
    \/ ConfirmMoveInCommit(s)
    \/ DeleteTenantCommit(s)
    \/ RevokeTenancyExitCommit(s)
    \/ ReActiveTenancyCommit(s)
    \/ AddDueCommit(s)

Next ==
    \/ \E s \in Slots : Reads(s) \/ Commits(s) \/ Abort(s)
    \/ \E t \in Tenancies : JoinDateArrives(t) \/ \E p \in Properties : DuesClosed(t, p)
    \/ \E r \in Rooms, n \in 1..MaxBeds : EditRoom(r, n)

Spec == Init /\ [][Next]_vars

-----------------------------------------------------------------------------
(* Type invariant.                                                         *)
TypeOK ==
    /\ phone \in [Users -> Opt(Phones)]
    /\ tenancy \in [Tenancies -> Row]
    /\ moveIns \in [Tenancies -> [waiting: BOOLEAN, movedIn: Nat]]
    /\ leaving \subseteq Users
    /\ moveOut \in [MoveReqs -> MoveOutRow]
    /\ shiftReq \in [ShiftReqs -> ShiftRow]
    /\ beds \in [Rooms -> [occupied: Int, total: 1..MaxBeds]]
    /\ openDues \in [Tenancies -> SUBSET Properties]
    /\ req \in [Slots -> Request]

(* Room.occupiedBeds, kept by increments and decrements in five handlers,  *)
(* is the number of tenancies that hold a bed of the room. Meant for one   *)
(* request at a time (|Slots| = 1).                                        *)
Residents(r) == {t \in Tenancies : tenancy[t].room = r /\ Is(t, Blocking)}
BedCountExact == \A r \in Rooms : beds[r].occupied = Cardinality(Residents(r))

(* A tenancy is in the property of its room and all its open dues are      *)
(* booked there, through any sequence of shifts and new dues.              *)
TenancyFollowsRoom ==
    \A t \in Tenancies : tenancy[t] # NoRow =>
        tenancy[t].prop = PropOf[tenancy[t].room] /\ openDues[t] \subseteq {tenancy[t].prop}

(* EXITED and deletedAt go together, and nobody who left owes an open due. *)
ExitedOwesNothing ==
    \A t \in Tenancies : /\ Is(t, {"EXITED"}) <=> ~NotDeleted(t)
                         /\ Is(t, {"EXITED"}) => openDues[t] = {}

(* A tenancy on notice has a move-out date in its tenant's profile unless  *)
(* that tenant has a second tenancy: the profile is shared, and creating,  *)
(* cancelling or re-activating one tenancy erases the date of the other.   *)
NoticeDateLostOnlyBySharing ==
    \A t \in Tenancies : Is(t, {"NOTICE_PERIOD"}) /\ tenancy[t].user \notin leaving =>
        \E x \in Tenancies \ {t} : tenancy[x].user = tenancy[t].user

(* However requests interleave, a room gains a tenancy beyond its capacity *)
(* only when an exited one returns: the re-check under FOR UPDATE holds.   *)
OverbookedOnlyByReturn ==
    [][\A r \in Rooms :
         beds'[r].occupied > beds[r].occupied /\ beds'[r].occupied > beds[r].total =>
           \E s \in Slots : /\ req[s].h \in {"revokeTenancyExit", "reActiveTenancy"}
                            /\ req[s].room = r /\ req'[s] = Idle]_vars

(* A tenant never has two open requests of one kind for one tenancy.       *)
OneOpenRequest ==
    /\ \A i, j \in MoveReqs : moveOut[i].status = "PENDING" /\ moveOut[i] = moveOut[j] => i = j
    /\ \A i, j \in ShiftReqs :
         /\ shiftReq[i].status = "PENDING" /\ shiftReq[j].status = "PENDING"
         /\ shiftReq[i].ten = shiftReq[j].ten
         => i = j

(* A request that was approved or rejected stays so.                       *)
DecisionsAreFinal ==
    [][/\ \A i \in MoveReqs : moveOut[i].status \in {"APPROVED", "REJECTED"} =>
            moveOut'[i] = moveOut[i]
       /\ \A i \in ShiftReqs : shiftReq[i].status \in {"APPROVED", "REJECTED"} =>
            shiftReq'[i] = shiftReq[i]]_vars

(* A tenancy moves in at most once, and is PENDING only while its tracker  *)
(* waits.                                                                  *)
MoveInConfirmedOnce ==
    \A t \in Tenancies : /\ moveIns[t].movedIn <= 1
                         /\ Is(t, {"PENDING"}) => moveIns[t] = [waiting |-> TRUE, movedIn |-> 0]

(* What BLOCKING_TENANCY_STATUSES states: a tenant has at most one tenancy *)
(* of a blocking status in a property.                                     *)
OneBlockingTenancy ==
    \A t, x \in Tenancies :
        /\ Is(t, Blocking) /\ Is(x, Blocking)
        /\ tenancy[t].user = tenancy[x].user /\ tenancy[t].prop = tenancy[x].prop
        => t = x

(* No index keeps a phone number unique. One request at a time, two users  *)
(* come to share a number only when an owner edits the profile of one of   *)
(* them: onboarding finds the user of a number, in whatever state, and     *)
(* never inserts a second one.                                             *)
PhoneSharedOnlyByEdit ==
    [][\A u, v \in Users :
         u # v /\ phone'[u] # None /\ phone'[u] = phone'[v] =>
           \/ phone'[u] = phone[u] /\ phone'[v] = phone[v]
           \/ \E s \in Slots : /\ req[s].h = "updateTenantProfile"
                               /\ req[s].user \in {u, v} /\ req'[s] = Idle]_vars
=============================================================================
