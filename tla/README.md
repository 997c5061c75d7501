# TLA+ models of the PG master backend

The backend (NestJS, Prisma on PostgreSQL, Redis, BullMQ) runs paying-guest
houses: owners onboard tenants into rooms, bill them dues, tenants pay through
the Easebuzz gateway, each property is settled with what it collected, meters
are read and billed every month, and staff act for the owners that hired them.
This directory holds TLA+ models of its core, the TLC runs that check them and
the TLAPS proofs about them. Paths below are relative to `src/src/` unless
they start with `prisma/`.

- [1. The system](#1-the-system)
- [2. The modules](#2-the-modules)
- [3. The runs](#3-the-runs)
- [4. The proofs](#4-the-proofs)
- [5. What the code does otherwise than it says](#5-what-the-code-does-otherwise-than-it-says)
- [6. Abstractions and what is not modelled](#6-abstractions-and-what-is-not-modelled)
- [7. Plan](#7-plan)

## 1. The system

### Components

| component | state | operations that change it | what makes it correct |
|---|---|---|---|
| **tenancy** (`modules/tenancy`) | `Tenancy`, `TenantMoveInTracker`, `TenentProfile.moveOutDate`, decisions in `MoveOutRequest` and `RoomShiftRequest`, `Room.occupiedBeds` | onboarding, details, room shift, notice period, move-in, decisions on requests, re-activation | the bed counter is the number of residents; no room is overbooked; a tenant has one tenancy per property; decisions stay |
| **tenent** (`modules/tenent`) | the same rows | exit and its revocation, requests to move out or to shift | nobody leaves with an open due; one open request of a kind |
| **room and property** (`modules/property`, `modules/room`) | `Room`, `Property`, images | rooms, capacity, images | capacity against occupancy |
| **due, billing** (`modules/due`, `modules/billing`) | `TenantDue`, `DuePayment` | add, edit, delete, collect by hand, remind | total, paid, balance, status and receipts agree |
| **payment** (`modules/payment`) | `PaymentGatewayTransaction`, its `...Due` lines, `DuePayment`, `SettlementTransactions`, `PropertySettlementLedger`, locks in Redis | start a payment for one due or several, handle a report of the gateway | one receipt, one settlement row and one credit for a payment the gateway took |
| **payment-config** (`modules/payment-config`) | the merchant account of a property | create, update | reports are verified with the account the payment was made under |
| **settlement** (`modules/settelment`) | stored payout webhooks | store and queue | duplicates are dropped |
| **electricity** (`modules/electricity`) | readings, bills, allocations | bill a month, re-run it | shares add up to the cost; a re-run replaces exactly the unpaid dues |
| **metrics** (`core/listeners`, `workers`, `modules/metrics`, `modules/propertyMatrics`) | counters per property and month, a BullMQ queue | events after commits, jobs, increments | counters equal what the rows say |
| **staff** (`modules/staff`, the controllers) | profile with scope and permissions, the employee book, access rows | hire, edit access, set permissions, remove; the checks of every request | who may act is an employee of the owner, with access to the property; nothing is left of a removed member |
| **complaint** (`modules/complaint`) | complaint, photos, status | raise, assign, handle, edit, add photos | one assignee, of the right owner; edits only while open; limit of photos |
| **user, property owner** (`modules/user`, `modules/propertyowner`) | `User`, profiles, settings | registration, edits of the own profile, the owner's edit of a tenant's | who shares a phone number |
| **auth, expenses, KYC, banks, admin, reminder, outbox poller** | single rows, tokens, one-time passwords | inserts and updates of one row | little interaction |

### How they interact

A request is one asynchronous function in a Node process; there may be several
processes. Every `await` lets other requests run. Handlers read the rows they
need with plain queries, check them in memory, and write in one
`prisma.$transaction`. The transactions run at PostgreSQL's default isolation
(read committed), so a read before the transaction is protected by nothing.
Two places take row locks: `createTenant` and `shiftTenantRoom` re-read rooms
with `SELECT ... FOR UPDATE` before they take a bed.

Rows are shared freely. A bed counter is written by four services; the move-out
date is a column of the tenant's profile that all tenancies of that tenant
share; a due is written by the due, billing and payment services. After a
commit, in-process events feed BullMQ queues (notifications, metrics).
Electricity readings become a billing job, the job new dues, each new due an
event and the event a job of the metrics worker. Controllers ask the staff
service before a staff member's request runs for the owner.
The payment service calls the gateway over HTTP and is called back on
`/webhook`, `/success` and `/failure`, each any number of times.

### What is hard here

- **Reads before a transaction that trusts them**: shifts, exits, returns,
  onboarding, collection, edits, reports of the gateway.
- **Repeated and overlapping reports** of one payment on different routes.
- **Crashes between dependent writes**: status, settlement row and ledger of
  a payment; a shift and the decision on the request it came from.
- **Long legal sequences**: shift, exit, return, shift back, with dues and
  counters that must still agree; a tenant with two tenancies.
- **Values fixed too early**: the amount of a gateway payment, the merchant
  account, the balance a form showed.
- **Jobs that run again**: a billing run that deletes and inserts dues while
  they are paid, counters incremented by attempts that fail later.
- **Permissions spread over rows, profile and book**: three places that must
  agree after edits, removals and overlapping updates.
- **Limits**: capacity lowered below occupancy, balances cut at zero, one
  lock for a set of dues.

`PROJECT.json` lists these hazards one by one at the lines where they bite.

## 2. The modules

| module | models | composes |
|---|---|---|
| `Tenancy` | tenancies, rooms, requests, open dues as far as tenancies care | |
| `MCTenancy` | instances for TLC | EXTENDS `Tenancy` |
| `Tenancy_proofs` | invariants for any number of overlapping requests | EXTENDS `Tenancy` |
| `TenancySerial_proofs` | bed counters, dues, exits, move-ins, open requests, decisions and shared phone numbers when requests do not overlap | EXTENDS `Tenancy_proofs` |
| `SettlementBook` | abstract: what the settlement book of a property promises | |
| `Payment` | dues, gateway payments, reports, settlement | INSTANCE `SettlementBook` |
| `MCPayment` | instances for TLC | EXTENDS `Payment` |
| `Payment_proofs` | invariant and refinement for any number of requests | EXTENDS `Payment` |
| `PaymentSerial_proofs` | dues, receipts and settlement when requests do not overlap | EXTENDS `Payment_proofs` |
| `Staff` | members, their access rows and permissions, every access check | |
| `Endpoints` | which check each controller handler open to staff makes | EXTENDS `Staff` |
| `Complaint` | complaints and their assignment to staff, composed with `Staff`; the specification of both | EXTENDS `Endpoints` |
| `MCComplaint` | instances for TLC | EXTENDS `Complaint` |
| `Complaint_proofs` | invariant and properties for any number of requests | EXTENDS `Complaint` |
| `ComplaintPhotos_proofs` | the limit on photos | EXTENDS `Complaint_proofs`, `SumLemmas` |
| `Metrics` | the counter job of a new due | |
| `Electricity` | readings, allocation, billing jobs, dues, composed with `Metrics` | EXTENDS `Metrics` |
| `MCElectricity` | instances for TLC | EXTENDS `Electricity` |
| `SumLemmas` | lemmas about sums over finite sets | |
| `Electricity_proofs` | invariant and properties for any number of rooms, tenancies, submissions and jobs | EXTENDS `Electricity`, `SumLemmas` |

### Tenancy

A handler is two actions: `...Read` evaluates the checks on the rows and stores
in `req[s]` exactly the columns the code still holds in local variables when
its transaction starts; `...Commit` is the transaction. Between them the
requests in other slots run, and `Abort` may end the request (a later check
refuses it, the transaction times out or rolls back, the process dies).
`approveRoomShiftRequest` is longer: it reads the request, calls
`shiftTenantRoom` (which reads the tenancy again, commits), then marks the
request APPROVED and rejects its rivals in two updates of their own.

| variable | in the code |
|---|---|
| `phone` | `User.phoneNumber`; `None` for a row not inserted yet |
| `tenancy` | `tenancyStatus`, `deletedAt`, user, room, property, and whether the joining date is in the future |
| `moveIns` | the `TenantMoveInTracker` rows of a tenancy: WAITING or not, number of MOVED_IN |
| `leaving` | users whose `TenentProfile.moveOutDate` is set |
| `moveOut`, `shiftReq` | `MoveOutRequest`, `RoomShiftRequest` |
| `beds` | `Room.occupiedBeds`, `Room.totalBeds` |
| `openDues` | the properties under which a tenancy has unpaid dues |
| `req` | local variables of the running handlers |

Handlers: `createTenant`, `updateTenancyDetails`, `shiftTenantRoom`,
`approveRoomShiftRequest`, `rejectRoomShiftRequest`, `putOnNoticePeriod`,
`cancelNoticePeriod`, `approveMoveOutRequest`, `rejectMoveOutRequest`,
`confirmMoveIn`, `reActiveTenancy` (tenancy service); `deleteTenant`,
`revokeTenancyExit`, `requestMoveOut`, `requestRoomShift` (tenent service);
`updateTenantProfile` as far as it writes a phone number (propertyowner service);
`addDueToTenant`, `addDueToRoom` (due and billing services); `editRoom`
(property service). Environment: `JoinDateArrives`, and `DuesClosed`, by which
payments, collections and deletions close the open dues of one property (they
are detailed in `Payment`).

### Payment

Here each `await` that reads or writes rows is an action, because the order of
the writes of one handler is what matters. `req[s].h` is the point the handler
in slot `s` has reached:

    collectDue:      collectDue
    editDue:         editDue                 deleteDue: deleteDue
    makePayment:     validateDues -> createMulti -> linkDues -> lockPayment
    initiatePayment: createSingle -> openPayment
    handleWebhook:   verify -> fail | cancel
                     verify -> process -> apply -> settle -> credit
                               process ----------> settle     (nothing to book)

| variable | in the code |
|---|---|
| `due` | `TenantDue.status`, `totalAmount`, `paidAmount`, `balanceAmount` |
| `receipts` | the sum of the `DuePayment` rows of a due |
| `txn`, `lines` | `PaymentGatewayTransaction` and its `PaymentGatewayTransactionDue` rows |
| `booked` | how many commits inserted `DuePayment` rows for a transaction |
| `settlement`, `credited` | `SettlementTransactions` rows; increments of `PropertySettlementLedger` |
| `locks` | the `payment:lock:...` keys in Redis |
| `salt` | the merchant account configured for the property |
| `gateway` | external: what the gateway knows of a payment |
| `req` | local variables of the running handlers |

The gateway decides once per payment (`GatewayDecides`) and may then report as
often as it likes (`WebhookRead` needs no message that is used up). `Refused`
is every exception a handler raises by itself, `Abort` a failure from outside
at one of the stages in `Interrupted`. `LockExpires` is Redis' time to live.

`SettlementBook` says what this must amount to: `Pay`, then `Record`, then
`Credit`, each at most once per payment. The refinement maps `paid` to the
payments the gateway reports as success, `recorded` to `settlement` and
`credit` to `credited`; every other step is a stutter.

### Staff, Endpoints and Complaint

As in `Tenancy`, a handler is `...Read` and `...Commit`. `Wrote` records in
`raced` the members and complaints a request writes while another request
about them is in progress; properties that the code keeps only without such
overlap say so by `raced`. Each behaviour chooses one set of handlers
(`workload`), so that each handler is paired with those that touch the same
rows: staff and complaints interact only through the removal of a member.

| variable | in the code |
|---|---|
| `profile` | `MaintenanceStaffProfile`: not inserted, active or removed; `propertyScope`; flags and granular permissions |
| `book` | `EmployeeBook`: the owner of a member |
| `access` | `MaintenanceStaffPropertyAccess` rows with their permissions |
| `complaint` | `Complaint` rows: status, property, whether a tenant raised it, assignee, number of photos, whether it was edited |
| `req` | local variables of the running handlers |
| `raced` | history, see above |

`Staff` translates each `validateStaff...` method to an operator of its own
name without the prefix. A permission is a flag and a JSON object of booleans;
an object without keys restricts nothing. `Endpoints` has one operator
`May<Handler>` per controller handler that staff may call, made of the
check the controller calls for it; `SomeRequest` is their disjunction. Of the
controllers only this branch is translated: that of owners and tenants, the
validation of bodies and HTTP are left out.

`createComplaintByOwner` and `...ByTenant` share the commit and then insert the
photos one by one (`InsertPhoto`); `editComplaintByTenant` writes the text
first and goes on as `addComplaintPhotos` when the photos it counted before
leave room. `DeleteStaff` is the whole transaction of `deleteStaff`, complaints
included.

### Metrics and Electricity

    submitAllReadings:  SubmitAllReadingsRead -> SubmitReading (each meter)
                        -> SubmitBillingRun | AbortSubmission anywhere
    runBilling:         queued -> RunBillingRead -> RunBillingDelete
                        -> RunBillingCommit -> RunBillingEmit
                        queued -> RunBillingSkip (run COMPLETED)
                        RunBillingFail anywhere: the job is queued again or dead
    metrics job:        waiting -> rows -> cache -> done, FailCount anywhere

The upserts of one submission are separate because `Promise.all` runs them
outside a transaction. `RunBillingDelete` and `RunBillingCommit` are the two
halves of the transaction: the rows it deletes stay locked in between, and a
row another job holds is looked at again when the lock is released (`Old`).
A payment holds on to a due in two ways. The foreign key of a line of
`makePayment` restricts deletion, so the whole transaction of a rebill fails
(`Restricted`); that of `dueId`, all `initiatePayment` writes, is `ON DELETE
SET NULL`, so the due goes and the payment stays without it.

| variable | in the code |
|---|---|
| `hasMeter` | `Room.hasMeter` |
| `reading` | `PropertyMeterReading` (meter `Main`) and `RoomMeterReading` |
| `run` | `ElectricityBillingRun.status` |
| `dues` | `TenantDue` of type ELECTRICITY; `line`: a line of `makePayment` refers to it; `named`: a payment of `initiatePayment` has it as its `dueId` |
| `sub`, `job` | running submissions; the billing jobs and what they remember |
| `tally`, `metricsRow` | the metrics job of each announced due and how often it was counted; months with a `PropertyMetrics` row |
| `world` | chosen at the start: the tenants, where floating point rounds up, which environment acts |
| `disturbed`, `late` | history: months with overlapping or unfinished requests; readings written after those of the next month |

The allocation is translated in full: units of metered rooms, of vacant metered
rooms, the shared pool by days, both roundings. `world.above` says for which
quotients `Math.ceil` gets a result just above a whole number from floating
point.

## 3. The runs

Operators named `...Mutant` are wrong variants of the operator defined after
them; each property of each passing run is violated when its mutant (see
`PROJECT.json`) is put in. They are not part of the model.

| run | question | instance | result |
|---|---|---|---|
| `tenancy_beds` | do counters, properties of dues, exits, move-ins and phone numbers stay right through shifts, exits, returns and edits of a profile? | 1 request at a time; no requests of tenants; 2 phones, 2 users, 2 tenancies, 3 rooms of up to 2 beds in 2 properties | `BedCountExact`, `TenancyFollowsRoom`, `ExitedOwesNothing`, `MoveInConfirmedOnce`, `PhoneSharedOnlyByEdit` hold |
| `tenancy_requests` | are requests of tenants decided once, and are approved shifts booked right? | 1 request at a time; all handlers but `updateTenantProfile`, 1 tenancy, 2 requests of each kind | `TypeOK`, `BedCountExact`, `TenancyFollowsRoom`, `OneOpenRequest`, `DecisionsAreFinal` hold |
| `tenancy_overlap` | when does a tenancy on notice lose its date, and who may overbook a room? | 2 overlapping requests; 1 user, 2 tenancies, 2 rooms of 1 bed | `NoticeDateLostOnlyBySharing`, `OverbookedOnlyByReturn` hold |
| `tenancy_blocking` | is PENDING a blocking status? | 1 request at a time | `OneBlockingTenancy` violated |
| `tenancy_race` | do the row locks keep the counters? | 2 overlapping shifts of one tenancy | `BedCountExact` violated |
| `payment_ledger` | what survives overlapping, repeated and interrupted requests? | 2 overlapping requests that may stop anywhere; 1 due, 2 payments, 2 merchant accounts, amounts up to 1 | `PaidIsReceipted`, `ImplementsBook` hold |
| `payment_serial` | do a due's columns, receipts and settlement agree? | 1 request at a time; 2 dues, 2 payments of one or both, amounts up to 2 | `TypeOK`, `DueReconciles`, `BookedOnce`, `SettledIsBooked` hold |
| `payment_delivery` | is paid money credited in the end? | 2 overlapping requests, fairness, no crash once the tenant has the link | `PaidIsCredited` holds |
| `payment_duplicate` | is a repeated report ignored? | 2 overlapping reports of 1 payment | `BookedOnce` violated |
| `payment_lock` | does the lock refuse a second payment of a due? | 1 request at a time, 2 dues | `RefusedWhileLocked` violated |
| `staff_complaint` | who may act for an owner, and what is left of access and complaints after edits, removals and overlaps? | 2 overlapping requests; 2 owners, 3 properties, 1 member, 2 access rows, 1 complaint, 2 bodies of permissions, 2 photos | `TypeOK`, `RemovedHoldsNothing`, `AccessOnlyByEmployment`, `JobsCanStart`, `PagesAgree`, `OneAssigneeOfTheOwner`, `PhotosWithinLimit`, `AccessChangesOnlyAsNamed`, `UnstatedPermissionsStay`, `TenantEditsOnlyEditable` hold |
| `electricity_bill` | is a month billed once, fairly and completely, and counted, when it is submitted again, paid meanwhile, and jobs fail? | 1 submission at a time, 2 billing jobs of 2 attempts each; 2 months, 2 rooms, 3 tenancies, readings 1 and 3 | `TypeOK`, `FairShares`, `BilledOnceAsRead`, `ReadingsChain`, `CountedPerAttempt`, `AnnouncedUnlessInterrupted`, `CostRecovered`, `CollectedStays`, `SubmittedIsBilled`, `AnnouncedIsCounted` hold |

**One request at a time.** Several properties hold only when requests do not
overlap; with two slots they fail because the code reads before its
transactions. Those runs use one slot. They are not weak: they cover any
sequence of complete or aborted handlers, which is where counters drift apart
in practice. `tenancy_race` and `payment_duplicate` show the failure with two
slots. What holds in spite of overlapping is checked with two slots. Two are
enough for the hazards listed: each is a stale read of one handler against one
write of another; the proofs cover any number.

**Bounds.** `MaxBeds` bounds the capacity, `MaxCount` how far a counter may
drift from 0 (`CanRise`, `CanFall`), `MaxAmount` an amount; the pools `Users`,
`Tenancies`, `MoveReqs`, `ShiftReqs`, `Dues`, `Txns` bound how many rows are
ever inserted. Room counters reach their capacity with one bed or two; two
numbers let the edit of a profile take over a number that is in use, which
onboarding then finds at two users. Two amounts let
a due be partly paid, overpaid after an edit, and edited below what was paid.
Two tenancies let one return while the other has taken its bed; two requests
of one kind let one be decided while the other is open. Model values of one
kind are interchangeable, hence the symmetry sets; `payment_delivery` checks a
liveness property and uses none, and rooms are not symmetric because `PropOf`
tells them apart.

In `tenancy_overlap` a capacity of one bed makes `editRoom` write what is there;
lowering a capacity is exercised by the runs with one slot and by the proof of
`Capacity`.

In `staff_complaint` one member suffices because no handler writes two; two
access rows let a property be given twice or two be held; the third property
belongs to another owner, so a wrong grant would show. Of the two bodies one
grants some modules, the other all, with complaints only to view; both restrict
a module a row does not know. Permissions of rows and of profiles are set in
different workloads, as the two share no column; complaints of tenants and
complaints with photos are raised only in the workload that edits them.

In `electricity_bill` the months have three and two days, the tenants join on
different days and one leaves in the second month, so shares differ and leave
remainders; readings of 1 and 3 give zero and positive consumption. Worlds
that add payments, counters or meters that come and go use one month, since
two months only matter for the readings that chain. Two jobs of two
attempts let one overlap, repeat or outlive the other (the code gives three
attempts; the third meets nothing new).

**Deadlock** is checked except in the two small violation runs of `Payment`,
whose one payment ends with nothing left to do, and in `electricity_bill`,
where no further submission is enqueued once `MaxJobs` is reached.

**Fairness** (`FairSpec`, used by `payment_delivery`): weak fairness on the
steps of a running handler, because the event loop resumes a function whose
`await` has completed; strong fairness on the gateway's report of each payment
while its transaction is INITIATED, because the gateway retries its webhook
until it is answered and the tenant's browser is redirected to `/success`. It is strong because all slots may
be busy now and then. The assumption that no crash falls after the payment
link was issued is stated by `Interrupted <- BeforeLink`. It is a real
restriction: a crash between SUCCESS and the settlement row loses the credit
for good, since a later report finds the transaction processed.
`PaidIsCredited` moreover asks that the merchant account is not switched under
the payment, since a report is verified with the account of today.

`WorkersRun`, part of `Electricity!Spec`, is weak fairness on "some billing job
takes a step" and on "some metrics job takes a step": BullMQ's workers poll
their queue as long as the process lives, and a dead process is a failed
attempt. Nothing is assumed of owners and tenants. A job that fails may fail
every time, which is why `SubmittedIsBilled` and `AnnouncedIsCounted` end in
"billed, or all attempts used"; what they exclude is a job that is neither,
and a month marked PENDING whose job was skipped as already billed.

## 4. The proofs

TLAPS checks the following for every value of the constants that satisfies
the named assumptions of the modules (`None` is none of the other values; rooms,
tenancies and slots are finite sets where something is summed or counted over
them; bounds are natural numbers; a month has a day and a price is positive).
`OneAtATime` says that there is at most one slot, as in the runs with one
request at a time. Every invariant and action property of the passing runs is
stated by one of the theorems.

| theorem | statement |
|---|---|
| `Tenancy_proofs!TypeCorrect` | `Spec => []TypeInv`, the inductive invariant |
| `Tenancy_proofs!Typing` | `Spec => []TypeOK` |
| `Tenancy_proofs!NoticeDate` | `Spec => []NoticeDateLostOnlyBySharing` |
| `Tenancy_proofs!Capacity` | `Spec => OverbookedOnlyByReturn` |
| `TenancySerial_proofs!BedCount` | `OneAtATime` implies `Spec => []BedCountExact` |
| `TenancySerial_proofs!RoomFollowed` | `OneAtATime` implies `Spec => []TenancyFollowsRoom` |
| `TenancySerial_proofs!LeftWithoutDues` | `OneAtATime` implies `Spec => []ExitedOwesNothing` |
| `TenancySerial_proofs!MovedInOnce` | `OneAtATime` implies `Spec => []MoveInConfirmedOnce` |
| `TenancySerial_proofs!OneRequestOpen` | `OneAtATime` implies `Spec => []OneOpenRequest` |
| `TenancySerial_proofs!DecisionsStay` | `OneAtATime` implies `Spec => DecisionsAreFinal` |
| `TenancySerial_proofs!PhonesShared` | `OneAtATime` implies `Spec => PhoneSharedOnlyByEdit` |
| `Payment_proofs!Inductive` | `Spec => []IInv`, the inductive invariant |
| `Payment_proofs!TypeCorrect` | `Spec => []TypeOK` |
| `Payment_proofs!NeverOverstated` | `Spec => []PaidIsReceipted` |
| `Payment_proofs!Refinement` | `Spec => ImplementsBook` |
| `PaymentSerial_proofs!SerialInductive` | `OneAtATime` implies `Spec => []SerialInv`, the inductive invariant |
| `PaymentSerial_proofs!DuesReconcile` | `OneAtATime` implies `Spec => []DueReconciles` |
| `PaymentSerial_proofs!BookedAtMostOnce` | `OneAtATime` implies `Spec => []BookedOnce` |
| `PaymentSerial_proofs!SettledMoneyBooked` | `OneAtATime` implies `Spec => []SettledIsBooked` |
| `Complaint_proofs!Inductive` | `Spec => []IInv`, the inductive invariant |
| `Complaint_proofs!TypeCorrect` | `Spec => []TypeOK` |
| `Complaint_proofs!RemovalIsComplete` | `Spec => []RemovedHoldsNothing` |
| `Complaint_proofs!OnlyEmployeesAct` | `Spec => []AccessOnlyByEmployment` |
| `Complaint_proofs!AssigneeOfTheOwner` | `Spec => []OneAssigneeOfTheOwner` |
| `Complaint_proofs!PagesShowAccess` | `Spec => []PagesAgree` |
| `Complaint_proofs!FirstStepsAllowed` | `Spec => []JobsCanStart` |
| `Complaint_proofs!OthersPermissionsStay` | `Spec => UnstatedPermissionsStay` |
| `Complaint_proofs!EditsOnlyOpen` | `Spec => TenantEditsOnlyEditable` |
| `Complaint_proofs!AccessAsNamed` | `Spec => AccessChangesOnlyAsNamed` |
| `ComplaintPhotos_proofs!PhotosLimited` | `Spec => []PhotosWithinLimit` |
| `Electricity_proofs!Inductive` | `Spec => []IInv`, the inductive invariant |
| `Electricity_proofs!TypeCorrect` | `Spec => []TypeOK` |
| `Electricity_proofs!EveryBillIsFair` | `Spec => []FairShares` |
| `Electricity_proofs!MonthBilledOnce` | `Spec => []BilledOnceAsRead` |
| `Electricity_proofs!MonthsConnect` | `Spec => []ReadingsChain` |
| `Electricity_proofs!CollectedDuesStay` | `Spec => CollectedStays` |
| `Electricity_proofs!CostsRecovered` | `Spec => CostRecovered` |
| `Electricity_proofs!CountsPerAttempt` | `Spec => []CountedPerAttempt` |
| `Electricity_proofs!DuesAnnounced` | `Spec => []AnnouncedUnlessInterrupted` |

**Tenancy.** `TypeOK` is not inductive: a commit writes through the key its
handler remembers, so the key must name an inserted row. `TypeInv` adds that
every foreign key and every snapshot in `req` points to an inserted row, and
that the remembered user is still the tenancy's user (`SnapshotOK`): no handler
deletes a tenancy or gives it to another user, which `NextOK` shows as
`RowsKept`. `NoticeDate` then holds step by step: a commit that erases a date
either ends the notice of the same tenancy or belongs to another tenancy of the same user.
`Capacity` looks at the five commits that change counters; two re-check the
locked room, one only frees a bed, two are the returns.

**The bed counter.** With overlapping requests it is wrong, so `BedCount`
assumes one slot. The strengthening is `Fresh`: what a snapshot says of the rows (status,
room, property, no open dues) is still true when its handler commits, because
nobody else ran. Each commit then moves one tenancy into or out of
`Residents(r)` exactly when it moves the counter (`OneRowCounted`, `Counts`).
The three other theorems for one slot share the invariant `AllOrderly`, which
adds to them that a row not inserted yet has no trackers; it is preserved
tenancy by tenancy (`OneRowOrdered`), again from `Fresh`.

**Requests, decisions, phone numbers.** `Answerable` is the analogue of `Fresh`
for what `Fresh` leaves out: a handler about to open a request still finds none
open (`Awaited`), one about to decide finds it PENDING, and one about to
onboard a tenant found a user of the phone number, or none. `OneOpenRequest` is
a conjunct of it, as it is needed to keep it. `Registered` says of a step what
`PhoneSharedOnlyByEdit` says of a behaviour: a new user gets a number nobody
has, a known one keeps its own, and only the edit of a profile writes a number
without looking.
`markApproved` and the rejection of the rivals follow the commit of a shift in
updates of their own; that the decisions stay in between rests on the PENDING
that `Awaited` carries through all of them.

**Payment.** `PaidIsReceipted` is not inductive because a handler writes what
it read: `SlotOK` says that the paid amount in every snapshot is at most the
receipts, which only grow. For the refinement, `Record` needs a payment
the gateway took (`SlotOK`: every handler past verification has one) and
`Credit` needs a payment not credited yet: `Alone` says that at most one
handler is about to credit a payment, because the unique settlement row let
one pass, and `RowsOK` that a payment without a row has no credit. `Alone` also
covers the stages before the payment link, where a second writer would reset a
decided payment to open. Each action is a lemma `...Good`; `Frame` is what it
leaves alone for the handlers in other slots, proved once to be enough
(`OthersOK`).

**One payment at a time.** `SerialInv` extends the invariant above. Of the rows
it says that the columns of a due agree with its receipts (`Reconciled`), and of
a transaction (`TxnOK`) that nothing is booked before SUCCESS, that the dues it
pays for exist, and that a settled one is `Accounted` for. Of the handlers
(`Fresh`) it says that the due they saw is the due that is stored, and that a
report in progress still finds its transaction INITIATED. A
request that stops after it wrote SUCCESS and the receipts but before the
settlement row or the ledger leaves rows that satisfy all of this: later
reports find the transaction processed.

**Staff and complaints.** The properties about removal and employment are not
inductive: a commit writes a row or a complaint for the member its handler
remembers, so the invariant must say something of every name that is
remembered or stored. `Known(u)` says that `u` was hired and, unless a
request about it overlapped another (`raced`), still is; `Ties(u, p)` adds that
its owner, if it has one, is that of `p`. `RequestOK` asks this of the
requests, `RowOK` of the access rows, `ComplaintOK` of the assignees. It is
kept because whoever takes a name out of the book records in `raced` all
members other requests are about, and because nobody is hired twice, so an
owner can only become none. `Frame` says what a step leaves to the requests in
other slots and `OthersOK` proves it enough; each action is a lemma `...Good`.
`RequestOK` also says that the permissions, or the status, an update read are
still those of the row unless it was overlapped; the action properties follow
from that, step by step. That every request of a controller needs employment is
the composition of `AccessByEmployment` with one lemma per group of endpoints.

**Photos.** That a complaint has at most `MaxPhotos` per slot is not inductive:
a request that counted the photos may still add those it read for. `PhotosInv`
bounds the photos together with all those still coming (`AllComing`, a sum over
the slots), the photos of each request by `MaxPhotos`, and, for a complaint no
overlap touched, the photos and those of any single request by `MaxPhotos`.
`PhotoStep` says that a step of a handler turns coming photos into photos, drops
some, or starts within the limit after reading; only one summand changes.

**Electricity.** `IInv` has four parts. `Shapes` are types, sharper than `TypeOK`
for rows not in use. `Books` says that no meter runs backwards and that readings
still to be written continue the month before (`PendingChain`). `Ledger` relates
jobs and dues: a due belongs to an attempt of a job that committed, and the last
attempt has not failed since (`DueOK`), from which follows that a job that
starts again meets none of its own dues; what an open job computed is one fair
charge per tenancy and kind (`FairBill`); and, while a month is not disturbed, a bill in
progress holds the cost of the stored readings and has found every due of the
month (`BillOK`), which is why inserting its dues cannot bill anybody twice.
`Counters` bounds what each attempt of a metrics job has added. Fairness rests
on monotonicity of the days in the end points of a stay, and of the rounded
quotient, up to one.

**What a bill recovers.** `ComputedOK` adds that the charges a job holds are
those of the stored readings for some choice of who pays the remainder.
It is kept because only the readings of the month and the meters count
(`ComputedSame`) and both stay while a bill is in progress, or the month is
disturbed (`MonthStays`). The rest is a calculation about sums.
`RoomPaysTotal`: the tenants of a room pay its total, because as many as the
remainder pay one more. `RoomsRecover` sums room by room (`SumOfGroups`).
`PoolRecovers` compares the shares times the number of days with units times
price times days, then cancels (`SameProducts`); `RoundedUpBounds` says that
rounding up adds less than the divisor, or just the divisor when floating point is
above. `UnitsDivided`: rooms and pool together have the units of the main
meter, where the meters that were taken away would be missing. The bound of one
unit per due is therefore exact arithmetic, also where many roundings add up.

**Sums.** `SumLemmas` is about `SumFunctionOnSet` of the community modules. Its
recursion cannot be followed with an induction theorem that takes a predicate
as parameter; `Smallest` replaces it: a non-empty collection of subsets of a
finite set has a member none of whose elements can be taken away without
leaving the collection. Each lemma takes the collection of its
counterexamples. `SumsUnique` and `SumsExist` show first that the recursive
function behind the operator is what it should be.

**Only model-checked.** Liveness under fairness (`PaidIsCredited`,
`SubmittedIsBilled`, `AnnouncedIsCounted`) is out of the prover's reach. The four
violated properties are refuted by TLC and have no theorem, except that `BedCountExact`
and `BookedOnce` are theorems for one request at a time. What holds for
one request at a time only is proved under `OneAtATime`; the violation runs
`tenancy_race` and `payment_duplicate` show what happens with two.

## 5. What the code does otherwise than it says

1. **A PENDING tenancy does not block** (`tenancy_blocking`).
   `BLOCKING_TENANCY_STATUSES` lists PENDING, but the query of
   `runPreFlightChecks` (`modules/tenancy/tenancy.service.ts:155`) fetches only
   ACTIVE and NOTICE_PERIOD. A tenant with a future joining date can be
   onboarded into the same property again.
2. **Locked rooms, unlocked tenancy** (`tenancy_race`). `shiftTenantRoom` locks
   both rooms "to prevent concurrent bed-count races" but frees a bed of the
   room it read before the transaction
   (`modules/tenancy/tenancy.service.ts:726`). Two overlapping shifts free the
   same bed twice.
3. **A report is processed twice** (`payment_duplicate`). The test for an
   already processed webhook (`modules/payment/payment.service.ts:431`) is on a
   status read several awaits before SUCCESS is written, and nothing repeats
   it. Overlapping reports insert two receipts for one payment; the unique
   settlement row protects only the ledger.
4. **A set is locked, not its dues** (`payment_lock`). The lock key is made of
   all selected ids (`modules/payment/cache/payment.cache.service.ts:30`), so another
   selection with a due in common is not refused, though the message speaks
   of "one or more of the selected dues".

Further disagreements, met while modelling, that no run shows:

- "If a metered room has no active tenant the electricity cost must still be
  recovered, so we roll those units into the shared pool"
  (`modules/electricity/electricity-billing.service.ts:293-294`), and the pool
  falls back to all tenants "so the shared-area electricity cost is never lost"
  (330-332), but when the tenants of the pool had no day in the month nobody is
  billed for it. `CostRecovered` excludes that case (`There`), and meters taken
  away after a reading.
- A rebill is to "delete old unpaid dues"
  (`modules/electricity/electricity-billing.service.ts:158`). One may be the due of an
  open payment of `initiatePayment`, which has it only as its `dueId`, `ON DELETE
  SET NULL` (`prisma/migrations/20260525094231_*/migration.sql:24`): the
  `deleteMany` at `electricity-billing.service.ts:160` drops it, and the report
  of the payment, though settled, books nothing. A line of `makePayment` makes the
  rebill fail instead. `CollectedStays` says exactly which dues may go.
- `handleTransactionError` answers a duplicate number with "is already registered"
  (`modules/tenancy/tenancy.service.ts:479-482`), but no unique index on
  `User.phoneNumber` exists, and `updateTenantProfile`
  (`modules/propertyowner/propertyowner.service.ts:291`) writes a tenant's number
  without a lookup: requests sent one at a time can give two users one number.
  Onboarding then books the next tenancy under either of them.
  `PhoneSharedOnlyByEdit` says that this is the only way without overlap.
- `createMaintenanceStaff` (`modules/staff/staff.service.ts:35`) demands a property of
  a SELECTIVE member; `editStaffAccess` may then remove the last one.
- The run's status WAITING_MAIN_METER is never set; a run is PENDING or
  COMPLETED, and stays PENDING when no job is left for it.
- `onDuePaymentCollected` (`core/listeners/metrics.listener.ts:88`) listens to
  the event of a new due, so collections never reach the counters.

## 6. Abstractions and what is not modelled

Abstractions of `Tenancy`

- The reads of one handler, which are several queries, are one step. Nothing a
  handler does depends on two of them seeing different states beyond what the
  gap between read and commit already allows.
- A transaction is one step: writes go by primary key or are increments, and
  the rows they touch stay locked until the commit.
- Dates are reduced to what conditions ask of them: the joining date is in the
  future or not, a move-out date is set or not. The time of exit and of
  move-in, rents, deposits and personal data are left out.
- All properties belong to one owner; the checks of ownership always succeed.
- Dues of a tenancy are reduced to the properties they are booked under.
- Rooms and properties exist from the start. `deleteRoom` is not modelled.
- `Users` are tenants. The numbers of owners and staff are not modelled, nor
  their edits of their own (`updateProfile` of the owner,
  `modules/propertyowner/propertyowner.service.ts:41`, also writes without a
  lookup). Of `updateTenantProfile` only the phone number is kept.
- A shift to another property also moves the tenant's open complaints
  (`modules/tenancy/tenancy.service.ts:1008-1025`). That is not modelled; they
  stay with the same owner, so what `Complaint` says of assignees is not affected.

Abstractions of `Payment`

- One property and one tenant; amounts are natural numbers of a small unit
  (the columns are decimals). The rounding of gateway amounts is not modelled.
- The amount of a payment of several dues is the sum of its lines.
- An id of a deleted due is not used again.
- Only the gateway's own reports occur. A report with a wrong hash, which marks
  an INITIATED transaction FAILED, is in the model only as one that was
  verified with another merchant account.
- A transaction id pool that is used up refuses the payment, as an insert that
  fails does.
- The stages of `makePayment` between the insert and the payment link include
  the HTTP call of the gateway; a refusal there is an `Abort`.
- WAIVED and OVERDUE are in the schema and are never written.
- The lock's time to live is 840 seconds although its comment says 30; in the
  model a lock may expire at any time.
- The overwriting of SUCCESS by a blind FAILED (two overlapping reports, the
  account switched in between) is in the model. No property forbids it, as
  nothing in the code claims otherwise; `SettledIsBooked` is about one request
  at a time.

Abstractions of `Staff`, `Endpoints` and `Complaint`

- A user is a member from the first profile on; a user who is also an owner or
  a tenant does not occur. Personal data, expenses and collections of members
  are left out.
- Of JSON permissions the known keys and their truth are kept. The
  query of a check for one of two rows of the same property returns any of them.
- In `Endpoints` the row a request names belongs to a property `p`; that the
  row exists is not part of the check. To collect a due does not imply to read
  the payment history, so `JobsCanStart` does not ask it.
- Complaint logs, images in S3, notifications and listings are left out. A
  photo is a number; an upload that fails is an `Abort`.
- Ids of removed access rows are not used again. A removed member is not hired
  again: its user row stays, and a known phone number is refused.

Abstractions of `Electricity` and `Metrics`

- One property and one main meter; amounts, prices and readings are natural
  numbers (decimals in the code), the rounding of floating point an input.
- The stored end of a stay and the joining date are days. Only ACTIVE
  tenancies are billed, and the shares of a metered room do not depend on
  days: both are the code's.
- UNPAID stands for UNPAID and OVERDUE.
- Only the billing path writes dues here. `editDue` (which may also move a due to
  another month), `deleteDue` and ELECTRICITY dues added by hand are not in
  `Electricity`, so `BilledOnceAsRead`, `CollectedStays` and `CostRecovered` are about
  dues that nobody edits. Amounts under edits are in `Payment`.
- Adding a job to Redis succeeds. The event of a submission reaches the worker
  through a queue of commands whose consumer is not in the repository; it is
  taken to pass every command on.
- `submitMainMeterReading` and `submitMeterReading` are not modelled: no controller calls them.
- Only the counter of new dues is modelled. A new due also starts the job
  meant for collections, with an amount that is undefined.

Not modelled: authentication, user and owner data, expenses, KYC, banks,
property settings (of these only the checks of staff, in `Endpoints`), admin
reports, notifications, listings and images, which are single-row writes, queries or
calls of external services; payout webhooks, which are stored and queued but
processed by no code at this commit; the reminder service, which is empty, and
the outbox poller, which deletes rows nothing writes.

## 7. Plan

Done, in this order: `Tenancy` with its runs; its proofs; `SettlementBook` and
`Payment` with their runs; their proofs; `Staff`, `Endpoints` and `Complaint`
with their run and proofs; `Metrics` and `Electricity` with their run and proofs.

All invariants and action properties of the passing runs are proved. What is left:

1. `FairShares` and `CostRecovered` speak of bills one by one; that two bills of
   one month in a row differ only by what was submitted in between has no
   property yet.
2. In the proofs of `Payment` and `Tenancy` for one slot, `OneAtATime` could be
   weakened to "no two requests about the same rows", as `raced` does in
   `Complaint`.
3. Counters of collections and tenancies, whose listener is subscribed to the
   wrong event.

Runs are kept few: one per question.
