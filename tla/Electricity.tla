----------------------------- MODULE Electricity -----------------------------
(***************************************************************************)
(* The electricity bill of one property: electricity.service.ts takes the  *)
(* readings of a month, electricity-billing.service.ts divides them among  *)
(* the tenants, and Metrics counts the dues. Submitting the readings of a  *)
(* month again bills it again.                                             *)
(*                                                                         *)
(* Readings are upserted one by one; a billing job reads and computes in   *)
(* one action, deletes old dues in a transaction and inserts the new ones  *)
(* when it commits. The rows it deletes stay locked in between.            *)
(*                                                                         *)
(* The event of a submission is enqueued for a queue of commands whose     *)
(* consumer is not in the repository; it is taken to hand every command to *)
(* the worker in src/workers.                                              *)
(***************************************************************************)
EXTENDS Metrics, FiniteSetsExt

CONSTANTS
    Rooms,        \* rooms of the property
    Tenancies,    \* tenancies of the property
    Metered,      \* rooms with a meter at first
    Initial,      \* intialMeterReading of the rooms
    DaysIn,       \* number of days of each month
    Readings,     \* bound: values of a meter
    Prices,       \* prices of a unit
    MaxJobs,      \* bound: submissions
    Slots,        \* submissions in progress at the same time
    Worlds,       \* what does not change: one of them is the case
    Main,         \* the main meter
    None          \* SQL NULL

VARIABLES
    world,       \* the tenants, the rounding and what is asked of the system
    hasMeter,    \* Room.hasMeter
    reading,     \* PropertyMeterReading (of Main) and RoomMeterReading rows
    run,         \* ElectricityBillingRun.status
    dues,        \* TenantDue rows of type ELECTRICITY
    sub,         \* what each submission in progress remembers
    job,         \* billing jobs in the order they were enqueued
    disturbed,   \* history: months with overlapping or unfinished requests
    late         \* history: readings written after those of the next month

meters == <<hasMeter, reading, run, disturbed, late>>
counters == <<tally, metricsRow>>
vars == <<world, hasMeter, reading, run, dues, sub, job, disturbed, late, tally, metricsRow>>

Opt(S) == S \cup {None}
Meters == Rooms \cup {Main}
JobIds == 1..MaxJobs

ASSUME MainAssumption == Main \notin Rooms /\ None \notin Rooms \cup Months
ASSUME FiniteAssumption == IsFiniteSet(Rooms) /\ IsFiniteSet(Tenancies) /\ IsFiniteSet(Slots)
ASSUME JobsAssumption == MaxJobs \in Nat
ASSUME MeteredAssumption == Metered \subseteq Rooms
ASSUME InitialAssumption == Initial \in [Rooms -> Nat]

(* population: the tenancies with room, first and last day; above: whose   *)
(* quotients floating point puts above a whole number; edited: rooms whose *)
(* meter is given or taken; months: those submitted; ops: what else        *)
(* happens.                                                                *)
Lives == [active: BOOLEAN, room: Rooms, joined: Nat, left: Opt(Nat)]
Operations == {"collectDue", "makePayment", "initiatePayment", "metrics"}
ASSUME WorldsAssumption ==
    \A w \in Worlds : /\ \A t \in Tenancies : w.population[t] \in Lives
                      /\ w.above \subseteq Rooms \cup Tenancies
                      /\ w.edited \subseteq Rooms
                      /\ w.months \subseteq Months
                      /\ w.ops \subseteq Operations
ASSUME DaysInAssumption == DaysIn \in [Months -> Nat \ {0}]
ASSUME ReadingsAssumption == Readings \subseteq Nat /\ Prices \subseteq Nat \ {0}
Reading == [prev: Nat, cur: Nat, price: Prices]
ASSUME NoReadingAssumption == None \notin Reading
Kinds == {"METERED_ROOM", "SHARED_POOL"}
DueIds == [month: Months, job: JobIds, try: 0..Attempts, tenancy: Tenancies, kind: Kinds]
Due == [id: DueIds, amount: Nat, status: {"UNPAID", "PARTIAL", "PAID"},
        line: BOOLEAN,  \* has a PaymentGatewayTransactionDue row
        named: BOOLEAN, \* is the dueId of a PaymentGatewayTransaction row
        cost: Nat]      \* history: the cost of the month that was divided
Share == [tenancy: Tenancies, kind: Kinds, amount: Nat]
NoSub == [month |-> None, new |-> <<>>, todo |-> {}]
NoJob == [stage |-> "none", month |-> None, tries |-> 0, shares |-> {}, cost |-> 0,
          found |-> {}, held |-> {}]

Init ==
    /\ world \in Worlds
    /\ hasMeter = [r \in Rooms |-> r \in Metered]
    /\ reading = [m \in Months |-> [x \in Meters |-> None]]
    /\ run = [m \in Months |-> None]
    /\ dues = {}
    /\ sub = [s \in Slots |-> NoSub]
    /\ job = [j \in JobIds |-> NoJob]
    /\ disturbed = {} /\ late = {}
    /\ tally = <<>> /\ metricsRow = {}

-----------------------------------------------------------------------------
(* The tenants of a month and what each of them is charged.                *)

MonthStart(m) == 1 + SumFunction([k \in 1..(m - 1) |-> DaysIn[k]])
MonthEnd(m) == MonthStart(m) + DaysIn[m] - 1
Larger(a, b) == IF a > b THEN a ELSE b
Smaller(a, b) == IF a < b THEN a ELSE b

(* Both ends of the stay count.                                            *)
TenantDaysInMonthMutant(t, m) ==
    Larger(world.population[t].joined, MonthStart(m)) - MonthStart(m) + 1
TenantDaysInMonth(t, m) ==
    LET end == IF world.population[t].left = None THEN MonthEnd(m)
                                            ELSE Smaller(world.population[t].left, MonthEnd(m))
    IN  Larger(0, end - Larger(world.population[t].joined, MonthStart(m)) + 1)

MeteredRooms == {r \in Rooms : hasMeter[r]}
Has(m, x) == reading[m][x] # None
Consumed(m, x) == reading[m][x].cur - reading[m][x].prev
UnitPrice(m) == reading[m][Main].price
Collected(m) == \E d \in dues : d.id.month = m /\ d.status \in {"PAID", "PARTIAL"}

(* Every reading of the month counts, also that of a room whose meter was  *)
(* taken away since.                                                       *)
PrivateRoomsUnits(m) == SumFunction([r \in {q \in Rooms : Has(m, q)} |-> Consumed(m, r)])
RawSharedPoolUnits(m) == Consumed(m, Main) - PrivateRoomsUnits(m)

(* Only ACTIVE tenancies pay; the units of a metered room without one go   *)
(* to the shared pool.                                                     *)
ActiveTenancies == {t \in Tenancies : world.population[t].active}
In(r) == {t \in ActiveTenancies : world.population[t].room = r}
VacantMeteredUnitsMutant(m) == 0
VacantMeteredUnits(m) ==
    SumFunction([r \in {q \in MeteredRooms : In(q) = {}} |-> Consumed(m, r)])
EffectiveSharedPoolUnits(m) == RawSharedPoolUnits(m) + VacantMeteredUnits(m)

NonMeteredTenancies == {t \in ActiveTenancies : ~hasMeter[world.population[t].room]}
PoolTenancies == IF NonMeteredTenancies # {} THEN NonMeteredTenancies ELSE ActiveTenancies
PoolTenancyDays(m) == SumFunction([t \in PoolTenancies |-> TenantDaysInMonth(t, m)])

(* Math.ceil of a quotient in floating point: one more when the result     *)
(* lands above a whole number it should be.                                *)
RoundedUp(a, b, x) ==
    (a + b - 1) \div b + IF x \in world.above /\ a > 0 /\ a % b = 0 THEN 1 ELSE 0

RoomTotal(m, r) == RoundedUp(Consumed(m, r) * UnitPrice(m), 1, r)

(* splitAmountEqually: a tenancy in extra pays one of the remainder.       *)
SplitsRemainder(m, extra) ==
    \A r \in MeteredRooms : In(r) # {} =>
        Cardinality(extra \cap In(r)) = RoomTotal(m, r) % Cardinality(In(r))
RoomShares(m, extra) ==
    {[tenancy |-> t, kind |-> "METERED_ROOM",
      amount |-> LET r == world.population[t].room
                 IN  RoomTotal(m, r) \div Cardinality(In(r))
                     + IF t \in extra THEN 1 ELSE 0] :
     t \in ActiveTenancies \ NonMeteredTenancies}

(* Nobody pays for the pool when none of its tenancies had a day.          *)
PoolShares(m) ==
    {share \in
        {[tenancy |-> t, kind |-> "SHARED_POOL",
          amount |-> RoundedUp(EffectiveSharedPoolUnits(m) * TenantDaysInMonth(t, m)
                                 * UnitPrice(m), PoolTenancyDays(m), t)] :
         t \in {u \in PoolTenancies : TenantDaysInMonth(u, m) > 0}} :
     share.amount > 0}

-----------------------------------------------------------------------------
(* Submitting the readings of a month.                                     *)

Busy(s) == sub[s] # NoSub
Computing == {"read", "deleted"}
SubmitsOf(m) == {s \in Slots : sub[s].month = m}
BillsOf(m) == {j \in JobIds : job[j].month = m /\ job[j].stage \in Computing}

(* getExpectedPreviousReadings                                             *)
PreviousReadingMutant(m, x) == IF m > 1 /\ Has(m - 1, x) THEN reading[m - 1][x].prev ELSE 0
PreviousReading(m, x) ==
    IF Has(m, x) THEN reading[m][x].prev
    ELSE IF m > 1 /\ Has(m - 1, x) THEN reading[m - 1][x].cur
    ELSE IF x = Main THEN 0 ELSE Initial[x]

Enqueued == {j \in JobIds : job[j].stage # "none"}

SubmitAllReadingsRead(s, m, current, price) ==
    LET used(x) == current[x] - PreviousReading(m, x)
    IN  /\ m \in world.months
        /\ ~Busy(s)
        /\ Cardinality(Enqueued) + Cardinality({x \in Slots : Busy(x)}) < MaxJobs
        /\ \A x \in MeteredRooms \cup {Main} : used(x) >= 0
        /\ SumFunction([r \in MeteredRooms |-> used(r)]) <= used(Main)
        /\ ~Collected(m)
        /\ sub' = [sub EXCEPT ![s] =
             [month |-> m, todo |-> MeteredRooms \cup {Main},
              new |-> [x \in MeteredRooms \cup {Main} |->
                         [prev |-> PreviousReading(m, x), cur |-> current[x],
                          price |-> price]]]]
        /\ UNCHANGED <<meters, dues, job, counters>>

(* One of the upserts of Promise.all.                                      *)
SubmitReading(s, x) ==
    LET m == sub[s].month
        next == {y \in {m + 1} : y \in Months /\ (Has(y, x) \/ SubmitsOf(y) # {})}
    IN  /\ Busy(s) /\ x \in sub[s].todo
        /\ reading' = [reading EXCEPT ![m][x] = sub[s].new[x]]
        /\ sub' = [sub EXCEPT ![s].todo = @ \ {x}]
        /\ late' = late \cup {<<y, x>> : y \in next}
        /\ disturbed' = IF SubmitsOf(m) # {s} \/ BillsOf(m) # {} THEN disturbed \cup {m}
                                                               ELSE disturbed
        /\ UNCHANGED <<hasMeter, run, dues, job, counters>>

(* The run is marked PENDING and its job enqueued.                         *)
SubmitBillingRun(s) ==
    LET m == sub[s].month
    IN  /\ Busy(s) /\ sub[s].todo = {}
        /\ run' = [run EXCEPT ![m] = "PENDING"]
        /\ job' = [job EXCEPT ![Cardinality(Enqueued) + 1] =
                     [NoJob EXCEPT !.stage = "queued", !.month = m]]
        /\ sub' = [sub EXCEPT ![s] = NoSub]
        /\ disturbed' = IF BillsOf(m) # {} THEN disturbed \cup {m} ELSE disturbed
        /\ UNCHANGED <<hasMeter, reading, late, dues, counters>>

(* A write fails or the process dies: the rest is not written and no job   *)
(* enqueued. It may be too late for the run, which then stays PENDING.     *)
AbortSubmission(s, marked) ==
    /\ Busy(s) /\ (marked => sub[s].todo = {})
    /\ run' = IF marked THEN [run EXCEPT ![sub[s].month] = "PENDING"] ELSE run
    /\ disturbed' = disturbed \cup {sub[s].month}
    /\ job' = [job EXCEPT ![Cardinality(Enqueued) + 1] =
                 [NoJob EXCEPT !.stage = "lost", !.month = sub[s].month]]
    /\ sub' = [sub EXCEPT ![s] = NoSub]
    /\ UNCHANGED <<hasMeter, reading, late, dues, counters>>

(* editRoom may give a room a meter or take it away.                       *)
EditRoom(r) ==
    /\ r \in world.edited
    /\ hasMeter' = [hasMeter EXCEPT ![r] = ~@]
    /\ disturbed' = disturbed \cup
         {m \in Months : SubmitsOf(m) # {} \/ BillsOf(m) # {} \/ run[m] = "PENDING"}
    /\ UNCHANGED <<reading, run, late, dues, sub, job, counters>>

-----------------------------------------------------------------------------
(* A billing job.                                                          *)

AlreadyBilledMutant(m) == run[m] # None
AlreadyBilled(m) == run[m] = "COMPLETED"

RunBillingSkip(j) ==
    /\ job[j].stage = "queued" /\ AlreadyBilled(job[j].month)
    /\ job' = [job EXCEPT ![j] = [NoJob EXCEPT !.stage = "done", !.month = job[j].month,
                                               !.tries = job[j].tries]]
    /\ UNCHANGED <<meters, dues, sub, counters>>

RunBillingRead(j) ==
    LET m == job[j].month
    IN  /\ job[j].stage = "queued" /\ ~AlreadyBilled(m)
        /\ ~Collected(m)
        /\ Has(m, Main) /\ \A r \in MeteredRooms : Has(m, r)
        /\ RawSharedPoolUnits(m) >= 0
        /\ \E extra \in SUBSET (ActiveTenancies \ NonMeteredTenancies) :
            /\ SplitsRemainder(m, extra)
            /\ job' = [job EXCEPT ![j].stage = "read",
                 ![j].shares = RoomShares(m, extra) \cup PoolShares(m),
                 ![j].cost = Consumed(m, Main) * UnitPrice(m)]
        /\ UNCHANGED <<meters, dues, sub, counters>>

Replaceable(m) == {d.id : d \in {e \in dues : e.id.month = m /\ e.status = "UNPAID"}}
Locked == UNION {job[k].held : k \in JobIds}

(* The transaction finds the old dues and locks them, except those another *)
(* job is deleting, for which it waits.                                    *)
RunBillingDelete(j) ==
    LET found == Replaceable(job[j].month)
    IN  /\ job[j].stage = "read"
        /\ job' = [job EXCEPT ![j].stage = "deleted", ![j].found = found,
                              ![j].held = found \ Locked]
        /\ UNCHANGED <<meters, dues, sub, counters>>

OldMutant(d, found) == FALSE
Old(d, found) == d.id \in found /\ d.status = "UNPAID"
Created(j) ==
    {[id |-> [month |-> job[j].month, job |-> j, try |-> job[j].tries,
              tenancy |-> share.tenancy, kind |-> share.kind],
      amount |-> share.amount, status |-> "UNPAID", line |-> FALSE, named |-> FALSE,
      cost |-> job[j].cost] :
     share \in job[j].shares}

(* A due with a line of makePayment cannot be deleted: the foreign key of  *)
(* the line makes the transaction fail. That of dueId does not: it is set  *)
(* to NULL, and the payment of initiatePayment is left without its due.    *)
RestrictedMutant(d) == FALSE
Restricted(d) == d.line

RunBillingCommit(j) ==
    LET m == job[j].month
    IN  /\ job[j].stage = "deleted"
        /\ job[j].found \cap (Locked \ job[j].held) = {}
        /\ \A d \in dues : Restricted(d) => ~Old(d, job[j].found)
        /\ dues' = {d \in dues : ~Old(d, job[j].found)} \cup Created(j)
        /\ run' = [run EXCEPT ![m] = "COMPLETED"]
        /\ job' = [job EXCEPT ![j].stage = "committed", ![j].held = {}]
        /\ disturbed' = IF SubmitsOf(m) # {} \/ BillsOf(m) # {j} THEN disturbed \cup {m}
                                                              ELSE disturbed
        /\ UNCHANGED <<hasMeter, reading, late, sub, counters>>

(* due.created for each new due; followed where the counters are.          *)
RunBillingEmit(j) ==
    /\ job[j].stage = "committed"
    /\ tally' = IF "metrics" \in world.ops THEN Announced({d.id : d \in Created(j)}) ELSE tally
    /\ job' = [job EXCEPT ![j] = [NoJob EXCEPT !.stage = "done", !.month = job[j].month,
                                               !.tries = job[j].tries]]
    /\ UNCHANGED <<meters, dues, sub, metricsRow>>

(* An exception, a check that refuses, or the death of the worker.         *)
RunBillingFail(j) ==
    /\ job[j].stage \in Computing \cup {"queued", "committed"}
    /\ job' = [job EXCEPT ![j] = Retried([NoJob EXCEPT !.month = job[j].month,
                                                       !.tries = job[j].tries], "queued")]
    /\ UNCHANGED <<meters, dues, sub, counters>>

RunBilling(j) ==
    \/ RunBillingSkip(j) \/ RunBillingRead(j) \/ RunBillingDelete(j)
    \/ RunBillingCommit(j) \/ RunBillingEmit(j) \/ RunBillingFail(j)

-----------------------------------------------------------------------------
(* Payments, as far as a bill notices them. A row being deleted is locked. *)

CollectDue(d, status) ==
    /\ "collectDue" \in world.ops
    /\ d.status # "PAID" /\ d.id \notin Locked
    /\ dues' = (dues \ {d}) \cup {[d EXCEPT !.status = status]}
    /\ disturbed' = IF BillsOf(d.id.month) # {} THEN disturbed \cup {d.id.month}
                                              ELSE disturbed
    /\ UNCHANGED <<hasMeter, reading, run, late, sub, job, counters>>

MakePayment(d) ==
    /\ "makePayment" \in world.ops
    /\ d.status # "PAID" /\ ~d.line /\ d.id \notin Locked
    /\ dues' = (dues \ {d}) \cup {[d EXCEPT !.line = TRUE]}
    /\ UNCHANGED <<meters, sub, job, counters>>

(* The single payment, which has no line.                                  *)
InitiatePayment(d) ==
    /\ "initiatePayment" \in world.ops
    /\ d.status # "PAID" /\ ~d.named /\ d.id \notin Locked
    /\ dues' = (dues \ {d}) \cup {[d EXCEPT !.named = TRUE]}
    /\ UNCHANGED <<meters, sub, job, counters>>

-----------------------------------------------------------------------------
Submission(s) ==
    \/ \E m \in Months, current \in [MeteredRooms \cup {Main} -> Readings], price \in Prices :
        SubmitAllReadingsRead(s, m, current, price)
    \/ \E x \in Meters : SubmitReading(s, x)
    \/ SubmitBillingRun(s)
    \/ \E marked \in BOOLEAN : AbortSubmission(s, marked)

Counting ==
    /\ \/ \E d \in DOMAIN tally : WorkerStep(d) /\ UNCHANGED metricsRow
       \/ "metrics" \in world.ops /\ \E m \in Months : UpsertMetricsRow(m) /\ UNCHANGED tally
    /\ UNCHANGED <<meters, dues, sub, job>>

Next ==
    /\ \/ \E s \in Slots : Submission(s)
       \/ \E r \in Rooms : EditRoom(r)
       \/ \E j \in JobIds : RunBilling(j)
       \/ \E d \in dues :
            \/ MakePayment(d) \/ InitiatePayment(d)
            \/ \E status \in {"PARTIAL", "PAID"} : CollectDue(d, status)
       \/ Counting
    /\ UNCHANGED world

(* BullMQ's workers take some job as long as there is one; nothing makes   *)
(* owners and tenants act. Attempts are counted, so every job ends.        *)
WorkersRun ==
    /\ WF_vars((\E j \in JobIds : RunBilling(j)) /\ UNCHANGED world)
    /\ WF_vars(/\ \E d \in DOMAIN tally : WorkerStep(d)
               /\ UNCHANGED <<metricsRow, meters, dues, sub, job, world>>)

Spec == Init /\ [][Next]_vars /\ WorkersRun

-----------------------------------------------------------------------------
(* Type invariant.                                                         *)
TypeOK ==
    /\ world \in Worlds
    /\ hasMeter \in [Rooms -> BOOLEAN]
    /\ \A m \in Months, x \in Meters : reading[m][x] \in Opt(Reading)
    /\ run \in [Months -> Opt({"PENDING", "COMPLETED"})]
    /\ dues \subseteq Due
    /\ \A s \in Slots : Busy(s) => /\ sub[s].month \in Months
                                   /\ sub[s].todo \subseteq DOMAIN sub[s].new
                                   /\ \A x \in DOMAIN sub[s].new : sub[s].new[x] \in Reading
    /\ \A j \in JobIds :
        /\ job[j].month \in Opt(Months) /\ job[j].tries \in 0..Attempts
        /\ job[j].shares \subseteq Share
        /\ job[j].held \subseteq job[j].found /\ job[j].found \subseteq DueIds
    /\ DOMAIN tally \subseteq DueIds /\ \A d \in DOMAIN tally : tally[d] \in Tally
    /\ metricsRow \subseteq Months

There(t, m) ==
    LET stay == world.population[t]
    IN  /\ stay.joined <= MonthEnd(m)
        /\ stay.left # None => stay.joined <= stay.left /\ MonthStart(m) <= stay.left

(* An undisturbed bill recovers the cost of the month ("the electricity    *)
(* cost must still be recovered", calculateAllocations): the new dues add  *)
(* up to the main meter's units times the price and exceed it by at most   *)
(* one unit per due. It does not when a meter was taken away after its     *)
(* reading, or when no tenancy that shares the pool had a day in the month. *)
CostRecovered ==
    [][\A j \in JobIds :
         LET m == job[j].month
             new == {d \in dues' : d.id.job = j /\ d.id.try = job[j].tries}
             cost == Consumed(m, Main) * UnitPrice(m)
         IN  /\ job[j].stage = "deleted" /\ job'[j].stage = "committed"
             /\ m \notin disturbed'
             /\ \A r \in Rooms : Has(m, r) => hasMeter[r]
             /\ \E t \in PoolTenancies : There(t, m)
             => LET total == SumFunction([d \in new |-> d.amount])
                IN  cost <= total /\ total <= cost + Cardinality(new)]_vars

(* Who came earlier and left later never pays less for the pool, up to the *)
(* rounding, and tenants of a metered room pay the same up to one.         *)
StaysAsLong(t, u) ==
    LET a == world.population[t]
        b == world.population[u]
    IN  a.joined <= b.joined /\ (a.left = None \/ (b.left # None /\ b.left <= a.left))
FairShares ==
    \A d, e \in dues :
        d.id.month = e.id.month /\ d.id.job = e.id.job /\ d.id.try = e.id.try /\ d.id.kind = e.id.kind =>
            LET t == d.id.tenancy
                u == e.id.tenancy
            IN  IF d.id.kind = "SHARED_POOL"
                THEN StaysAsLong(t, u) => e.amount <= d.amount + 1
                ELSE world.population[t].room = world.population[u].room => e.amount <= d.amount + 1

(* However often a month is submitted and billed, a tenancy owes one due of *)
(* a kind for it, and a completed bill is that of the readings stored,      *)
(* unless requests overlapped or a submission stopped halfway.             *)
BilledOnceAsRead ==
    \A m \in Months \ disturbed :
        /\ \A d, e \in dues : d.id.month = m /\ e.id.month = m /\ d.id.tenancy = e.id.tenancy
                              /\ d.id.kind = e.id.kind => d = e
        /\ run[m] = "COMPLETED" /\ SubmitsOf(m) = {} =>
             \A d \in dues : d.id.month = m => d.cost = Consumed(m, Main) * UnitPrice(m)

(* A due stays with its amount, its payments and what was collected of it, *)
(* however bills, submissions and payments overlap. Only a bill of its     *)
(* month that found it drops it, and never one that is paid in part or has *)
(* a line of makePayment; a due that only a single payment of              *)
(* initiatePayment names is not safe from that.                            *)
Lasts(d, e) == /\ e.id = d.id /\ e.amount = d.amount
               /\ (d.line => e.line) /\ (d.named => e.named)
               /\ (d.status # "UNPAID" => e.status # "UNPAID")
CollectedStays ==
    [][\A d \in dues :
         \/ \E e \in dues' : Lasts(d, e)
         \/ /\ d.status = "UNPAID" /\ ~d.line
            /\ \E j \in JobIds : /\ job[j].stage = "deleted" /\ job'[j].stage = "committed"
                                 /\ d.id \in job[j].found]_vars

(* The reading a month starts from is the one the month before ended with,  *)
(* unless the earlier month was written later, which nothing forbids.      *)
ReadingsChain ==
    \A m \in Months, x \in Meters :
        m > 1 /\ Has(m - 1, x) /\ Has(m, x) /\ <<m, x>> \notin late =>
            reading[m][x].prev = reading[m - 1][x].cur

(* A due is added to each counter at most once per attempt, to Redis never  *)
(* more often than to the row, and a job that succeeded has counted it.    *)
CountedPerAttempt ==
    \A d \in DOMAIN tally :
        /\ tally[d].cache <= tally[d].rows
        /\ tally[d].rows <= tally[d].tries + IF tally[d].stage \in {"waiting", "dead"} THEN 0 ELSE 1
        /\ tally[d].stage = "done" => tally[d].cache > 0

(* A due that was inserted is announced to the counters, unless the worker  *)
(* stopped after the commit: the next attempt finds the run COMPLETED.     *)
AnnouncedUnlessInterrupted ==
    "metrics" \in world.ops =>
        \A d \in dues : \/ d.id \in DOMAIN tally
                        \/ job[d.id.job].stage = "committed"
                        \/ job[d.id.job].tries > d.id.try

(* A submitted month is billed in the end. It is not when all attempts of  *)
(* a job failed, or when a submission stopped before it enqueued one: the  *)
(* run stays PENDING with no job left for it.                              *)
SubmittedIsBilled ==
    \A m \in Months :
        run[m] = "PENDING" ~>
            \/ run[m] = "COMPLETED"
            \/ /\ \A j \in JobIds : job[j].month = m => job[j].stage \in Ended \cup {"lost"}
               /\ \E j \in JobIds : job[j].month = m /\ job[j].stage \in {"dead", "lost"}

(* An announced due is counted in the end, or all attempts failed, as they  *)
(* do while the month has no row.                                          *)
AnnouncedIsCounted == []<>(\A d \in DOMAIN tally : tally[d].stage \in Ended)
==============================================================================
