-------------------------- MODULE Electricity_proofs --------------------------
(***************************************************************************)
(* Proofs about Electricity and the counters of Metrics for all values of  *)
(* their constants: any number of rooms, tenancies, months, submissions    *)
(* and billing jobs that overlap, fail and run again.                      *)
(***************************************************************************)
EXTENDS Electricity, SumLemmas

(* The shape of what submissions and jobs remember.                        *)
JobStages == Computing \cup {"none", "queued", "committed", "done", "dead", "lost"}
NewReadings == UNION {[D -> Reading] : D \in SUBSET Meters}
SubRow == [month: Months, new: NewReadings, todo: SUBSET Meters]
JobRow == [stage: JobStages, month: Opt(Months), tries: 0..Attempts, shares: SUBSET Share,
           cost: Nat, found: SUBSET DueIds, held: SUBSET DueIds]

Shapes ==
    /\ world \in Worlds
    /\ hasMeter \in [Rooms -> BOOLEAN]
    /\ reading \in [Months -> [Meters -> Opt(Reading)]]
    /\ run \in [Months -> Opt({"PENDING", "COMPLETED"})]
    /\ dues \subseteq Due
    /\ sub \in [Slots -> SubRow \cup {NoSub}]
    /\ job \in [JobIds -> JobRow]
    /\ disturbed \subseteq Months
    /\ metricsRow \subseteq Months

(* No meter runs backwards, and a submission has what it is to write.      *)
Grows(row) == row.prev <= row.cur
ReadingsOK ==
    /\ \A m \in Months, x \in Meters : Has(m, x) => Grows(reading[m][x])
    /\ \A s \in Slots : Busy(s) =>
         /\ sub[s].todo \subseteq DOMAIN sub[s].new
         /\ \A x \in DOMAIN sub[s].new : Grows(sub[s].new[x])

(* A reading still to be written continues the month before.               *)
PendingChain ==
    \A s \in Slots : Busy(s) =>
        \A x \in sub[s].todo :
            sub[s].month > 1 /\ Has(sub[s].month - 1, x) /\ <<sub[s].month, x>> \notin late =>
                sub[s].new[x].prev = reading[sub[s].month - 1][x].cur

(* Jobs are numbered in the order they were enqueued.                      *)
Numbered == \E n \in 0..MaxJobs : Enqueued = 1..n

(* Two charges of one bill: one per tenancy and kind, and fair.            *)
FairPair(a, b) ==
    IF a.kind = "SHARED_POOL" THEN StaysAsLong(a.tenancy, b.tenancy) => b.amount <= a.amount + 1
    ELSE world.population[a.tenancy].room = world.population[b.tenancy].room =>
             b.amount <= a.amount + 1
FairBill(shares) ==
    \A a, b \in shares : a.kind = b.kind => (a.tenancy = b.tenancy => a = b) /\ FairPair(a, b)
JobOK(j) ==
    /\ job[j].stage = "none" => job[j] = NoJob
    /\ job[j].stage # "none" => job[j].month \in Months
    /\ job[j].stage \in Computing \cup {"queued", "committed"} => job[j].tries < Attempts
    /\ job[j].held \subseteq job[j].found
    /\ FairBill(job[j].shares)

(* A due belongs to an attempt that committed; the last attempt has not    *)
(* failed since, and while it has not announced its dues they are those it *)
(* computed.                                                               *)
DueOK(d) ==
    LET j == d.id.job
    IN  /\ d.id.month = job[j].month
        /\ d.id.try <= job[j].tries
        /\ d.id.try = job[j].tries => job[j].stage \in {"committed", "done"}
        /\ d.id.try = job[j].tries /\ job[j].stage = "committed" =>
             d.id \in {e.id : e \in Created(j)}

(* While nothing disturbs a month, a bill in progress has found every due  *)
(* of the month unpaid and computed with the readings that are stored.     *)
BillOK(m) ==
    \A j \in BillsOf(m) :
        /\ job[j].cost = Consumed(m, Main) * UnitPrice(m)
        /\ \A d \in dues : d.id.month = m =>
             d.status = "UNPAID" /\ (job[j].stage = "deleted" => d.id \in job[j].found)
BillsOK == \A m \in Months \ disturbed : BillOK(m)

TallyOK(d) ==
    /\ tally[d].stage \notin Ended => tally[d].tries < Attempts
    /\ tally[d].stage = "rows" => tally[d].cache < tally[d].rows
    /\ tally[d].stage = "cache" => tally[d].cache > 0

(* The inductive invariant: the readings, the bills and the counters.      *)
Books == ReadingsOK /\ ReadingsChain /\ PendingChain
Ledger ==
    /\ Numbered /\ (\A j \in JobIds : JobOK(j)) /\ (\A d \in dues : DueOK(d))
    /\ FairShares /\ BilledOnceAsRead /\ BillsOK
    /\ AnnouncedUnlessInterrupted
Counters ==
    /\ tally \in [DOMAIN tally -> Tally] /\ DOMAIN tally \subseteq DueIds
    /\ CountedPerAttempt /\ \A d \in DOMAIN tally : TallyOK(d)
IInv == Shapes /\ Books /\ Ledger /\ Counters

-----------------------------------------------------------------------------
(* Facts about the constants and the rows.                                 *)
LEMMA MonthFacts ==
    /\ \A m \in Months : m \in Nat /\ m >= 1
    /\ \A m \in Months : m > 1 => m - 1 \in Months
    /\ None \notin Months /\ Main \notin Rooms /\ Attempts \in Nat \ {0}
<1>1. Cardinality(Months) \in Nat BY MonthsAssumption, FS_CardinalityType
<1>2. \A m \in 1..Cardinality(Months) : m \in Nat /\ m >= 1 /\ (m > 1 => m - 1 \in 1..Cardinality(Months))
  BY <1>1
<1> QED BY <1>2, MonthsAssumption, MainAssumption, AttemptsAssumption

LEMMA WorldFacts ==
    ASSUME world \in Worlds, NEW t \in Tenancies
    PROVE  /\ world.population[t] \in Lives /\ world.population[t].room \in Rooms
           /\ world.population[t].joined \in Nat /\ world.population[t].left \in Opt(Nat)
BY WorldsAssumption DEF Lives

LEMMA ReadingFacts ==
    ASSUME Shapes, ReadingsOK, NEW m \in Months, NEW x \in Meters, Has(m, x)
    PROVE  /\ reading[m][x] \in Reading
           /\ reading[m][x].prev \in Nat /\ reading[m][x].cur \in Nat
           /\ reading[m][x].price \in Nat /\ Consumed(m, x) \in Nat
<1>1. reading[m][x] \in Reading BY DEF Shapes, Has, Opt
<1>2. reading[m][x].prev \in Nat /\ reading[m][x].cur \in Nat /\ reading[m][x].price \in Nat
  BY <1>1, ReadingsAssumption DEF Reading
<1>3. reading[m][x].prev <= reading[m][x].cur BY DEF ReadingsOK, Grows
<1> QED BY <1>1, <1>2, <1>3 DEF Consumed

LEMMA NoSubFacts == NoSub \notin SubRow /\ NoSub.month = None /\ NoSub.todo = {}
BY MonthFacts DEF NoSub, SubRow

LEMMA SubFacts ==
    ASSUME Shapes, ReadingsOK, NEW s \in Slots, Busy(s)
    PROVE  /\ sub[s] \in SubRow /\ sub[s].month \in Months
           /\ sub[s].todo \subseteq Meters /\ sub[s].todo \subseteq DOMAIN sub[s].new
           /\ \A x \in DOMAIN sub[s].new : x \in Meters /\ sub[s].new[x] \in Reading
<1>1. sub[s] \in SubRow BY DEF Shapes, Busy
<1>2. sub[s].month \in Months /\ sub[s].todo \subseteq Meters /\ sub[s].new \in NewReadings
  BY <1>1 DEF SubRow
<1>3. PICK D \in SUBSET Meters : sub[s].new \in [D -> Reading] BY <1>2 DEF NewReadings
<1>4. \A x \in DOMAIN sub[s].new : x \in Meters /\ sub[s].new[x] \in Reading BY <1>3
<1> QED BY <1>1, <1>2, <1>4 DEF ReadingsOK

(* The month of a slot, busy or not.                                       *)
LEMMA SubmitsFacts ==
    ASSUME Shapes, NEW m \in Months, NEW s \in Slots
    PROVE  s \in SubmitsOf(m) <=> Busy(s) /\ sub[s].month = m
BY NoSubFacts, MonthFacts DEF SubmitsOf, Busy

LEMMA JobFacts ==
    ASSUME Shapes, NEW j \in JobIds
    PROVE  /\ job[j] \in JobRow /\ job[j].stage \in JobStages /\ job[j].month \in Opt(Months)
           /\ job[j].tries \in 0..Attempts /\ job[j].tries \in Nat
           /\ job[j].shares \subseteq Share /\ job[j].cost \in Nat
           /\ job[j].found \subseteq DueIds /\ job[j].held \subseteq DueIds
<1>1. job[j] \in JobRow BY DEF Shapes
<1> QED BY <1>1, MonthFacts DEF JobRow

LEMMA NoJobFacts ==
    /\ NoJob \in JobRow /\ NoJob.stage = "none" /\ NoJob.tries = 0 /\ NoJob.shares = {}
    /\ NoJob.held = {} /\ NoJob.found = {}
BY MonthFacts DEF NoJob, JobRow, JobStages, Opt

LEMMA DueFacts ==
    ASSUME Shapes, NEW d \in dues
    PROVE  /\ d \in Due /\ d.id \in DueIds /\ d.amount \in Nat /\ d.cost \in Nat
           /\ d.status \in {"UNPAID", "PARTIAL", "PAID"}
           /\ d.line \in BOOLEAN /\ d.named \in BOOLEAN
           /\ d.id.month \in Months /\ d.id.job \in JobIds /\ d.id.try \in Nat
           /\ d.id.tenancy \in Tenancies /\ d.id.kind \in Kinds
<1>1. d \in Due BY DEF Shapes
<1>2. /\ d.id \in DueIds /\ d.amount \in Nat /\ d.cost \in Nat
      /\ d.line \in BOOLEAN /\ d.named \in BOOLEAN
      /\ d.status \in {"UNPAID", "PARTIAL", "PAID"}
  BY <1>1 DEF Due
<1> QED BY <1>1, <1>2, MonthFacts DEF DueIds

LEMMA PreviousReadingNat ==
    ASSUME Shapes, ReadingsOK, NEW m \in Months, NEW x \in Meters
    PROVE  PreviousReading(m, x) \in Nat
BY MonthFacts, ReadingFacts, InitialAssumption DEF PreviousReading, Meters

-----------------------------------------------------------------------------
(* Arithmetic of the shares.                                               *)
LEMMA TimesMonotone ==
    ASSUME NEW x \in Nat, NEW y \in Nat, NEW k \in Nat, x <= y
    PROVE  x * k \in Nat /\ y * k \in Nat /\ x * k <= y * k
OBVIOUS

LEMMA DivNat == ASSUME NEW a \in Nat, NEW b \in Nat \ {0} PROVE a \div b \in Nat
OBVIOUS

LEMMA DivMonotone ==
    ASSUME NEW a \in Nat, NEW c \in Nat, NEW b \in Nat \ {0}, a <= c
    PROVE  a \div b <= c \div b
<1> DEFINE p == a \div b
           q == c \div b
<1>1. p \in Nat /\ q \in Nat BY DivNat
<1>2. p * b <= a /\ c < (q + 1) * b OBVIOUS
<1> HIDE DEF p, q
<1>3. SUFFICES ASSUME q + 1 <= p PROVE FALSE BY <1>1 DEF p, q
<1>4. (q + 1) * b <= p * b BY <1>1, <1>3, TimesMonotone
<1>5. p * b \in Nat /\ (q + 1) * b \in Nat BY <1>1
<1> QED BY <1>2, <1>4, <1>5

LEMMA RoundedUpFacts ==
    ASSUME NEW a \in Nat, NEW c \in Nat, NEW b \in Nat \ {0}, NEW x, NEW y, a <= c
    PROVE  RoundedUp(a, b, x) \in Nat /\ RoundedUp(a, b, x) <= RoundedUp(c, b, y) + 1
<1> DEFINE p == (a + b - 1) \div b
           q == (c + b - 1) \div b
           e == IF x \in world.above /\ a > 0 /\ a % b = 0 THEN 1 ELSE 0
           f == IF y \in world.above /\ c > 0 /\ c % b = 0 THEN 1 ELSE 0
<1>1. p \in Nat /\ q \in Nat BY DivNat
<1>2. p <= q BY DivMonotone
<1>3. e \in {0, 1} /\ f \in {0, 1} OBVIOUS
<1>4. RoundedUp(a, b, x) = p + e /\ RoundedUp(c, b, y) = q + f BY DEF RoundedUp
<1> HIDE DEF p, q, e, f
<1> QED BY <1>1, <1>2, <1>3, <1>4

LEMMA MonthStartNat ==
    ASSUME NEW m \in Months
    PROVE  MonthStart(m) \in Nat /\ MonthEnd(m) \in Int
<1> DEFINE f == [k \in 1..(m - 1) |-> DaysIn[k]]
<1>1. m \in Nat /\ m >= 1 /\ 1..(m - 1) \subseteq Months
  <2>1. Cardinality(Months) \in Nat BY MonthsAssumption, FS_CardinalityType
  <2>2. m \in 1..Cardinality(Months) BY MonthsAssumption
  <2>3. m \in Nat /\ m >= 1 /\ 1..(m - 1) \subseteq 1..Cardinality(Months) BY <2>1, <2>2
  <2> QED BY <2>3, MonthsAssumption
<1>2. \A k \in Months : DaysIn[k] \in Nat BY DaysInAssumption
<1>3. IsFiniteSet(1..(m - 1)) BY <1>1, MonthsAssumption, FS_Subset
<1>4. DOMAIN f = 1..(m - 1) /\ \A k \in DOMAIN f : f[k] \in Nat BY <1>1, <1>2
<1> HIDE DEF f
<1>5. SumFunction(f) \in Nat BY <1>3, <1>4, SumFunctionNat
<1>6. MonthStart(m) = 1 + SumFunction(f) BY DEF MonthStart, f
<1> QED BY <1>2, <1>5, <1>6 DEF MonthEnd

LEMMA DaysFacts ==
    ASSUME world \in Worlds, NEW m \in Months, NEW t \in Tenancies, NEW u \in Tenancies
    PROVE  /\ TenantDaysInMonth(t, m) \in Nat
           /\ StaysAsLong(t, u) => TenantDaysInMonth(u, m) <= TenantDaysInMonth(t, m)
<1> DEFINE end(v) == IF world.population[v].left = None THEN MonthEnd(m)
                     ELSE Smaller(world.population[v].left, MonthEnd(m))
           from(v) == Larger(world.population[v].joined, MonthStart(m))
<1>1. /\ MonthStart(m) \in Int /\ MonthEnd(m) \in Int
      /\ world.population[t].joined \in Int /\ world.population[u].joined \in Int
      /\ world.population[t].left # None => world.population[t].left \in Int
      /\ world.population[u].left # None => world.population[u].left \in Int
  BY MonthStartNat, WorldFacts DEF Opt
<1>2. end(t) \in Int /\ end(u) \in Int /\ from(t) \in Int /\ from(u) \in Int
  BY <1>1 DEF Smaller, Larger
<1>3. StaysAsLong(t, u) => end(u) <= end(t) /\ from(t) <= from(u)
  BY <1>1 DEF StaysAsLong, Smaller, Larger
<1>4. /\ TenantDaysInMonth(t, m) = Larger(0, end(t) - from(t) + 1)
      /\ TenantDaysInMonth(u, m) = Larger(0, end(u) - from(u) + 1)
  BY DEF TenantDaysInMonth
<1> HIDE DEF end, from
<1> QED BY <1>2, <1>3, <1>4 DEF Larger

-----------------------------------------------------------------------------
(* What a bill charges.                                                    *)

(* What a job has checked before it computes.                              *)
Billable(m) ==
    /\ Has(m, Main) /\ \A r \in MeteredRooms : Has(m, r)
    /\ RawSharedPoolUnits(m) >= 0

LEMMA UnitsFacts ==
    ASSUME Shapes, ReadingsOK, NEW m \in Months, Billable(m)
    PROVE  /\ Consumed(m, Main) \in Nat /\ UnitPrice(m) \in Nat
           /\ \A r \in MeteredRooms : Consumed(m, r) \in Nat
           /\ EffectiveSharedPoolUnits(m) \in Nat
<1> DEFINE f == [r \in {q \in Rooms : Has(m, q)} |-> Consumed(m, r)]
           g == [r \in {q \in MeteredRooms : In(q) = {}} |-> Consumed(m, r)]
<1>1. Consumed(m, Main) \in Nat /\ UnitPrice(m) \in Nat
  BY ReadingFacts DEF Billable, Meters, UnitPrice
<1>2. \A r \in Rooms : Has(m, r) => Consumed(m, r) \in Nat
  BY ReadingFacts DEF Meters
<1>3. MeteredRooms \subseteq Rooms /\ \A r \in MeteredRooms : Has(m, r)
  BY DEF MeteredRooms, Billable
<1>4. \A x \in DOMAIN f : f[x] \in Nat BY <1>2
<1>5. \A x \in DOMAIN g : g[x] \in Nat BY <1>2, <1>3
<1>6. IsFiniteSet(DOMAIN f) /\ IsFiniteSet(DOMAIN g)
  BY <1>3, FiniteAssumption, FS_Subset
<1>7. PrivateRoomsUnits(m) = SumFunction(f) /\ VacantMeteredUnits(m) = SumFunction(g)
  BY DEF PrivateRoomsUnits, VacantMeteredUnits
<1> HIDE DEF f, g
<1>8. PrivateRoomsUnits(m) \in Nat /\ VacantMeteredUnits(m) \in Nat
  BY <1>4, <1>5, <1>6, <1>7, SumFunctionNat
<1>9. EffectiveSharedPoolUnits(m) \in Nat
  BY <1>1, <1>8 DEF EffectiveSharedPoolUnits, RawSharedPoolUnits, Billable
<1> QED BY <1>1, <1>2, <1>3, <1>9

(* The days of the pool are at least those of each of its tenancies.       *)
LEMMA PoolDaysFacts ==
    ASSUME world \in Worlds, NEW m \in Months
    PROVE  /\ PoolTenancies \subseteq Tenancies /\ PoolTenancyDays(m) \in Nat
           /\ \A t \in PoolTenancies : TenantDaysInMonth(t, m) <= PoolTenancyDays(m)
<1> DEFINE f == [t \in PoolTenancies |-> TenantDaysInMonth(t, m)]
<1>1. PoolTenancies \subseteq Tenancies
  BY DEF PoolTenancies, NonMeteredTenancies, ActiveTenancies
<1>2. IsFiniteSet(DOMAIN f) BY <1>1, FiniteAssumption, FS_Subset
<1>3. \A t \in DOMAIN f : f[t] \in Nat BY <1>1, DaysFacts
<1>4. SumFunction(f) \in Nat /\ \A t \in DOMAIN f : f[t] <= SumFunction(f)
  <2> HIDE DEF f
  <2> QED BY <1>2, <1>3, SumFunctionNat
<1>5. PoolTenancyDays(m) = SumFunction(f) BY DEF PoolTenancyDays
<1> QED BY <1>1, <1>4, <1>5

LEMMA PoolSharesFair ==
    ASSUME Shapes, ReadingsOK, NEW m \in Months, Billable(m)
    PROVE  PoolShares(m) \subseteq Share /\ FairBill(PoolShares(m))
           /\ \A a \in PoolShares(m) : a.kind = "SHARED_POOL"
<1> DEFINE units(t) == EffectiveSharedPoolUnits(m) * TenantDaysInMonth(t, m) * UnitPrice(m)
           amount(t) == RoundedUp(units(t), PoolTenancyDays(m), t)
<1>1. world \in Worlds /\ EffectiveSharedPoolUnits(m) \in Nat /\ UnitPrice(m) \in Nat
  BY UnitsFacts DEF Shapes
<1>2. ASSUME NEW t \in PoolTenancies, NEW u \in PoolTenancies,
             TenantDaysInMonth(t, m) > 0, TenantDaysInMonth(u, m) > 0
      PROVE  amount(t) \in Nat /\ (StaysAsLong(t, u) => amount(u) <= amount(t) + 1)
  <2>1. t \in Tenancies /\ u \in Tenancies BY <1>1, PoolDaysFacts
  <2>2. TenantDaysInMonth(t, m) \in Nat /\ TenantDaysInMonth(u, m) \in Nat
    BY <1>1, <2>1, DaysFacts
  <2>3. PoolTenancyDays(m) \in Nat \ {0} BY <1>1, <1>2, <2>2, PoolDaysFacts
  <2>4. units(t) \in Nat /\ units(u) \in Nat BY <1>1, <2>2
  <2>5. amount(t) \in Nat BY <2>3, <2>4, RoundedUpFacts
  <2>6. ASSUME StaysAsLong(t, u) PROVE amount(u) <= amount(t) + 1
    <3>1. TenantDaysInMonth(u, m) <= TenantDaysInMonth(t, m) BY <1>1, <2>1, <2>6, DaysFacts
    <3>2. units(u) <= units(t)
      <4> DEFINE e == EffectiveSharedPoolUnits(m)
                 a == TenantDaysInMonth(t, m)
                 b == TenantDaysInMonth(u, m)
      <4>1. e \in Nat /\ a \in Nat /\ b \in Nat /\ b <= a BY <1>1, <2>2, <3>1
      <4> HIDE DEF e, a, b
      <4>2. e * a \in Nat /\ e * b \in Nat /\ e * b <= e * a
        <5>1. a * e \in Nat /\ b * e \in Nat /\ b * e <= a * e BY <4>1, TimesMonotone
        <5>2. e * a = a * e /\ e * b = b * e BY <4>1
        <5> QED BY <5>1, <5>2
      <4>3. (e * b) * UnitPrice(m) <= (e * a) * UnitPrice(m) BY <1>1, <4>2, TimesMonotone
      <4> QED BY <4>3 DEF e, a, b
    <3> HIDE DEF units
    <3> QED BY <2>3, <2>4, <3>2, RoundedUpFacts
  <2> QED BY <2>5, <2>6
<1>3. ASSUME NEW a \in PoolShares(m)
      PROVE  /\ a.kind = "SHARED_POOL" /\ a.tenancy \in PoolTenancies
             /\ TenantDaysInMonth(a.tenancy, m) > 0
             /\ a = [tenancy |-> a.tenancy, kind |-> "SHARED_POOL", amount |-> amount(a.tenancy)]
  BY DEF PoolShares
<1> HIDE DEF amount
<1>4. PoolShares(m) \subseteq Share
  <2> SUFFICES ASSUME NEW a \in PoolShares(m) PROVE a \in Share OBVIOUS
  <2>1. a.tenancy \in Tenancies BY <1>1, <1>3, PoolDaysFacts
  <2>2. amount(a.tenancy) \in Nat BY <1>2, <1>3
  <2> QED BY <1>3, <2>1, <2>2 DEF Share, Kinds
<1>5. FairBill(PoolShares(m))
  <2> SUFFICES ASSUME NEW a \in PoolShares(m), NEW b \in PoolShares(m)
               PROVE  (a.tenancy = b.tenancy => a = b) /\ FairPair(a, b)
    BY DEF FairBill
  <2>1. a.tenancy = b.tenancy => a = b BY <1>3
  <2>2. a.amount = amount(a.tenancy) /\ b.amount = amount(b.tenancy) BY <1>3
  <2> QED BY <1>2, <1>3, <2>1, <2>2 DEF FairPair
<1> QED BY <1>3, <1>4, <1>5

LEMMA RoomSharesFair ==
    ASSUME Shapes, ReadingsOK, NEW m \in Months, Billable(m), NEW extra
    PROVE  RoomShares(m, extra) \subseteq Share /\ FairBill(RoomShares(m, extra))
           /\ \A a \in RoomShares(m, extra) : a.kind = "METERED_ROOM"
<1> DEFINE T == ActiveTenancies \ NonMeteredTenancies
           base(r) == RoomTotal(m, r) \div Cardinality(In(r))
           amount(t) == base(world.population[t].room) + IF t \in extra THEN 1 ELSE 0
<1>1. world \in Worlds /\ Billable(m) BY DEF Shapes
<1>2. T \subseteq Tenancies BY DEF ActiveTenancies
<1>3. ASSUME NEW t \in T
      PROVE  base(world.population[t].room) \in Nat
  <2> DEFINE r == world.population[t].room
  <2>1. t \in Tenancies /\ r \in Rooms BY <1>1, <1>2, WorldFacts
  <2>2. r \in MeteredRooms BY <2>1 DEF MeteredRooms, NonMeteredTenancies
  <2>3. IsFiniteSet(In(r)) /\ t \in In(r)
    BY <1>3, FiniteAssumption, FS_Subset DEF In, ActiveTenancies
  <2>4. Cardinality(In(r)) \in Nat \ {0} BY <2>3, FS_CardinalityType, FS_EmptySet
  <2> HIDE DEF r
  <2>5. Consumed(m, r) * UnitPrice(m) \in Nat BY <2>2, UnitsFacts
  <2>6. RoomTotal(m, r) \in Nat BY <2>5, RoundedUpFacts DEF RoomTotal
  <2> QED BY <2>4, <2>6, DivNat DEF r
<1>4. ASSUME NEW a \in RoomShares(m, extra)
      PROVE  /\ a.kind = "METERED_ROOM" /\ a.tenancy \in T
             /\ a = [tenancy |-> a.tenancy, kind |-> "METERED_ROOM", amount |-> amount(a.tenancy)]
  BY DEF RoomShares
<1> HIDE DEF base
<1>5. \A t \in T : amount(t) \in Nat BY <1>3
<1>6. RoomShares(m, extra) \subseteq Share
  BY <1>2, <1>4, <1>5 DEF Share, Kinds
<1>7. \A t, u \in T : world.population[t].room = world.population[u].room =>
                          amount(u) <= amount(t) + 1
  BY <1>3
<1>8. FairBill(RoomShares(m, extra))
  <2> SUFFICES ASSUME NEW a \in RoomShares(m, extra), NEW b \in RoomShares(m, extra)
               PROVE  (a.tenancy = b.tenancy => a = b) /\ FairPair(a, b)
    BY DEF FairBill
  <2> HIDE DEF amount
  <2>1. a.tenancy = b.tenancy => a = b BY <1>4
  <2>2. a.amount = amount(a.tenancy) /\ b.amount = amount(b.tenancy) /\ a.kind = "METERED_ROOM"
    BY <1>4
  <2> QED BY <1>4, <1>7, <2>1, <2>2 DEF FairPair
<1> QED BY <1>4, <1>6, <1>8

(* The bill of a job is fair, whoever pays the remainders.                 *)
LEMMA BillFair ==
    ASSUME Shapes, ReadingsOK, NEW m \in Months, Billable(m), NEW extra
    PROVE  /\ RoomShares(m, extra) \cup PoolShares(m) \subseteq Share
           /\ FairBill(RoomShares(m, extra) \cup PoolShares(m))
           /\ Consumed(m, Main) * UnitPrice(m) \in Nat
<1>1. Consumed(m, Main) * UnitPrice(m) \in Nat BY UnitsFacts
<1> QED BY <1>1, RoomSharesFair, PoolSharesFair DEF FairBill

-----------------------------------------------------------------------------
(* The initial states.                                                     *)
LEMMA InitGood == Init => IInv
<1> SUFFICES ASSUME Init PROVE IInv OBVIOUS
<1>1. Shapes
  <2>1. hasMeter \in [Rooms -> BOOLEAN] /\ run \in [Months -> Opt({"PENDING", "COMPLETED"})]
        /\ reading \in [Months -> [Meters -> Opt(Reading)]]
    BY DEF Init, Opt
  <2>2. sub \in [Slots -> SubRow \cup {NoSub}] /\ job \in [JobIds -> JobRow]
    BY NoJobFacts DEF Init
  <2> QED BY <2>1, <2>2 DEF Init, Shapes
<1>2. (\A m \in Months, x \in Meters : ~Has(m, x)) /\ \A s \in Slots : ~Busy(s)
  BY DEF Init, Has, Busy
<1>3. ReadingsOK /\ ReadingsChain /\ PendingChain
  BY <1>2 DEF ReadingsOK, ReadingsChain, PendingChain
<1>4. Numbered
  <2>1. Enqueued = {} BY NoJobFacts DEF Init, Enqueued
  <2>2. 1..0 = {} /\ 0 \in 0..MaxJobs BY JobsAssumption
  <2> QED BY <2>1, <2>2 DEF Numbered
<1>5. \A j \in JobIds : JobOK(j)
  BY NoJobFacts DEF Init, JobOK, FairBill, Computing
<1>6. BilledOnceAsRead /\ BillsOK
  <2>1. \A m \in Months : run[m] # "COMPLETED" \/ dues = {} BY DEF Init
  <2>2. \A m \in Months : BillsOf(m) = {}
    BY NoJobFacts DEF Init, BillsOf, Computing
  <2> QED BY <2>1, <2>2 DEF Init, BilledOnceAsRead, BillsOK, BillOK
<1>7. (\A d \in dues : DueOK(d)) /\ FairShares /\ AnnouncedUnlessInterrupted
  BY DEF Init, FairShares, AnnouncedUnlessInterrupted
<1>8. Counters
  <2>1. DOMAIN tally = {} BY DEF Init
  <2>2. tally \in [DOMAIN tally -> Tally]
    <3>1. tally = [d \in {} |-> tally[d]] BY DEF Init
    <3> QED BY <2>1, <3>1
  <2> QED BY <2>1, <2>2 DEF Counters, CountedPerAttempt
<1> QED BY <1>1, <1>3, <1>4, <1>5, <1>6, <1>7, <1>8 DEF IInv, Books, Ledger

-----------------------------------------------------------------------------
(* The readings.                                                           *)
LEMMA BooksKept ==
    ASSUME Books, UNCHANGED <<reading, sub, late>> PROVE Books'
BY DEF Books, ReadingsOK, ReadingsChain, PendingChain, Has, Busy, Grows

(* A submission ends: there is less to write.                              *)
LEMMA BooksAfterSubmission ==
    ASSUME Shapes, Books, NEW s \in Slots, sub' = [sub EXCEPT ![s] = NoSub],
           UNCHANGED <<reading, late>>
    PROVE  Books'
<1>1. \A r \in Slots : sub'[r] = IF r = s THEN NoSub ELSE sub[r] BY DEF Shapes
<1>2. \A r \in Slots : Busy(r)' => Busy(r) /\ sub'[r] = sub[r] BY <1>1 DEF Busy
<1>3. ReadingsOK' BY <1>2 DEF Books, ReadingsOK, Has, Grows
<1>4. PendingChain' BY <1>2 DEF Books, PendingChain, Has
<1> QED BY <1>3, <1>4 DEF Books, ReadingsChain, Has

LEMMA BooksAfterRead ==
    ASSUME Shapes, Books, NEW s \in Slots, NEW m \in Months,
           NEW current \in [MeteredRooms \cup {Main} -> Readings], NEW price \in Prices,
           SubmitAllReadingsRead(s, m, current, price)
    PROVE  Books' /\ sub' \in [Slots -> SubRow \cup {NoSub}]
           /\ Busy(s)' /\ sub'[s].month = m /\ ~Busy(s)
           /\ \A r \in Slots : r # s => sub'[r] = sub[r]
<1> DEFINE D == MeteredRooms \cup {Main}
           rows == [x \in D |-> [prev |-> PreviousReading(m, x), cur |-> current[x],
                                 price |-> price]]
           new == [month |-> m, todo |-> D, new |-> rows]
<1>1. sub' = [sub EXCEPT ![s] = new] /\ UNCHANGED <<reading, late>> /\ ~Busy(s)
  BY DEF SubmitAllReadingsRead, meters
<1>2. \A r \in Slots : sub'[r] = IF r = s THEN new ELSE sub[r] BY <1>1 DEF Shapes
<1>3. D \subseteq Meters BY DEF MeteredRooms, Meters
<1>4. \A x \in D : rows[x] \in Reading /\ Grows(rows[x])
  <2> SUFFICES ASSUME NEW x \in D PROVE rows[x] \in Reading /\ Grows(rows[x]) OBVIOUS
  <2>1. PreviousReading(m, x) \in Nat BY <1>3, PreviousReadingNat DEF Books
  <2>2. current[x] \in Nat BY ReadingsAssumption
  <2>3. current[x] - PreviousReading(m, x) >= 0 BY DEF SubmitAllReadingsRead
  <2>4. rows[x] = [prev |-> PreviousReading(m, x), cur |-> current[x], price |-> price] OBVIOUS
  <2> QED BY <2>1, <2>2, <2>3, <2>4 DEF Reading, Grows
<1>5. \A x \in D : rows[x].prev = PreviousReading(m, x) OBVIOUS
<1>6. DOMAIN rows = D /\ new.month = m /\ new.todo = D /\ new.new = rows OBVIOUS
<1>7. new \in SubRow
  <2>1. rows \in [D -> Reading] BY <1>4
  <2>2. rows \in NewReadings BY <1>3, <2>1 DEF NewReadings
  <2> HIDE DEF rows
  <2> QED BY <1>3, <2>2 DEF SubRow
<1> HIDE DEF rows, new
<1>8. ReadingsOK'
  <2>1. ASSUME NEW r \in Slots, Busy(r)'
        PROVE  /\ sub'[r].todo \subseteq DOMAIN sub'[r].new
               /\ \A x \in DOMAIN sub'[r].new : Grows(sub'[r].new[x])
    <3>1. CASE r = s BY <1>2, <1>4, <1>6, <3>1
    <3>2. CASE r # s BY <1>2, <2>1, <3>2 DEF Books, ReadingsOK, Busy
    <3> QED BY <3>1, <3>2
  <2>2. \A y \in Months, x \in Meters : Has(y, x)' => Grows(reading[y][x])'
    BY <1>1 DEF Books, ReadingsOK, Has, Grows
  <2> QED BY <2>1, <2>2 DEF ReadingsOK, Grows
<1>9. PendingChain'
  <2> SUFFICES ASSUME NEW r \in Slots, Busy(r)', NEW x \in sub'[r].todo,
                      sub'[r].month > 1, Has(sub[r].month - 1, x)',
                      <<sub'[r].month, x>> \notin late'
               PROVE  sub'[r].new[x].prev = reading'[sub'[r].month - 1][x].cur
    BY DEF PendingChain
  <2>1. CASE r = s
    <3>1. x \in D /\ x \in Meters /\ m > 1 /\ Has(m - 1, x) /\ <<m, x>> \notin late
          /\ sub'[r].new[x].prev = PreviousReading(m, x)
      BY <1>1, <1>2, <1>3, <1>5, <1>6, <2>1 DEF Has
    <3>2. PreviousReading(m, x) = reading[m - 1][x].cur
      BY <3>1 DEF PreviousReading, Books, ReadingsChain
    <3> QED BY <1>1, <1>2, <1>6, <2>1, <3>1, <3>2
  <2>2. CASE r # s
    BY <1>1, <1>2, <2>2 DEF Books, PendingChain, Has, Busy
  <2> QED BY <2>1, <2>2
<1>10. ReadingsChain' BY <1>1 DEF Books, ReadingsChain, Has
<1>11. sub' \in [Slots -> SubRow \cup {NoSub}] BY <1>1, <1>7 DEF Shapes
<1>12. Busy(s)' BY <1>2, <1>7, NoSubFacts DEF Busy
<1> QED BY <1>1, <1>2, <1>6, <1>8, <1>9, <1>10, <1>11, <1>12 DEF Books

LEMMA BooksAfterReading ==
    ASSUME Shapes, Books, NEW s \in Slots, NEW x \in Meters, SubmitReading(s, x)
    PROVE  /\ Books' /\ sub' \in [Slots -> SubRow \cup {NoSub}]
           /\ reading' \in [Months -> [Meters -> Opt(Reading)]]
           /\ \A r \in Slots : sub'[r].month = sub[r].month
           /\ sub[s].month \in Months
           /\ \A n \in Months : n # sub[s].month => reading'[n] = reading[n]
<1> DEFINE m == sub[s].month
           row == sub[s].new[x]
<1>1. /\ Busy(s) /\ x \in sub[s].todo /\ sub' = [sub EXCEPT ![s].todo = @ \ {x}]
      /\ reading' = [reading EXCEPT ![m][x] = row]
      /\ late \subseteq late'
      /\ m + 1 \in Months /\ (Has(m + 1, x) \/ SubmitsOf(m + 1) # {}) => <<m + 1, x>> \in late'
  BY DEF SubmitReading
<1>2. sub[s] \in SubRow /\ m \in Months /\ sub[s].todo \subseteq Meters
      /\ row \in Reading /\ Grows(row) /\ sub[s].todo \subseteq DOMAIN sub[s].new
  BY <1>1, SubFacts DEF Books, ReadingsOK
<1>3. /\ \A r \in Slots : r # s => sub'[r] = sub[r]
      /\ sub'[s] = [sub[s] EXCEPT !.todo = @ \ {x}]
  BY <1>1 DEF Shapes
<1>4. sub'[s].month = m /\ sub'[s].new = sub[s].new /\ sub'[s].todo = sub[s].todo \ {x}
      /\ sub'[s] \in SubRow
  BY <1>2, <1>3 DEF SubRow
<1>5. \A n \in Months, y \in Meters :
        reading'[n][y] = IF n = m /\ y = x THEN row ELSE reading[n][y]
  BY <1>1, <1>2 DEF Shapes
<1>6. \A n \in Months, y \in Meters :
        Has(n, y)' <=> (n = m /\ y = x) \/ Has(n, y)
  BY <1>2, <1>5, NoReadingAssumption DEF Has
<1>7. reading' \in [Months -> [Meters -> Opt(Reading)]]
  BY <1>1, <1>2 DEF Shapes, Opt
<1>8. \A r \in Slots : Busy(r)' => Busy(r) BY <1>1, <1>3 DEF Busy
<1>9. m \in Nat /\ m # m + 1 /\ m # m - 1 BY <1>2, MonthFacts
<1> HIDE DEF m, row
<1>10. ReadingsOK'
  <2>1. \A n \in Months, y \in Meters : Has(n, y)' => Grows(reading'[n][y])
    BY <1>2, <1>5, <1>6 DEF Books, ReadingsOK
  <2>2. \A r \in Slots : Busy(r)' =>
          /\ sub'[r].todo \subseteq DOMAIN sub'[r].new
          /\ \A y \in DOMAIN sub'[r].new : Grows(sub'[r].new[y])
    <3> SUFFICES ASSUME NEW r \in Slots, Busy(r)'
                 PROVE  /\ sub'[r].todo \subseteq DOMAIN sub'[r].new
                        /\ \A y \in DOMAIN sub'[r].new : Grows(sub'[r].new[y])
      OBVIOUS
    <3>1. CASE r = s BY <1>1, <1>2, <1>4, <3>1 DEF Books, ReadingsOK
    <3>2. CASE r # s BY <1>3, <1>8, <3>2 DEF Books, ReadingsOK
    <3> QED BY <3>1, <3>2
  <2> QED BY <2>1, <2>2 DEF ReadingsOK, Grows
<1>11. ReadingsChain'
  <2> SUFFICES ASSUME NEW n \in Months, NEW y \in Meters, n > 1, Has(n - 1, y)', Has(n, y)',
                      <<n, y>> \notin late'
               PROVE  reading'[n][y].prev = reading'[n - 1][y].cur
    BY DEF ReadingsChain
  <2>1. n - 1 \in Months /\ n \in Nat /\ <<n, y>> \notin late /\ n - 1 # n
    BY <1>1, MonthFacts
  <2>2. CASE n = m /\ y = x
    <3>1. Has(m - 1, x) /\ reading'[n - 1][y] = reading[m - 1][x]
      BY <1>5, <1>6, <1>9, <2>1, <2>2
    <3>2. row.prev = reading[m - 1][x].cur
      BY <1>1, <2>1, <2>2, <3>1 DEF Books, PendingChain, m, row
    <3> QED BY <1>5, <2>2, <3>1, <3>2
  <2>3. CASE n - 1 = m /\ y = x
    <3>1. n = m + 1 /\ Has(m + 1, x) BY <1>2, <1>6, <1>9, <2>1, <2>3
    <3> QED BY <1>1, <2>3, <3>1 DEF m
  <2>4. CASE ~(n = m /\ y = x) /\ ~(n - 1 = m /\ y = x)
    <3>1. Has(n - 1, y) /\ Has(n, y) /\ reading'[n - 1][y] = reading[n - 1][y]
          /\ reading'[n][y] = reading[n][y]
      BY <1>5, <1>6, <2>1, <2>4
    <3> QED BY <2>1, <3>1 DEF Books, ReadingsChain
  <2> QED BY <2>2, <2>3, <2>4
<1>12. PendingChain'
  <2> SUFFICES ASSUME NEW r \in Slots, Busy(r)', NEW y \in sub'[r].todo,
                      sub'[r].month > 1, Has(sub[r].month - 1, y)',
                      <<sub'[r].month, y>> \notin late'
               PROVE  sub'[r].new[y].prev = reading'[sub'[r].month - 1][y].cur
    BY DEF PendingChain
  <2> DEFINE n == sub[r].month
  <2>1. Busy(r) /\ y \in sub[r].todo /\ sub'[r].month = n /\ sub'[r].new = sub[r].new
    BY <1>3, <1>4, <1>8 DEF m
  <2>2. n \in Months /\ y \in Meters BY <2>1, SubFacts DEF Books
  <2>3. n > 1 /\ n - 1 \in Months /\ n \in Nat /\ reading'[n - 1][y] # None /\ <<n, y>> \notin late'
        /\ <<n, y>> \notin late
    BY <1>1, <2>1, <2>2, MonthFacts DEF Has
  <2>4. r \in SubmitsOf(n) BY DEF SubmitsOf
  <2> HIDE DEF n
  <2>5. CASE n - 1 = m /\ y = x
    <3>1. n = m + 1 BY <1>9, <2>3, <2>5
    <3> QED BY <1>1, <2>2, <2>3, <2>4, <2>5, <3>1 DEF m
  <2>6. CASE ~(n - 1 = m /\ y = x)
    <3>1. Has(n - 1, y) /\ reading'[n - 1][y] = reading[n - 1][y]
      BY <1>5, <2>2, <2>3, <2>6 DEF Has
    <3>2. sub[r].new[y].prev = reading[n - 1][y].cur
      BY <2>1, <2>3, <3>1 DEF Books, PendingChain, n
    <3> QED BY <2>1, <3>1, <3>2
  <2> QED BY <2>5, <2>6
<1>13. sub' \in [Slots -> SubRow \cup {NoSub}] BY <1>1, <1>3, <1>4 DEF Shapes
<1>14. \A n \in Months : n # m => reading'[n] = reading[n] BY <1>1 DEF Shapes, m
<1>15. \A r \in Slots : sub'[r].month = sub[r].month BY <1>3, <1>4 DEF m
<1> QED BY <1>2, <1>7, <1>10, <1>11, <1>12, <1>13, <1>14, <1>15 DEF Books, m

-----------------------------------------------------------------------------
(* The submissions of a month may begin, and those of a disturbed month    *)
(* end, and a run that is not COMPLETED may change.                        *)
LEMMA LedgerKept ==
    ASSUME Shapes, Ledger, UNCHANGED <<world, dues, job>>,
           disturbed \subseteq disturbed', DOMAIN tally \subseteq DOMAIN tally',
           \A m \in Months \ disturbed' :
             /\ run'[m] = "COMPLETED" /\ SubmitsOf(m)' = {} =>
                  run[m] = "COMPLETED" /\ SubmitsOf(m) = {} /\ reading'[m] = reading[m]
             /\ BillsOf(m) # {} => reading'[m] = reading[m]
    PROVE  Ledger'
<1>1. Numbered' BY DEF Ledger, Numbered, Enqueued
<1>2. \A j \in JobIds : JobOK(j)'
  BY DEF Ledger, JobOK, FairBill, FairPair, StaysAsLong
<1>3. \A d \in dues' : DueOK(d)' BY DEF Ledger, DueOK, Created
<1>4. FairShares' BY DEF Ledger, FairShares, StaysAsLong
<1>5. \A m \in Months : BillsOf(m)' = BillsOf(m) BY DEF BillsOf
<1>6. ASSUME NEW m \in Months, reading'[m] = reading[m]
      PROVE  Consumed(m, Main)' = Consumed(m, Main) /\ UnitPrice(m)' = UnitPrice(m)
  BY <1>6 DEF Consumed, UnitPrice
<1>7. BilledOnceAsRead'
  BY <1>6 DEF Ledger, BilledOnceAsRead
<1>8. BillsOK'
  <2> SUFFICES ASSUME NEW m \in Months \ disturbed', NEW j \in BillsOf(m)
               PROVE  /\ job[j].cost = (Consumed(m, Main) * UnitPrice(m))'
                      /\ \A d \in dues : d.id.month = m =>
                           d.status = "UNPAID" /\ (job[j].stage = "deleted" => d.id \in job[j].found)
    BY <1>5 DEF BillsOK, BillOK
  <2>1. reading'[m] = reading[m] /\ m \notin disturbed OBVIOUS
  <2>2. BillOK(m) BY <2>1 DEF Ledger, BillsOK
  <2> QED BY <1>6, <2>1, <2>2 DEF BillOK
<1>9. AnnouncedUnlessInterrupted' BY DEF Ledger, AnnouncedUnlessInterrupted
<1> QED BY <1>1, <1>2, <1>3, <1>4, <1>7, <1>8, <1>9 DEF Ledger

(* What an attempt that goes from job[j] to row must guarantee.            *)
Retries(j, row) == row.tries = job[j].tries + 1
Advances(j, row) ==
    /\ row.tries = job[j].tries
    /\ \/ job[j].stage \in {"queued", "read", "deleted"} /\ row.stage \in {"read", "deleted", "done"}
       \/ job[j].stage = "committed" /\ row.stage = "done"

(* A job goes on and changes nothing but itself and the counters.          *)
LEMMA LedgerAfterJob ==
    ASSUME Shapes, Ledger, NEW j \in JobIds, NEW row \in JobRow,
           job' = [job EXCEPT ![j] = row],
           UNCHANGED <<world, reading, run, dues, sub, disturbed>>,
           DOMAIN tally \subseteq DOMAIN tally',
           job[j].stage # "none", row.stage # "none", row.month = job[j].month,
           row.held \subseteq row.found, FairBill(row.shares),
           row.stage \in Computing \cup {"queued", "committed"} => row.tries < Attempts,
           Retries(j, row) \/ Advances(j, row),
           "metrics" \in world.ops /\ job[j].stage = "committed" /\ Advances(j, row) =>
               {d.id : d \in Created(j)} \subseteq DOMAIN tally',
           row.stage \in Computing /\ row.month \in Months \ disturbed =>
             /\ row.cost = Consumed(row.month, Main) * UnitPrice(row.month)
             /\ \A d \in dues : d.id.month = row.month =>
                  d.status = "UNPAID" /\ (row.stage = "deleted" => d.id \in row.found)
    PROVE  Ledger' /\ job' \in [JobIds -> JobRow]
<1>1. job' \in [JobIds -> JobRow] /\ \A k \in JobIds : job'[k] = IF k = j THEN row ELSE job[k]
  BY DEF Shapes
<1>2. Numbered'
  <2>1. \A k \in JobIds : job'[k].stage # "none" <=> job[k].stage # "none" BY <1>1
  <2>2. Enqueued' = Enqueued BY <2>1 DEF Enqueued
  <2> QED BY <2>2 DEF Ledger, Numbered
<1>3. \A s : FairBill(s)' <=> FairBill(s) BY DEF FairBill, FairPair, StaysAsLong
<1>4. \A k \in JobIds : JobOK(k)'
  <2> SUFFICES ASSUME NEW k \in JobIds PROVE JobOK(k)' OBVIOUS
  <2>1. CASE k = j
    <3>1. job[j].month \in Months BY DEF Ledger, JobOK
    <3>2. FairBill(row.shares)' BY <1>3
    <3> QED BY <1>1, <2>1, <3>1, <3>2 DEF JobOK, FairBill, FairPair, StaysAsLong
  <2>2. CASE k # j
    <3>1. job'[k] = job[k] /\ JobOK(k) BY <1>1, <2>2 DEF Ledger
    <3> QED BY <3>1 DEF JobOK, FairBill, FairPair, StaysAsLong
  <2> QED BY <2>1, <2>2
<1>5. job[j].tries \in Nat /\ row.tries \in Nat BY JobFacts, MonthFacts DEF JobRow
<1>6. ASSUME NEW d \in dues PROVE DueOK(d)'
  <2> DEFINE k == d.id.job
  <2>1. k \in JobIds /\ d.id.try \in Nat /\ DueOK(d) BY DueFacts DEF Ledger
  <2>2. CASE k = j
    <3>1. d.id.month = row.month /\ d.id.try <= job[j].tries
      BY <2>1, <2>2 DEF DueOK
    <3>2. CASE Retries(j, row)
      BY <1>1, <1>5, <2>1, <2>2, <3>1, <3>2 DEF DueOK, Retries
    <3>3. CASE Advances(j, row)
      <4>1. d.id.try = row.tries => row.stage = "done"
        BY <2>1, <2>2, <3>3 DEF DueOK, Advances
      <4> QED BY <1>1, <2>1, <2>2, <3>1, <3>3, <4>1 DEF DueOK, Advances
    <3> QED BY <3>2, <3>3
  <2>3. CASE k # j
    <3>1. job'[k] = job[k] /\ Created(k)' = Created(k) BY <1>1, <2>1, <2>3 DEF Created
    <3> QED BY <2>1, <3>1 DEF DueOK
  <2> QED BY <2>2, <2>3
<1>7. FairShares' BY DEF Ledger, FairShares, StaysAsLong
<1>8. BilledOnceAsRead'
  BY DEF Ledger, BilledOnceAsRead, Consumed, UnitPrice, SubmitsOf
<1>9. BillsOK'
  <2> SUFFICES ASSUME NEW m \in Months \ disturbed, NEW k \in BillsOf(m)'
               PROVE  /\ job'[k].cost = Consumed(m, Main) * UnitPrice(m)
                      /\ \A d \in dues : d.id.month = m =>
                           d.status = "UNPAID"
                           /\ (job'[k].stage = "deleted" => d.id \in job'[k].found)
    BY DEF BillsOK, BillOK, Consumed, UnitPrice
  <2>1. k \in JobIds /\ job'[k].month = m /\ job'[k].stage \in Computing BY DEF BillsOf
  <2>2. CASE k = j BY <1>1, <2>1, <2>2
  <2>3. CASE k # j
    <3>1. job'[k] = job[k] /\ k \in BillsOf(m) BY <1>1, <2>1, <2>3 DEF BillsOf
    <3> QED BY <3>1 DEF Ledger, BillsOK, BillOK
  <2> QED BY <2>2, <2>3
<1>10. AnnouncedUnlessInterrupted'
  <2> SUFFICES ASSUME "metrics" \in world.ops, NEW d \in dues
               PROVE  \/ d.id \in DOMAIN tally'
                      \/ job'[d.id.job].stage = "committed"
                      \/ job'[d.id.job].tries > d.id.try
    BY DEF AnnouncedUnlessInterrupted
  <2> DEFINE k == d.id.job
  <2>1. k \in JobIds /\ d.id.try \in Nat /\ DueOK(d) BY DueFacts DEF Ledger
  <2>2. \/ d.id \in DOMAIN tally \/ job[k].stage = "committed" \/ job[k].tries > d.id.try
    BY DEF Ledger, AnnouncedUnlessInterrupted
  <2>3. CASE k # j BY <1>1, <2>1, <2>2, <2>3
  <2>4. CASE k = j /\ Retries(j, row)
    BY <1>1, <1>5, <2>1, <2>4 DEF DueOK, Retries
  <2>5. CASE k = j /\ Advances(j, row)
    <3>1. d.id.try = job[j].tries /\ job[j].stage = "committed" => d.id \in {e.id : e \in Created(j)}
      BY <2>1, <2>5 DEF DueOK
    <3>2. d.id.try <= job[j].tries /\ row.tries = job[j].tries
      BY <2>1, <2>5 DEF DueOK, Advances
    <3> QED BY <1>1, <1>5, <2>1, <2>2, <2>5, <3>1, <3>2
  <2> QED BY <2>3, <2>4, <2>5
<1> QED BY <1>1, <1>2, <1>4, <1>6, <1>7, <1>8, <1>9, <1>10 DEF Ledger

(* A submission ends and enqueues a job, or loses it.                      *)
LEMMA LedgerAfterEnqueue ==
    ASSUME Shapes, Ledger, NEW s \in Slots, NEW m \in Months, sub[s].month = m,
           NEW stage \in {"queued", "lost"},
           job' = [job EXCEPT ![Cardinality(Enqueued) + 1] =
                     [NoJob EXCEPT !.stage = stage, !.month = m]],
           sub' = [sub EXCEPT ![s] = NoSub],
           UNCHANGED <<world, reading, dues, tally>>, disturbed \subseteq disturbed',
           \A n \in Months \ {m} : run'[n] = run[n],
           run'[m] # "COMPLETED" \/ m \in disturbed'
    PROVE  Ledger' /\ job' \in [JobIds -> JobRow]
<1> DEFINE new == [NoJob EXCEPT !.stage = stage, !.month = m]
<1>1. PICK n \in 0..MaxJobs : Enqueued = 1..n BY DEF Ledger, Numbered
<1>2. n \in Nat /\ MaxJobs \in Nat /\ n <= MaxJobs BY JobsAssumption
<1>3. Cardinality(Enqueued) = n
  <2>1. 1 \in Int /\ n \in Int BY <1>2
  <2>2. Cardinality(1..n) = IF 1 > n THEN 0 ELSE n - 1 + 1 BY <2>1, FS_Interval, Zenon
  <2> QED BY <1>1, <1>2, <2>2
<1>4. /\ new \in JobRow /\ new.stage = stage /\ new.month = m /\ new.tries = 0 /\ new.shares = {}
      /\ new.held = {} /\ new.found = {}
  <2>1. NoJob \in JobRow BY NoJobFacts
  <2>2. 0 \in 0..Attempts /\ m \in Opt(Months) /\ stage \in JobStages
    BY MonthFacts DEF Opt, JobStages
  <2> QED BY <2>1, <2>2, NoJobFacts DEF JobRow
<1> HIDE DEF new
<1>5. job' = [job EXCEPT ![n + 1] = new] BY <1>3 DEF new
<1>6. job' \in [JobIds -> JobRow] /\ \A k \in JobIds : job'[k] = IF k = n + 1 THEN new ELSE job[k]
  BY <1>4, <1>5 DEF Shapes
<1>7. \A k \in JobIds : k = n + 1 => job[k] = NoJob /\ job[k].month = None
  <2> SUFFICES ASSUME NEW k \in JobIds, k = n + 1 PROVE job[k] = NoJob /\ job[k].month = None
    OBVIOUS
  <2>1. k \notin Enqueued BY <1>1, <1>2
  <2>2. job[k].stage = "none" BY <2>1 DEF Enqueued
  <2>3. job[k] = NoJob BY <2>2 DEF Ledger, JobOK
  <2> QED BY <2>3 DEF NoJob
<1>8. Numbered'
  <2>1. \A k \in JobIds : k \in Enqueued' <=> k \in Enqueued \/ k = n + 1
    BY <1>4, <1>6 DEF Enqueued
  <2>2. CASE n + 1 \in JobIds
    <3>1. 1..(n + 1) \subseteq JobIds /\ \A k \in JobIds : k \in 1..(n + 1) <=> k \in 1..n \/ k = n + 1
      BY <1>2, <2>2 DEF JobIds
    <3>2. Enqueued' \subseteq JobIds BY DEF Enqueued
    <3>3. Enqueued' = 1..(n + 1) BY <1>1, <2>1, <3>1, <3>2
    <3>4. n + 1 \in 0..MaxJobs BY <1>2, <2>2 DEF JobIds
    <3> QED BY <3>3, <3>4 DEF Numbered
  <2>3. CASE n + 1 \notin JobIds
    <3>1. Enqueued' = 1..n BY <1>1, <2>1, <2>3 DEF Enqueued
    <3> QED BY <3>1 DEF Numbered
  <2> QED BY <2>2, <2>3
<1>9. \A k \in JobIds : JobOK(k)'
  <2> SUFFICES ASSUME NEW k \in JobIds PROVE JobOK(k)' OBVIOUS
  <2>1. CASE k = n + 1
    <3>1. job'[k] = new /\ 0 < Attempts /\ new.stage # "none" /\ new.stage \notin Computing
      BY <1>4, <1>6, <2>1, AttemptsAssumption DEF Computing
    <3> QED BY <1>4, <3>1 DEF JobOK, FairBill
  <2>2. CASE k # n + 1
    <3>1. job'[k] = job[k] /\ JobOK(k) BY <1>6, <2>2 DEF Ledger
    <3> QED BY <3>1 DEF JobOK, FairBill, FairPair, StaysAsLong
  <2> QED BY <2>1, <2>2
<1>10. \A d \in dues : d.id.job \in JobIds /\ d.id.job # n + 1
  BY <1>7, DueFacts, MonthFacts DEF Ledger, DueOK
<1>11. \A d \in dues : DueOK(d)'
  <2> SUFFICES ASSUME NEW d \in dues PROVE DueOK(d)' OBVIOUS
  <2>1. job'[d.id.job] = job[d.id.job] /\ DueOK(d) BY <1>6, <1>10 DEF Ledger
  <2>2. Created(d.id.job)' = Created(d.id.job) BY <2>1 DEF Created
  <2> QED BY <2>1, <2>2 DEF DueOK
<1>12. FairShares' BY DEF Ledger, FairShares, StaysAsLong
<1>13. BilledOnceAsRead'
  <2>1. ASSUME NEW p \in Months \ disturbed', run'[p] = "COMPLETED", SubmitsOf(p)' = {}
        PROVE  run[p] = "COMPLETED" /\ SubmitsOf(p) = {}
    <3>1. p # m /\ run'[p] = run[p] BY <2>1
    <3>2. \A r \in Slots : r # s => sub'[r] = sub[r] BY DEF Shapes
    <3> QED BY <2>1, <3>1, <3>2 DEF SubmitsOf
  <2> QED BY <2>1 DEF Ledger, BilledOnceAsRead, Consumed, UnitPrice
<1>14. BillsOK'
  <2> SUFFICES ASSUME NEW p \in Months \ disturbed', NEW k \in BillsOf(p)'
               PROVE  /\ job'[k].cost = Consumed(p, Main) * UnitPrice(p)
                      /\ \A d \in dues : d.id.month = p =>
                           d.status = "UNPAID"
                           /\ (job'[k].stage = "deleted" => d.id \in job'[k].found)
    BY DEF BillsOK, BillOK, Consumed, UnitPrice
  <2>1. k \in JobIds /\ job'[k].month = p /\ job'[k].stage \in Computing BY DEF BillsOf
  <2>2. job'[k] = job[k] /\ k \in BillsOf(p) BY <1>4, <1>6, <2>1 DEF BillsOf, Computing
  <2> QED BY <2>2 DEF Ledger, BillsOK, BillOK
<1>15. AnnouncedUnlessInterrupted'
  BY <1>6, <1>10 DEF Ledger, AnnouncedUnlessInterrupted
<1> QED BY <1>6, <1>8, <1>9, <1>11, <1>12, <1>13, <1>14, <1>15 DEF Ledger

(* A due keeps its id, its amount and its cost.                            *)
LEMMA LedgerAfterPayment ==
    ASSUME Shapes, Ledger, NEW d \in dues, NEW e \in Due,
           e.id = d.id, e.amount = d.amount, e.cost = d.cost,
           dues' = (dues \ {d}) \cup {e},
           UNCHANGED <<world, reading, run, sub, job, tally>>, disturbed \subseteq disturbed',
           e.status = d.status \/ BillsOf(d.id.month) = {} \/ d.id.month \in disturbed'
    PROVE  Ledger' /\ dues' \subseteq Due
<1>1. ASSUME NEW x \in dues'
      PROVE  \E y \in dues : /\ x.id = y.id /\ x.amount = y.amount /\ x.cost = y.cost
                             /\ (IF y = d THEN x = e ELSE x = y)
  OBVIOUS
<1>2. Numbered' BY DEF Ledger, Numbered, Enqueued
<1>3. \A j \in JobIds : JobOK(j)'
  BY DEF Ledger, JobOK, FairBill, FairPair, StaysAsLong
<1>4. ASSUME NEW x \in dues' PROVE DueOK(x)'
  <2>1. PICK y \in dues : x.id = y.id BY <1>1
  <2>2. DueOK(y) BY DEF Ledger
  <2> QED BY <2>1, <2>2 DEF DueOK, Created
<1>5. FairShares'
  <2> SUFFICES ASSUME NEW x \in dues', NEW y \in dues',
                      x.id.month = y.id.month, x.id.job = y.id.job, x.id.try = y.id.try,
                      x.id.kind = y.id.kind
               PROVE  IF x.id.kind = "SHARED_POOL"
                      THEN StaysAsLong(x.id.tenancy, y.id.tenancy) => y.amount <= x.amount + 1
                      ELSE world.population[x.id.tenancy].room = world.population[y.id.tenancy].room
                           => y.amount <= x.amount + 1
    BY DEF FairShares, StaysAsLong
  <2>1. PICK p \in dues : x.id = p.id /\ x.amount = p.amount BY <1>1
  <2>2. PICK q \in dues : y.id = q.id /\ y.amount = q.amount BY <1>1
  <2> QED BY <2>1, <2>2 DEF Ledger, FairShares
<1>6. BilledOnceAsRead'
  <2>1. ASSUME NEW m \in Months \ disturbed', NEW x \in dues', NEW y \in dues',
               x.id.month = m, y.id.month = m, x.id.tenancy = y.id.tenancy, x.id.kind = y.id.kind
        PROVE  x = y
    <3>1. PICK p \in dues : x.id = p.id /\ (IF p = d THEN x = e ELSE x = p) BY <1>1
    <3>2. PICK q \in dues : y.id = q.id /\ (IF q = d THEN y = e ELSE y = q) BY <1>1
    <3>3. p = q BY <2>1, <3>1, <3>2 DEF Ledger, BilledOnceAsRead
    <3> QED BY <3>1, <3>2, <3>3
  <2>2. ASSUME NEW m \in Months \ disturbed', run[m] = "COMPLETED", SubmitsOf(m) = {},
               NEW x \in dues', x.id.month = m
        PROVE  x.cost = Consumed(m, Main) * UnitPrice(m)
    <3>1. PICK p \in dues : x.id = p.id /\ x.cost = p.cost BY <1>1
    <3> QED BY <2>2, <3>1 DEF Ledger, BilledOnceAsRead
  <2> QED BY <2>1, <2>2 DEF BilledOnceAsRead, Consumed, UnitPrice, SubmitsOf
<1>7. BillsOK'
  <2> SUFFICES ASSUME NEW m \in Months \ disturbed', NEW j \in BillsOf(m)
               PROVE  /\ job[j].cost = Consumed(m, Main) * UnitPrice(m)
                      /\ \A x \in dues' : x.id.month = m =>
                           x.status = "UNPAID" /\ (job[j].stage = "deleted" => x.id \in job[j].found)
    BY DEF BillsOK, BillOK, BillsOf, Consumed, UnitPrice
  <2>1. BillOK(m) BY DEF Ledger, BillsOK
  <2>2. ASSUME NEW x \in dues', x.id.month = m
        PROVE  x.status = "UNPAID" /\ (job[j].stage = "deleted" => x.id \in job[j].found)
    <3>1. PICK p \in dues : x.id = p.id /\ (IF p = d THEN x = e ELSE x = p) BY <1>1
    <3>2. x.status = p.status BY <2>2, <3>1
    <3> QED BY <2>1, <2>2, <3>1, <3>2 DEF BillOK
  <2> QED BY <2>1, <2>2 DEF BillOK
<1>8. AnnouncedUnlessInterrupted'
  <2> SUFFICES ASSUME "metrics" \in world.ops, NEW x \in dues'
               PROVE  \/ x.id \in DOMAIN tally
                      \/ job[x.id.job].stage = "committed"
                      \/ job[x.id.job].tries > x.id.try
    BY DEF AnnouncedUnlessInterrupted
  <2>1. PICK p \in dues : x.id = p.id BY <1>1
  <2> QED BY <2>1 DEF Ledger, AnnouncedUnlessInterrupted
<1>9. dues' \subseteq Due BY DEF Shapes
<1> QED BY <1>2, <1>3, <1>4, <1>5, <1>6, <1>7, <1>8, <1>9 DEF Ledger

LEMMA CreatedFacts ==
    ASSUME Shapes, NEW j \in JobIds, job[j].month \in Months
    PROVE  \A e \in Created(j) :
             /\ e \in Due /\ e.id \in DueIds
             /\ e.id.month = job[j].month /\ e.id.job = j /\ e.id.try = job[j].tries
             /\ e.cost = job[j].cost /\ e.status = "UNPAID"
             /\ \E share \in job[j].shares :
                  /\ share.tenancy = e.id.tenancy /\ share.kind = e.id.kind
                  /\ share.amount = e.amount
<1> SUFFICES ASSUME NEW e \in Created(j)
             PROVE  /\ e \in Due /\ e.id \in DueIds
                    /\ e.id.month = job[j].month /\ e.id.job = j /\ e.id.try = job[j].tries
                    /\ e.cost = job[j].cost /\ e.status = "UNPAID"
                    /\ \E share \in job[j].shares :
                         /\ share.tenancy = e.id.tenancy /\ share.kind = e.id.kind
                         /\ share.amount = e.amount
  OBVIOUS
<1>1. PICK share \in job[j].shares :
        e = [id |-> [month |-> job[j].month, job |-> j, try |-> job[j].tries,
                     tenancy |-> share.tenancy, kind |-> share.kind],
             amount |-> share.amount, status |-> "UNPAID", line |-> FALSE, named |-> FALSE,
             cost |-> job[j].cost]
  BY DEF Created
<1>2. share \in Share /\ job[j].cost \in Nat /\ job[j].tries \in 0..Attempts BY JobFacts
<1>3. share.tenancy \in Tenancies /\ share.kind \in Kinds /\ share.amount \in Nat
  BY <1>2 DEF Share
<1>4. e.id \in DueIds BY <1>1, <1>2, <1>3 DEF DueIds
<1>5. e \in Due BY <1>1, <1>2, <1>3, <1>4 DEF Due
<1> QED BY <1>1, <1>4, <1>5

(* A bill is inserted in the place of the dues it found.                   *)
LEMMA LedgerAfterCommit ==
    ASSUME Shapes, Ledger, NEW j \in JobIds, RunBillingCommit(j), UNCHANGED world
    PROVE  Ledger' /\ job' \in [JobIds -> JobRow] /\ dues' \subseteq Due
<1> DEFINE m == job[j].month
           row == [job[j] EXCEPT !.stage = "committed", !.held = {}]
<1>1. /\ job[j].stage = "deleted"
      /\ dues' = {d \in dues : ~Old(d, job[j].found)} \cup Created(j)
      /\ run' = [run EXCEPT ![m] = "COMPLETED"]
      /\ job' = [job EXCEPT ![j] = row]
      /\ disturbed' = IF SubmitsOf(m) # {} \/ BillsOf(m) # {j} THEN disturbed \cup {m}
                                                            ELSE disturbed
      /\ UNCHANGED <<reading, sub, tally>>
  <2>1. job' = [job EXCEPT ![j].stage = "committed", ![j].held = {}]
    BY DEF RunBillingCommit
  <2>2. job' = [job EXCEPT ![j] = row] BY <2>1 DEF Shapes
  <2> QED BY <2>2 DEF RunBillingCommit, meters, counters
<1>2. job[j] \in JobRow /\ row \in JobRow BY JobFacts DEF JobRow, JobStages
<1>3. /\ row.stage = "committed" /\ row.month = m /\ row.tries = job[j].tries
      /\ row.shares = job[j].shares /\ row.cost = job[j].cost /\ row.held = {}
      /\ row.found = job[j].found
  BY <1>2 DEF JobRow
<1> HIDE DEF row
<1>4. job' \in [JobIds -> JobRow] /\ \A k \in JobIds : job'[k] = IF k = j THEN row ELSE job[k]
  BY <1>1, <1>2 DEF Shapes
<1>5. m \in Months BY <1>1 DEF Ledger, JobOK
<1>6. \A k \in JobIds : Created(k)' = Created(k)
  BY <1>3, <1>4 DEF Created
<1>7. dues' \subseteq Due BY <1>1, <1>5, CreatedFacts DEF Shapes
<1>8. ASSUME NEW d \in dues, d.id.job = j
      PROVE  d.id.try \in Nat /\ job[j].tries \in Nat /\ d.id.try < job[j].tries
  BY <1>1, <1>8, DueFacts, JobFacts DEF Ledger, DueOK
<1>9. Numbered'
  <2>1. \A k \in JobIds : job'[k].stage # "none" <=> job[k].stage # "none" BY <1>1, <1>3, <1>4
  <2>2. Enqueued' = Enqueued BY <2>1 DEF Enqueued
  <2> QED BY <2>2 DEF Ledger, Numbered
<1>10. \A k \in JobIds : JobOK(k)'
  <2> SUFFICES ASSUME NEW k \in JobIds PROVE JobOK(k)' OBVIOUS
  <2>1. JobOK(k) BY DEF Ledger
  <2>2. CASE k = j
    <3>1. job[j].tries < Attempts /\ FairBill(job[j].shares)
      BY <1>1, <2>1, <2>2 DEF JobOK, Computing
    <3> QED BY <1>3, <1>4, <1>5, <2>2, <3>1 DEF JobOK, FairBill, FairPair, StaysAsLong
  <2>3. CASE k # j
    <3>1. job'[k] = job[k] BY <1>4, <2>3
    <3> QED BY <2>1, <3>1 DEF JobOK, FairBill, FairPair, StaysAsLong
  <2> QED BY <2>2, <2>3
<1>11. ASSUME NEW d \in dues' PROVE DueOK(d)'
  <2>1. CASE d \in Created(j)
    <3>1. d.id.month = m /\ d.id.job = j /\ d.id.try = row.tries
      BY <1>3, <1>5, <2>1, CreatedFacts
    <3>2. d.id \in {e.id : e \in Created(j)'} BY <1>6, <2>1
    <3>3. row.tries \in Nat BY <1>3, JobFacts
    <3> QED BY <1>3, <1>4, <3>1, <3>2, <3>3 DEF DueOK
  <2>2. CASE d \in dues
    <3> DEFINE k == d.id.job
    <3>1. k \in JobIds /\ DueOK(d) BY <2>2, DueFacts DEF Ledger
    <3>2. CASE k = j
      BY <1>3, <1>4, <1>8, <2>2, <3>1, <3>2 DEF DueOK
    <3>3. CASE k # j
      <4>1. job'[k] = job[k] /\ Created(k)' = Created(k) BY <1>4, <1>6, <3>1, <3>3
      <4> QED BY <3>1, <4>1 DEF DueOK
    <3> QED BY <3>2, <3>3
  <2> QED BY <1>1, <2>1, <2>2
<1>12. FairShares'
  <2> SUFFICES ASSUME NEW d \in dues', NEW e \in dues',
                      d.id.month = e.id.month, d.id.job = e.id.job, d.id.try = e.id.try,
                      d.id.kind = e.id.kind
               PROVE  IF d.id.kind = "SHARED_POOL"
                      THEN StaysAsLong(d.id.tenancy, e.id.tenancy) => e.amount <= d.amount + 1
                      ELSE world.population[d.id.tenancy].room = world.population[e.id.tenancy].room
                           => e.amount <= d.amount + 1
    BY DEF FairShares, StaysAsLong
  <2>1. CASE d \in dues /\ e \in dues BY <2>1 DEF Ledger, FairShares
  <2>2. CASE d \in Created(j) /\ e \in Created(j)
    <3>1. PICK a \in job[j].shares :
            a.tenancy = d.id.tenancy /\ a.kind = d.id.kind /\ a.amount = d.amount
      BY <1>5, <2>2, CreatedFacts
    <3>2. PICK b \in job[j].shares :
            b.tenancy = e.id.tenancy /\ b.kind = e.id.kind /\ b.amount = e.amount
      BY <1>5, <2>2, CreatedFacts
    <3>3. FairPair(a, b) BY <3>1, <3>2 DEF Ledger, JobOK, FairBill
    <3> QED BY <3>1, <3>2, <3>3 DEF FairPair
  <2>3. ~(d \in dues /\ e \in Created(j)) /\ ~(e \in dues /\ d \in Created(j))
    BY <1>5, <1>8, CreatedFacts
  <2> QED BY <1>1, <2>1, <2>2, <2>3
<1>13. \A x \in dues' : x \in dues \/ x \in Created(j) BY <1>1
<1>14. \A p \in Months : p # m => \A x \in dues' : x.id.month = p => x \in dues
  BY <1>5, <1>13, CreatedFacts
<1>15. ASSUME m \notin disturbed'
       PROVE  \A x \in dues' : x.id.month = m => x \in Created(j)
  <2>1. m \notin disturbed /\ j \in BillsOf(m) BY <1>1, <1>15 DEF BillsOf, Computing
  <2>2. \A d \in dues : d.id.month = m => d.status = "UNPAID" /\ d.id \in job[j].found
    BY <1>1, <1>5, <2>1 DEF Ledger, BillsOK, BillOK
  <2> QED BY <1>1, <2>2 DEF Old
<1>16. BilledOnceAsRead'
  <2>1. ASSUME NEW p \in Months \ disturbed', NEW x \in dues', NEW y \in dues',
               x.id.month = p, y.id.month = p, x.id.tenancy = y.id.tenancy, x.id.kind = y.id.kind
        PROVE  x = y
    <3>1. CASE p # m
      <4>1. x \in dues /\ y \in dues /\ p \notin disturbed BY <1>1, <1>14, <2>1, <3>1
      <4> QED BY <2>1, <4>1 DEF Ledger, BilledOnceAsRead
    <3>2. CASE p = m
      <4>1. x \in Created(j) /\ y \in Created(j) BY <1>15, <2>1, <3>2
      <4>2. PICK a \in job[j].shares :
              x = [id |-> [month |-> job[j].month, job |-> j, try |-> job[j].tries,
                           tenancy |-> a.tenancy, kind |-> a.kind],
                   amount |-> a.amount, status |-> "UNPAID", line |-> FALSE,
                   named |-> FALSE, cost |-> job[j].cost]
        BY <4>1 DEF Created
      <4>3. PICK b \in job[j].shares :
              y = [id |-> [month |-> job[j].month, job |-> j, try |-> job[j].tries,
                           tenancy |-> b.tenancy, kind |-> b.kind],
                   amount |-> b.amount, status |-> "UNPAID", line |-> FALSE,
                   named |-> FALSE, cost |-> job[j].cost]
        BY <4>1 DEF Created
      <4>4. a.tenancy = b.tenancy /\ a.kind = b.kind BY <2>1, <4>2, <4>3
      <4>5. a = b BY <4>4 DEF Ledger, JobOK, FairBill
      <4> QED BY <4>2, <4>3, <4>5
    <3> QED BY <3>1, <3>2
  <2>2. ASSUME NEW p \in Months \ disturbed', run'[p] = "COMPLETED", SubmitsOf(p) = {},
               NEW x \in dues', x.id.month = p
        PROVE  x.cost = Consumed(p, Main) * UnitPrice(p)
    <3>1. CASE p # m
      <4>1. x \in dues /\ p \notin disturbed /\ run[p] = "COMPLETED"
        BY <1>1, <1>14, <2>2, <3>1 DEF Shapes
      <4> QED BY <2>2, <4>1 DEF Ledger, BilledOnceAsRead
    <3>2. CASE p = m
      <4>1. x \in Created(j) /\ m \notin disturbed /\ j \in BillsOf(m)
        BY <1>1, <1>15, <2>2, <3>2 DEF BillsOf, Computing
      <4>2. x.cost = job[j].cost BY <1>5, <4>1, CreatedFacts
      <4> QED BY <1>5, <3>2, <4>1, <4>2 DEF Ledger, BillsOK, BillOK
    <3> QED BY <3>1, <3>2
  <2> QED BY <1>1, <2>1, <2>2 DEF BilledOnceAsRead, Consumed, UnitPrice, SubmitsOf
<1>17. BillsOK'
  <2> SUFFICES ASSUME NEW p \in Months \ disturbed', NEW k \in BillsOf(p)'
               PROVE  /\ job'[k].cost = Consumed(p, Main) * UnitPrice(p)
                      /\ \A x \in dues' : x.id.month = p =>
                           x.status = "UNPAID"
                           /\ (job'[k].stage = "deleted" => x.id \in job'[k].found)
    BY <1>1 DEF BillsOK, BillOK, Consumed, UnitPrice
  <2>1. k \in JobIds /\ job'[k].month = p /\ job'[k].stage \in Computing BY DEF BillsOf
  <2>2. k # j /\ job'[k] = job[k] /\ k \in BillsOf(p)
    BY <1>3, <1>4, <2>1 DEF BillsOf, Computing
  <2>3. p # m BY <1>1, <2>2
  <2>4. p \notin disturbed /\ BillOK(p) BY <1>1 DEF Ledger, BillsOK
  <2> QED BY <1>14, <2>2, <2>3, <2>4 DEF BillOK
<1>18. AnnouncedUnlessInterrupted'
  <2> SUFFICES ASSUME "metrics" \in world.ops, NEW d \in dues'
               PROVE  \/ d.id \in DOMAIN tally
                      \/ job'[d.id.job].stage = "committed"
                      \/ job'[d.id.job].tries > d.id.try
    BY <1>1 DEF AnnouncedUnlessInterrupted
  <2>1. CASE d \in Created(j) BY <1>3, <1>4, <1>5, <2>1, CreatedFacts
  <2>2. CASE d \in dues
    <3>1. d.id.job \in JobIds BY <2>2, DueFacts
    <3>2. CASE d.id.job = j BY <1>3, <1>4, <1>8, <2>2, <3>2
    <3>3. CASE d.id.job # j
      BY <1>4, <2>2, <3>1, <3>3 DEF Ledger, AnnouncedUnlessInterrupted
    <3> QED BY <3>2, <3>3
  <2> QED BY <1>13, <2>1, <2>2
<1> QED BY <1>4, <1>7, <1>9, <1>10, <1>11, <1>12, <1>16, <1>17, <1>18 DEF Ledger

-----------------------------------------------------------------------------
(* The counters.                                                           *)
LEMMA CountersKept == ASSUME Counters, UNCHANGED tally PROVE Counters'
BY DEF Counters, CountedPerAttempt, TallyOK

(* What holds of one due and its job.                                      *)
RowOK(row) ==
    /\ row \in Tally
    /\ row.cache <= row.rows
    /\ row.rows <= row.tries + IF row.stage \in {"waiting", "dead"} THEN 0 ELSE 1
    /\ row.stage = "done" => row.cache > 0
    /\ row.stage \notin Ended => row.tries < Attempts
    /\ row.stage = "rows" => row.cache < row.rows
    /\ row.stage = "cache" => row.cache > 0

LEMMA CountersByRow ==
    Counters <=> /\ tally \in [DOMAIN tally -> Tally] /\ DOMAIN tally \subseteq DueIds
                 /\ \A d \in DOMAIN tally : RowOK(tally[d])
BY DEF Counters, CountedPerAttempt, TallyOK, RowOK

LEMMA CountersAfterRow ==
    ASSUME Counters, NEW d \in DOMAIN tally, NEW row, RowOK(row),
           tally' = [tally EXCEPT ![d] = row]
    PROVE  Counters' /\ DOMAIN tally' = DOMAIN tally
<1>1. /\ tally \in [DOMAIN tally -> Tally] /\ DOMAIN tally \subseteq DueIds
      /\ \A e \in DOMAIN tally : RowOK(tally[e])
  BY CountersByRow
<1>2. row \in Tally BY DEF RowOK
<1>3. /\ DOMAIN tally' = DOMAIN tally /\ tally' \in [DOMAIN tally -> Tally]
      /\ \A e \in DOMAIN tally : tally'[e] = IF e = d THEN row ELSE tally[e]
  BY <1>1, <1>2
<1>4. \A e \in DOMAIN tally' : RowOK(tally'[e]) BY <1>1, <1>3
<1>5. \A e : RowOK(e)' <=> RowOK(e) BY DEF RowOK
<1>6. \A e \in DOMAIN tally' : RowOK(tally[e])' BY <1>4, <1>5 DEF RowOK
<1> QED BY <1>1, <1>3, <1>6, CountersByRow DEF Counters, CountedPerAttempt, TallyOK, RowOK

LEMMA CountersAfterStep ==
    ASSUME Counters, NEW d \in DOMAIN tally, WorkerStep(d)
    PROVE  Counters' /\ DOMAIN tally' = DOMAIN tally
<1>1. RowOK(tally[d]) /\ tally[d] \in Tally BY CountersByRow
<1>2. /\ tally[d].tries \in Nat /\ tally[d].rows \in Nat /\ tally[d].cache \in Nat
      /\ tally[d].tries <= Attempts /\ Attempts \in Nat
      /\ tally[d].rows + 1 \in Nat /\ tally[d].cache + 1 \in Nat
  BY <1>1, AttemptsAssumption DEF Tally
<1>3. CASE CountRow(d)
  <2> DEFINE row == [tally[d] EXCEPT !.stage = "rows", !.rows = @ + 1]
  <2>1. tally' = [tally EXCEPT ![d] = row] /\ tally[d].stage = "waiting"
    BY <1>1, <1>3 DEF CountRow, Counters
  <2>2. row \in Tally /\ row.stage = "rows" /\ row.rows = tally[d].rows + 1
        /\ row.cache = tally[d].cache /\ row.tries = tally[d].tries
    BY <1>1, <1>2 DEF Tally
  <2> HIDE DEF row
  <2>3. RowOK(row) BY <1>1, <1>2, <2>1, <2>2 DEF RowOK, Ended
  <2> QED BY <2>1, <2>3, CountersAfterRow
<1>4. CASE CountCache(d)
  <2> DEFINE row == [tally[d] EXCEPT !.stage = "cache", !.cache = @ + 1]
  <2>1. tally' = [tally EXCEPT ![d] = row] /\ tally[d].stage = "rows"
    BY <1>1, <1>4 DEF CountCache, Counters
  <2>2. row \in Tally /\ row.stage = "cache" /\ row.cache = tally[d].cache + 1
        /\ row.rows = tally[d].rows /\ row.tries = tally[d].tries
    BY <1>1, <1>2 DEF Tally
  <2> HIDE DEF row
  <2>3. RowOK(row) BY <1>1, <1>2, <2>1, <2>2 DEF RowOK, Ended
  <2> QED BY <2>1, <2>3, CountersAfterRow
<1>5. CASE Acknowledge(d)
  <2> DEFINE row == [tally[d] EXCEPT !.stage = "done"]
  <2>1. tally' = [tally EXCEPT ![d] = row] /\ tally[d].stage = "cache"
    BY <1>1, <1>5 DEF Acknowledge, Counters
  <2>2. row \in Tally /\ row.stage = "done" /\ row.cache = tally[d].cache
        /\ row.rows = tally[d].rows /\ row.tries = tally[d].tries
    BY <1>1, <1>2 DEF Tally
  <2> HIDE DEF row
  <2>3. RowOK(row) BY <1>1, <1>2, <2>1, <2>2 DEF RowOK, Ended
  <2> QED BY <2>1, <2>3, CountersAfterRow
<1>6. CASE FailCount(d)
  <2> DEFINE row == Retried(tally[d], "waiting")
  <2>1. tally' = [tally EXCEPT ![d] = row] /\ tally[d].stage \notin Ended
    BY <1>6 DEF FailCount
  <2>2. tally[d].tries < Attempts /\ tally[d].tries + 1 \in 0..Attempts
    BY <1>1, <1>2, <2>1 DEF RowOK
  <2>3. /\ row \in Tally /\ row.tries = tally[d].tries + 1
        /\ row.stage = (IF tally[d].tries + 1 = Attempts THEN "dead" ELSE "waiting")
        /\ row.rows = tally[d].rows /\ row.cache = tally[d].cache
    BY <1>1, <1>2, <2>2 DEF Tally, Retried
  <2> HIDE DEF row
  <2>4. RowOK(row) BY <1>1, <1>2, <2>1, <2>2, <2>3 DEF RowOK, Ended
  <2> QED BY <2>1, <2>4, CountersAfterRow
<1> QED BY <1>3, <1>4, <1>5, <1>6 DEF WorkerStep

LEMMA CountersAfterEvent ==
    ASSUME Counters, NEW ids \in SUBSET DueIds, tally' = Announced(ids)
    PROVE  Counters' /\ DOMAIN tally' = DOMAIN tally \cup ids
<1>1. /\ tally \in [DOMAIN tally -> Tally] /\ DOMAIN tally \subseteq DueIds
      /\ \A e \in DOMAIN tally : RowOK(tally[e])
  BY CountersByRow
<1>2. /\ Waiting \in Tally /\ Waiting.stage = "waiting" /\ Waiting.tries = 0 /\ Waiting.rows = 0
      /\ Waiting.cache = 0
  BY AttemptsAssumption DEF Waiting, Tally
<1>3. RowOK(Waiting) BY <1>2, AttemptsAssumption DEF RowOK, Ended
<1>4. /\ DOMAIN tally' = DOMAIN tally \cup ids
      /\ \A d \in DOMAIN tally' : tally'[d] = IF d \in DOMAIN tally THEN tally[d] ELSE Waiting
      /\ tally' = [d \in DOMAIN tally' |-> tally'[d]]
  BY DEF Announced
<1>5. \A d \in DOMAIN tally' : RowOK(tally'[d]) /\ tally'[d] \in Tally
  BY <1>1, <1>2, <1>3, <1>4
<1>6. tally' \in [DOMAIN tally' -> Tally] BY <1>4, <1>5
<1> QED BY <1>1, <1>4, <1>5, <1>6 DEF Counters, CountedPerAttempt, TallyOK, RowOK

-----------------------------------------------------------------------------
(* The steps.                                                              *)
LEMMA SubmissionGood ==
    ASSUME IInv, NEW s \in Slots, Submission(s), UNCHANGED world PROVE IInv'
<1> USE DEF IInv
<1>1. ASSUME NEW m \in Months, NEW current \in [MeteredRooms \cup {Main} -> Readings],
             NEW price \in Prices, SubmitAllReadingsRead(s, m, current, price)
      PROVE  IInv'
  <2>1. UNCHANGED <<world, hasMeter, reading, run, disturbed, late, dues, job, tally, metricsRow>>
    BY <1>1 DEF SubmitAllReadingsRead, meters, counters
  <2>2. /\ Books' /\ sub' \in [Slots -> SubRow \cup {NoSub}]
        /\ sub'[s].month = m /\ ~Busy(s) /\ \A r \in Slots : r # s => sub'[r] = sub[r]
    BY <1>1, BooksAfterRead
  <2>3. \A n \in Months : SubmitsOf(n)' = {} => SubmitsOf(n) = {}
    <3>1. sub[s].month \notin Months BY <2>2, NoSubFacts, MonthFacts DEF Busy
    <3> QED BY <2>2, <3>1 DEF SubmitsOf
  <2>4. Ledger' BY <2>1, <2>3, LedgerKept
  <2> QED BY <2>1, <2>2, <2>4, CountersKept DEF Shapes
<1>2. ASSUME NEW x \in Meters, SubmitReading(s, x) PROVE IInv'
  <2> DEFINE m == sub[s].month
  <2>1. UNCHANGED <<world, hasMeter, run, dues, job, tally, metricsRow>>
        /\ disturbed' = IF SubmitsOf(m) # {s} \/ BillsOf(m) # {} THEN disturbed \cup {m}
                                                               ELSE disturbed
    BY <1>2 DEF SubmitReading, counters
  <2>2. /\ Books' /\ sub' \in [Slots -> SubRow \cup {NoSub}]
        /\ reading' \in [Months -> [Meters -> Opt(Reading)]]
        /\ \A r \in Slots : sub'[r].month = sub[r].month
        /\ m \in Months /\ \A n \in Months : n # m => reading'[n] = reading[n]
    BY <1>2, BooksAfterReading
  <2>3. \A n \in Months : SubmitsOf(n)' = SubmitsOf(n) BY <2>2 DEF SubmitsOf
  <2>4. s \in SubmitsOf(m) BY DEF SubmitsOf
  <2> HIDE DEF m
  <2>5. Ledger' BY <2>1, <2>2, <2>3, <2>4, LedgerKept
  <2> QED BY <2>1, <2>2, <2>5, CountersKept DEF Shapes
<1>3. CASE SubmitBillingRun(s)
  <2> DEFINE m == sub[s].month
  <2>1. /\ Busy(s) /\ run' = [run EXCEPT ![m] = "PENDING"]
        /\ job' = [job EXCEPT ![Cardinality(Enqueued) + 1] =
                     [NoJob EXCEPT !.stage = "queued", !.month = m]]
        /\ sub' = [sub EXCEPT ![s] = NoSub]
        /\ disturbed' = IF BillsOf(m) # {} THEN disturbed \cup {m} ELSE disturbed
        /\ UNCHANGED <<world, hasMeter, reading, late, dues, tally, metricsRow>>
    BY <1>3 DEF SubmitBillingRun, counters
  <2>2. m \in Months BY <2>1, SubFacts DEF Books
  <2>3. run' \in [Months -> Opt({"PENDING", "COMPLETED"})]
        /\ run'[m] = "PENDING" /\ \A n \in Months \ {m} : run'[n] = run[n]
    BY <2>1, <2>2 DEF Shapes, Opt
  <2>4. Ledger' /\ job' \in [JobIds -> JobRow]
    <3> DEFINE k == m
    <3>1. k \in Months /\ sub[s].month = k BY <2>2
    <3>2. job' = [job EXCEPT ![Cardinality(Enqueued) + 1] =
                     [NoJob EXCEPT !.stage = "queued", !.month = k]]
      BY <2>1
    <3> QED BY <2>1, <2>3, <3>1, <3>2, LedgerAfterEnqueue
  <2>5. Books' BY <2>1, BooksAfterSubmission
  <2> QED BY <2>1, <2>2, <2>3, <2>4, <2>5, CountersKept DEF Shapes
<1>4. ASSUME NEW marked \in BOOLEAN, AbortSubmission(s, marked) PROVE IInv'
  <2> DEFINE m == sub[s].month
  <2>1. /\ Busy(s) /\ run' = IF marked THEN [run EXCEPT ![m] = "PENDING"] ELSE run
        /\ job' = [job EXCEPT ![Cardinality(Enqueued) + 1] =
                     [NoJob EXCEPT !.stage = "lost", !.month = m]]
        /\ sub' = [sub EXCEPT ![s] = NoSub]
        /\ disturbed' = disturbed \cup {m}
        /\ UNCHANGED <<world, hasMeter, reading, late, dues, tally, metricsRow>>
    BY <1>4 DEF AbortSubmission, counters
  <2>2. m \in Months BY <2>1, SubFacts DEF Books
  <2>3. run' \in [Months -> Opt({"PENDING", "COMPLETED"})]
        /\ \A n \in Months \ {m} : run'[n] = run[n]
    BY <2>1, <2>2 DEF Shapes, Opt
  <2>4. Ledger' /\ job' \in [JobIds -> JobRow]
    <3> DEFINE k == m
    <3>1. k \in Months /\ sub[s].month = k BY <2>2
    <3>2. job' = [job EXCEPT ![Cardinality(Enqueued) + 1] =
                     [NoJob EXCEPT !.stage = "lost", !.month = k]]
      BY <2>1
    <3> QED BY <2>1, <2>3, <3>1, <3>2, LedgerAfterEnqueue
  <2>5. Books' BY <2>1, BooksAfterSubmission
  <2> QED BY <2>1, <2>2, <2>3, <2>4, <2>5, CountersKept DEF Shapes
<1> QED BY <1>1, <1>2, <1>3, <1>4 DEF Submission

LEMMA EditRoomGood ==
    ASSUME IInv, NEW r \in Rooms, EditRoom(r), UNCHANGED world PROVE IInv'
<1> USE DEF IInv
<1>1. /\ UNCHANGED <<world, reading, run, late, dues, sub, job, tally, metricsRow>>
      /\ hasMeter' = [hasMeter EXCEPT ![r] = ~@]
      /\ disturbed \subseteq disturbed' /\ disturbed' \subseteq disturbed \cup Months
  BY DEF EditRoom, counters
<1>2. hasMeter' \in [Rooms -> BOOLEAN] BY <1>1 DEF Shapes
<1>3. \A m \in Months : SubmitsOf(m)' = SubmitsOf(m) BY <1>1 DEF SubmitsOf
<1>4. Ledger' BY <1>1, <1>3, LedgerKept
<1> QED BY <1>1, <1>2, <1>4, BooksKept, CountersKept DEF Shapes

(* The steps of a job that change the job alone.                           *)
LEMMA JobGood ==
    ASSUME IInv, NEW j \in JobIds,
           RunBillingSkip(j) \/ RunBillingRead(j) \/ RunBillingDelete(j) \/ RunBillingFail(j),
           UNCHANGED world
    PROVE  IInv'
<1> USE DEF IInv
<1> DEFINE m == job[j].month
<1>1. UNCHANGED <<world, hasMeter, reading, run, disturbed, late, dues, sub, tally, metricsRow>>
  BY DEF RunBillingSkip, RunBillingRead, RunBillingDelete, RunBillingFail, meters, counters
<1>2. job[j] \in JobRow /\ job[j].tries \in Nat BY JobFacts
<1>3. NoJob \in JobRow /\ NoJob.shares = {} /\ NoJob.held = {} /\ NoJob.found = {} BY NoJobFacts
<1>4. Ledger' /\ job' \in [JobIds -> JobRow]
  <2>1. CASE RunBillingSkip(j)
    <3> DEFINE row == [NoJob EXCEPT !.stage = "done", !.month = m, !.tries = job[j].tries]
    <3>1. job' = [job EXCEPT ![j] = row] /\ job[j].stage = "queued" BY <2>1 DEF RunBillingSkip
    <3>2. /\ row \in JobRow /\ row.stage = "done" /\ row.month = m /\ row.tries = job[j].tries
          /\ row.shares = {} /\ row.held = {} /\ row.found = {}
      BY <1>2, <1>3 DEF JobRow, JobStages
    <3> HIDE DEF row
    <3>3. Advances(j, row) BY <3>1, <3>2 DEF Advances
    <3>4. FairBill(row.shares) BY <3>2 DEF FairBill
    <3> QED BY <1>1, <3>1, <3>2, <3>3, <3>4, LedgerAfterJob DEF Computing
  <2>2. CASE RunBillingRead(j)
    <3>1. PICK extra \in SUBSET (ActiveTenancies \ NonMeteredTenancies) :
            job' = [job EXCEPT ![j].stage = "read",
                               ![j].shares = RoomShares(m, extra) \cup PoolShares(m),
                               ![j].cost = Consumed(m, Main) * UnitPrice(m)]
      BY <2>2 DEF RunBillingRead
    <3>2. job[j].stage = "queued" /\ m \in Months /\ Billable(m) /\ ~Collected(m)
          /\ job[j].tries < Attempts /\ job[j].held \subseteq job[j].found
      BY <2>2 DEF RunBillingRead, Billable, Ledger, JobOK
    <3> DEFINE shares == RoomShares(m, extra) \cup PoolShares(m)
               cost == Consumed(m, Main) * UnitPrice(m)
               row == [job[j] EXCEPT !.stage = "read", !.shares = shares, !.cost = cost]
    <3>3. job' = [job EXCEPT ![j] = row] BY <3>1 DEF Shapes
    <3>4. shares \subseteq Share /\ FairBill(shares) /\ cost \in Nat
      <4> DEFINE p == m
      <4>1. p \in Months /\ Billable(p) BY <3>2
      <4> HIDE DEF p
      <4>2. /\ RoomShares(p, extra) \cup PoolShares(p) \subseteq Share
            /\ FairBill(RoomShares(p, extra) \cup PoolShares(p))
            /\ Consumed(p, Main) * UnitPrice(p) \in Nat
        BY <4>1, BillFair DEF Books
      <4> QED BY <4>2 DEF p
    <3> HIDE DEF shares, cost
    <3>5. /\ row \in JobRow /\ row.stage = "read" /\ row.month = m /\ row.tries = job[j].tries
          /\ row.shares = shares /\ row.cost = cost
          /\ row.held = job[j].held /\ row.found = job[j].found
      BY <1>2, <3>4 DEF JobRow, JobStages, Computing
    <3> HIDE DEF row
    <3>6. Advances(j, row) BY <3>2, <3>5 DEF Advances
    <3>7. \A d \in dues : d.id.month = m => d.status = "UNPAID"
      BY <3>2, DueFacts DEF Collected
    <3>8. row.stage \in Computing /\ row.month \in Months \ disturbed =>
             /\ row.cost = Consumed(row.month, Main) * UnitPrice(row.month)
             /\ \A d \in dues : d.id.month = row.month =>
                  d.status = "UNPAID" /\ (row.stage = "deleted" => d.id \in row.found)
      BY <3>5, <3>7 DEF cost
    <3>9. row.held \subseteq row.found /\ FairBill(row.shares) /\ row.tries < Attempts
          /\ row.stage # "none" /\ job[j].stage # "none" /\ job[j].stage # "committed"
      BY <3>2, <3>4, <3>5
    <3> QED BY <1>1, <3>3, <3>5, <3>6, <3>8, <3>9, LedgerAfterJob
  <2>3. CASE RunBillingDelete(j)
    <3> DEFINE found == Replaceable(m)
               row == [job[j] EXCEPT !.stage = "deleted", !.found = found, !.held = found \ Locked]
    <3>1. job[j].stage = "read"
          /\ job' = [job EXCEPT ![j].stage = "deleted", ![j].found = found,
                                ![j].held = found \ Locked]
      BY <2>3 DEF RunBillingDelete
    <3>2. job' = [job EXCEPT ![j] = row] BY <3>1 DEF Shapes
    <3>3. found \subseteq DueIds BY DueFacts DEF Replaceable
    <3>4. /\ \A d \in dues : d.id.month = m /\ d.status = "UNPAID" => d.id \in found
          /\ m \in Months /\ job[j].tries < Attempts /\ FairBill(job[j].shares)
      BY <3>1 DEF Replaceable, Ledger, JobOK, Computing
    <3> HIDE DEF found
    <3>5. /\ row \in JobRow /\ row.stage = "deleted" /\ row.month = m /\ row.tries = job[j].tries
          /\ row.shares = job[j].shares /\ row.cost = job[j].cost
          /\ row.held \subseteq row.found /\ row.found = found
      BY <1>2, <3>3 DEF JobRow, JobStages, Computing
    <3> HIDE DEF row
    <3>6. Advances(j, row) BY <3>1, <3>5 DEF Advances
    <3>7. m \notin disturbed =>
            /\ job[j].cost = Consumed(m, Main) * UnitPrice(m)
            /\ \A d \in dues : d.id.month = m => d.status = "UNPAID"
      BY <3>1, <3>4 DEF Ledger, BillsOK, BillOK, BillsOf, Computing
    <3>8. row.stage \in Computing /\ row.month \in Months \ disturbed =>
             /\ row.cost = Consumed(row.month, Main) * UnitPrice(row.month)
             /\ \A d \in dues : d.id.month = row.month =>
                  d.status = "UNPAID" /\ (row.stage = "deleted" => d.id \in row.found)
      BY <3>4, <3>5, <3>7
    <3>9. FairBill(row.shares) /\ row.tries < Attempts
          /\ row.stage # "none" /\ job[j].stage # "none" /\ job[j].stage # "committed"
      BY <3>1, <3>4, <3>5
    <3> QED BY <1>1, <3>2, <3>5, <3>6, <3>8, <3>9, LedgerAfterJob
  <2>4. CASE RunBillingFail(j)
    <3> DEFINE base == [NoJob EXCEPT !.month = m, !.tries = job[j].tries]
               row == Retried(base, "queued")
    <3>1. job' = [job EXCEPT ![j] = row] /\ job[j].stage \in Computing \cup {"queued", "committed"}
      BY <2>4 DEF RunBillingFail
    <3>2. job[j].tries < Attempts BY <3>1 DEF Ledger, JobOK
    <3>3. job[j].tries + 1 \in 0..Attempts /\ job[j].tries + 1 \in Nat /\ Attempts \in Nat
      BY <1>2, <3>2, AttemptsAssumption
    <3>4. /\ base \in JobRow /\ base.month = m /\ base.tries = job[j].tries
          /\ base.shares = {} /\ base.held = {} /\ base.found = {}
      BY <1>2, <1>3 DEF JobRow
    <3> HIDE DEF base
    <3>5. /\ row \in JobRow /\ row.month = m /\ row.tries = job[j].tries + 1
          /\ row.stage = (IF job[j].tries + 1 = Attempts THEN "dead" ELSE "queued")
          /\ row.shares = {} /\ row.held = {} /\ row.found = {}
      BY <3>3, <3>4 DEF JobRow, JobStages, Retried
    <3> HIDE DEF row
    <3>6. Retries(j, row) /\ FairBill(row.shares) BY <3>5 DEF Retries, FairBill
    <3>7. row.stage \notin Computing /\ row.stage # "none" /\ row.stage # "committed"
          /\ job[j].stage # "none" /\ (row.stage = "queued" => row.tries < Attempts)
      BY <3>1, <3>2, <3>3, <3>5 DEF Computing
    <3>8. ~Advances(j, row) BY <1>2, <3>5 DEF Advances
    <3> QED BY <1>1, <3>1, <3>5, <3>6, <3>7, <3>8, LedgerAfterJob
  <2> QED BY <2>1, <2>2, <2>3, <2>4
<1> QED BY <1>1, <1>4, BooksKept, CountersKept DEF Shapes

LEMMA CommitGood ==
    ASSUME IInv, NEW j \in JobIds, RunBillingCommit(j), UNCHANGED world PROVE IInv'
<1> USE DEF IInv
<1>1. Ledger' /\ job' \in [JobIds -> JobRow] /\ dues' \subseteq Due BY LedgerAfterCommit
<1>2. /\ run' = [run EXCEPT ![job[j].month] = "COMPLETED"]
      /\ disturbed' \subseteq disturbed \cup {job[j].month}
      /\ job[j].stage = "deleted"
      /\ UNCHANGED <<hasMeter, reading, late, sub, tally, metricsRow>>
  BY DEF RunBillingCommit, counters
<1>3. job[j].month \in Months BY <1>2 DEF Ledger, JobOK
<1>4. run' \in [Months -> Opt({"PENDING", "COMPLETED"})] BY <1>2, <1>3 DEF Shapes, Opt
<1> QED BY <1>1, <1>2, <1>3, <1>4, BooksKept, CountersKept DEF Shapes

LEMMA EmitGood ==
    ASSUME IInv, NEW j \in JobIds, RunBillingEmit(j), UNCHANGED world PROVE IInv'
<1> USE DEF IInv
<1> DEFINE ids == {d.id : d \in Created(j)}
           row == [NoJob EXCEPT !.stage = "done", !.month = job[j].month, !.tries = job[j].tries]
<1>1. /\ UNCHANGED <<world, hasMeter, reading, run, disturbed, late, dues, sub, metricsRow>>
      /\ tally' = IF "metrics" \in world.ops THEN Announced(ids) ELSE tally
      /\ job' = [job EXCEPT ![j] = row] /\ job[j].stage = "committed"
  BY DEF RunBillingEmit, meters
<1>2. job[j].month \in Months /\ job[j] \in JobRow BY <1>1, JobFacts DEF Ledger, JobOK
<1>3. ids \in SUBSET DueIds BY <1>2, CreatedFacts
<1>4. /\ row \in JobRow /\ row.stage = "done" /\ row.month = job[j].month
      /\ row.tries = job[j].tries /\ row.shares = {} /\ row.held = {} /\ row.found = {}
  BY <1>2, NoJobFacts DEF JobRow, JobStages
<1> HIDE DEF ids, row
<1>5. /\ Counters' /\ DOMAIN tally \subseteq DOMAIN tally'
      /\ ("metrics" \in world.ops => ids \subseteq DOMAIN tally')
  <2>1. CASE "metrics" \in world.ops BY <1>1, <1>3, <2>1, CountersAfterEvent
  <2>2. CASE "metrics" \notin world.ops BY <1>1, <2>2, CountersKept
  <2> QED BY <2>1, <2>2
<1>6. Advances(j, row) /\ FairBill(row.shares) BY <1>1, <1>4 DEF Advances, FairBill
<1>7. Ledger' /\ job' \in [JobIds -> JobRow]
  BY <1>1, <1>4, <1>5, <1>6, LedgerAfterJob DEF Computing, ids
<1> QED BY <1>1, <1>5, <1>7, BooksKept DEF Shapes

LEMMA PaymentGood ==
    ASSUME IInv, NEW d \in dues, UNCHANGED world,
           \/ MakePayment(d) \/ InitiatePayment(d)
           \/ \E status \in {"PARTIAL", "PAID"} : CollectDue(d, status)
    PROVE  IInv'
<1> USE DEF IInv
<1>1. d \in Due /\ d.id.month \in Months BY DueFacts
<1>2. ASSUME NEW status \in {"PARTIAL", "PAID"}, CollectDue(d, status) PROVE IInv'
  <2> DEFINE e == [d EXCEPT !.status = status]
  <2>1. /\ UNCHANGED <<world, hasMeter, reading, run, late, sub, job, tally, metricsRow>>
        /\ dues' = (dues \ {d}) \cup {e}
        /\ disturbed' = IF BillsOf(d.id.month) # {} THEN disturbed \cup {d.id.month} ELSE disturbed
    BY <1>2 DEF CollectDue, counters
  <2>2. e \in Due /\ e.id = d.id /\ e.amount = d.amount /\ e.cost = d.cost BY <1>1 DEF Due
  <2> HIDE DEF e
  <2>3. Ledger' /\ dues' \subseteq Due BY <2>1, <2>2, LedgerAfterPayment
  <2> QED BY <1>1, <2>1, <2>3, BooksKept, CountersKept DEF Shapes
<1>3. CASE MakePayment(d)
  <2> DEFINE e == [d EXCEPT !.line = TRUE]
  <2>1. /\ UNCHANGED <<world, hasMeter, reading, run, late, sub, job, tally, metricsRow, disturbed>>
        /\ dues' = (dues \ {d}) \cup {e}
    BY <1>3 DEF MakePayment, counters, meters
  <2>2. e \in Due /\ e.id = d.id /\ e.amount = d.amount /\ e.cost = d.cost /\ e.status = d.status
    BY <1>1 DEF Due
  <2> HIDE DEF e
  <2>3. Ledger' /\ dues' \subseteq Due BY <2>1, <2>2, LedgerAfterPayment
  <2> QED BY <2>1, <2>3, BooksKept, CountersKept DEF Shapes
<1>4. CASE InitiatePayment(d)
  <2> DEFINE e == [d EXCEPT !.named = TRUE]
  <2>1. /\ UNCHANGED <<world, hasMeter, reading, run, late, sub, job, tally, metricsRow, disturbed>>
        /\ dues' = (dues \ {d}) \cup {e}
    BY <1>4 DEF InitiatePayment, counters, meters
  <2>2. e \in Due /\ e.id = d.id /\ e.amount = d.amount /\ e.cost = d.cost /\ e.status = d.status
    BY <1>1 DEF Due
  <2> HIDE DEF e
  <2>3. Ledger' /\ dues' \subseteq Due BY <2>1, <2>2, LedgerAfterPayment
  <2> QED BY <2>1, <2>3, BooksKept, CountersKept DEF Shapes
<1> QED BY <1>2, <1>3, <1>4

LEMMA CountingGood == ASSUME IInv, Counting, UNCHANGED world PROVE IInv'
<1> USE DEF IInv
<1>1. UNCHANGED <<world, hasMeter, reading, run, disturbed, late, dues, sub, job>>
  BY DEF Counting, meters
<1>2. Counters' /\ DOMAIN tally' = DOMAIN tally /\ metricsRow' \subseteq Months
  <2>1. ASSUME NEW d \in DOMAIN tally, WorkerStep(d), UNCHANGED metricsRow
        PROVE  Counters' /\ DOMAIN tally' = DOMAIN tally /\ metricsRow' \subseteq Months
    BY <2>1, CountersAfterStep DEF Shapes
  <2>2. ASSUME NEW m \in Months, UpsertMetricsRow(m), UNCHANGED tally
        PROVE  Counters' /\ DOMAIN tally' = DOMAIN tally /\ metricsRow' \subseteq Months
    BY <2>2, CountersKept DEF Shapes, UpsertMetricsRow
  <2> QED BY <2>1, <2>2 DEF Counting
<1>3. \A m \in Months : SubmitsOf(m)' = SubmitsOf(m) BY <1>1 DEF SubmitsOf
<1>4. Ledger' BY <1>1, <1>2, <1>3, LedgerKept
<1> QED BY <1>1, <1>2, <1>4, BooksKept DEF Shapes

LEMMA StutterGood == ASSUME IInv, UNCHANGED vars PROVE IInv'
<1>1. UNCHANGED <<world, hasMeter, reading, run, disturbed, late, dues, sub, job, tally, metricsRow>>
  BY DEF vars
<1>2. \A m \in Months : SubmitsOf(m)' = SubmitsOf(m) BY <1>1 DEF SubmitsOf
<1>3. Ledger' BY <1>1, <1>2, LedgerKept DEF IInv
<1> QED BY <1>1, <1>3, BooksKept, CountersKept DEF IInv, Shapes

LEMMA NextGood == IInv /\ [Next]_vars => IInv'
<1> SUFFICES ASSUME IInv, [Next]_vars PROVE IInv' OBVIOUS
<1>1. CASE Next
  <2>1. UNCHANGED world BY <1>1 DEF Next
  <2>2. ASSUME NEW s \in Slots, Submission(s) PROVE IInv' BY <2>1, <2>2, SubmissionGood
  <2>3. ASSUME NEW r \in Rooms, EditRoom(r) PROVE IInv' BY <2>1, <2>3, EditRoomGood
  <2>4. ASSUME NEW j \in JobIds, RunBilling(j) PROVE IInv'
    BY <2>1, <2>4, JobGood, CommitGood, EmitGood DEF RunBilling
  <2>5. ASSUME NEW d \in dues,
               \/ MakePayment(d) \/ InitiatePayment(d)
               \/ \E status \in {"PARTIAL", "PAID"} : CollectDue(d, status)
        PROVE  IInv'
    BY <2>1, <2>5, PaymentGood
  <2>6. CASE Counting BY <2>1, <2>6, CountingGood
  <2> QED BY <1>1, <2>2, <2>3, <2>4, <2>5, <2>6 DEF Next
<1>2. CASE UNCHANGED vars BY <1>2, StutterGood
<1> QED BY <1>1, <1>2

-----------------------------------------------------------------------------
(* The readings, the bills and the counters stay sound in every run.       *)
THEOREM Inductive == Spec => []IInv
<1>1. Init /\ [][Next]_vars => []IInv BY InitGood, NextGood, PTL
<1> QED BY <1>1, PTL DEF Spec

(* Every variable keeps its type in every behaviour.                       *)
THEOREM TypeCorrect == Spec => []TypeOK
<1>1. IInv => TypeOK
  <2> SUFFICES ASSUME IInv PROVE TypeOK OBVIOUS
  <2>1. \A s \in Slots : Busy(s) => /\ sub[s].month \in Months
                                    /\ sub[s].todo \subseteq DOMAIN sub[s].new
                                    /\ \A x \in DOMAIN sub[s].new : sub[s].new[x] \in Reading
    BY SubFacts DEF IInv, Books
  <2>2. \A j \in JobIds :
          /\ job[j].month \in Opt(Months) /\ job[j].tries \in 0..Attempts
          /\ job[j].shares \subseteq Share
          /\ job[j].held \subseteq job[j].found /\ job[j].found \subseteq DueIds
    BY JobFacts DEF IInv, Ledger, JobOK
  <2>3. \A m \in Months, x \in Meters : reading[m][x] \in Opt(Reading) BY DEF IInv, Shapes
  <2>4. DOMAIN tally \subseteq DueIds /\ \A d \in DOMAIN tally : tally[d] \in Tally
    BY CountersByRow DEF IInv, RowOK
  <2> QED BY <2>1, <2>2, <2>3, <2>4 DEF IInv, Shapes, TypeOK
<1> QED BY <1>1, Inductive, PTL

(* Whoever came earlier and left later never pays less for the pool, and   *)
(* the tenants of a metered room pay the same, up to the rounding: for any *)
(* rooms, stays, readings and prices, and whichever way a quotient rounds. *)
THEOREM EveryBillIsFair == Spec => []FairShares
<1>1. IInv => FairShares BY DEF IInv, Ledger
<1> QED BY <1>1, Inductive, PTL

(* However often a month is submitted and billed, and however jobs fail    *)
(* and run again, a tenancy owes it once, as the stored readings say,      *)
(* unless requests overlapped or a submission stopped halfway.             *)
THEOREM MonthBilledOnce == Spec => []BilledOnceAsRead
<1>1. IInv => BilledOnceAsRead BY DEF IInv, Ledger
<1> QED BY <1>1, Inductive, PTL

(* A month starts from the reading the month before ended with, in any     *)
(* interleaving of submissions, unless the earlier month was written later. *)
THEOREM MonthsConnect == Spec => []ReadingsChain
<1>1. IInv => ReadingsChain BY DEF IInv, Books
<1> QED BY <1>1, Inductive, PTL

(* Whatever fails and runs again, a counter counts a due at most once per  *)
(* attempt.                                                                *)
THEOREM CountsPerAttempt == Spec => []CountedPerAttempt
<1>1. IInv => CountedPerAttempt BY DEF IInv, Counters
<1> QED BY <1>1, Inductive, PTL

(* A due that no event announced is one whose job stopped in between.      *)
THEOREM DuesAnnounced == Spec => []AnnouncedUnlessInterrupted
<1>1. IInv => AnnouncedUnlessInterrupted BY DEF IInv, Ledger
<1> QED BY <1>1, Inductive, PTL

(* However bills, submissions and payments overlap, a due keeps its        *)
(* amount, its payments and what was collected; only a bill that found it  *)
(* drops it, and never when it is collected or has a line of makePayment.  *)
THEOREM CollectedDuesStay == Spec => CollectedStays
<1> DEFINE Kept(d) ==
           \/ \E e \in dues' : Lasts(d, e)
           \/ /\ d.status = "UNPAID" /\ ~d.line
              /\ \E j \in JobIds : /\ job[j].stage = "deleted" /\ job'[j].stage = "committed"
                                   /\ d.id \in job[j].found
<1>1. ASSUME IInv, [Next]_vars, NEW d \in dues PROVE Kept(d)
  <2>d. d \in Due /\ \A x \in dues : x \in Due BY <1>1, DueFacts DEF IInv
  <2>l. Lasts(d, d) BY DEF Lasts
  <2>1. CASE d \in dues' BY <2>1, <2>l
  <2>2. ASSUME NEW j \in JobIds, RunBillingCommit(j), d \notin dues' PROVE Kept(d)
    <3>1. /\ \A x \in dues : x.line => ~Old(x, job[j].found)
          /\ dues' = {x \in dues : ~Old(x, job[j].found)} \cup Created(j)
          /\ job[j].stage = "deleted"
          /\ job' = [job EXCEPT ![j].stage = "committed", ![j].held = {}]
      BY <2>2 DEF RunBillingCommit, Restricted
    <3>2. Old(d, job[j].found) BY <2>2, <3>1
    <3>3. job'[j].stage = "committed" BY <1>1, <3>1 DEF IInv, Shapes, JobRow
    <3>4. d.status = "UNPAID" /\ ~d.line /\ d.id \in job[j].found
      BY <2>d, <3>1, <3>2 DEF Old, Due
    <3> QED BY <3>1, <3>3, <3>4
  <2>3. ASSUME NEW x \in dues, NEW e, dues' = (dues \ {x}) \cup {e}, Lasts(x, e), d \notin dues'
        PROVE  Kept(d)
    BY <2>3
  <2>4. ASSUME NEW x \in dues, NEW status \in {"PARTIAL", "PAID"}, CollectDue(x, status),
               d \notin dues'
        PROVE  Kept(d)
    <3> DEFINE e == [x EXCEPT !.status = status]
    <3>1. dues' = (dues \ {x}) \cup {e} /\ x \in Due BY <2>d, <2>4 DEF CollectDue
    <3>2. Lasts(x, e) BY <3>1 DEF Lasts, Due
    <3> QED BY <2>3, <2>4, <3>1, <3>2
  <2>5. ASSUME NEW x \in dues, MakePayment(x), d \notin dues' PROVE Kept(d)
    <3> DEFINE e == [x EXCEPT !.line = TRUE]
    <3>1. dues' = (dues \ {x}) \cup {e} /\ x \in Due BY <2>d, <2>5 DEF MakePayment
    <3>2. Lasts(x, e) BY <3>1 DEF Lasts, Due
    <3> QED BY <2>3, <2>5, <3>1, <3>2
  <2>6. ASSUME NEW x \in dues, InitiatePayment(x), d \notin dues' PROVE Kept(d)
    <3> DEFINE e == [x EXCEPT !.named = TRUE]
    <3>1. dues' = (dues \ {x}) \cup {e} /\ x \in Due BY <2>d, <2>6 DEF InitiatePayment
    <3>2. Lasts(x, e) BY <3>1 DEF Lasts, Due
    <3> QED BY <2>3, <2>6, <3>1, <3>2
  <2>7. \/ UNCHANGED dues
        \/ \E j \in JobIds : RunBillingCommit(j)
        \/ \E x \in dues :
             \/ MakePayment(x) \/ InitiatePayment(x)
             \/ \E status \in {"PARTIAL", "PAID"} : CollectDue(x, status)
    BY <1>1 DEF Next, vars, Submission, SubmitAllReadingsRead, SubmitReading, SubmitBillingRun,
       AbortSubmission, EditRoom, RunBilling, RunBillingSkip, RunBillingRead, RunBillingDelete,
       RunBillingEmit, RunBillingFail, Counting
  <2> QED BY <2>1, <2>2, <2>4, <2>5, <2>6, <2>7
<1>2. IInv /\ [Next]_vars =>
        [\A d \in dues :
           \/ \E e \in dues' : Lasts(d, e)
           \/ /\ d.status = "UNPAID" /\ ~d.line
              /\ \E j \in JobIds : /\ job[j].stage = "deleted" /\ job'[j].stage = "committed"
                                   /\ d.id \in job[j].found]_vars
  BY <1>1
<1> QED BY <1>2, Inductive, PTL DEF Spec, CollectedStays

-----------------------------------------------------------------------------
(* What a bill recovers. The shares of a metered room add up to its total, *)
(* those of the pool to the price of its units, both up to the rounding.   *)
RoomPayers == ActiveTenancies \ NonMeteredTenancies
RoomOf(t) == world.population[t].room
OccupiedRooms == {r \in MeteredRooms : In(r) # {}}
RoomAmount(m, extra, t) ==
    RoomTotal(m, RoomOf(t)) \div Cardinality(In(RoomOf(t))) + IF t \in extra THEN 1 ELSE 0
PoolAmount(m, t) ==
    RoundedUp(EffectiveSharedPoolUnits(m) * TenantDaysInMonth(t, m) * UnitPrice(m),
              PoolTenancyDays(m), t)
Priced(value, shares) == \A share \in shares : value[share] = share.amount
PoolPayers(m) == {t \in PoolTenancies : TenantDaysInMonth(t, m) > 0 /\ PoolAmount(m, t) > 0}

(* The units of the occupied metered rooms and those of the pool are those *)
(* of the main meter.                                                      *)
LEMMA UnitsDivided ==
    ASSUME Shapes, ReadingsOK, NEW m \in Months, Billable(m),
           \A r \in Rooms : Has(m, r) => hasMeter[r], NEW units,
           \A r \in OccupiedRooms : units[r] = Consumed(m, r)
    PROVE  /\ IsFiniteSet(OccupiedRooms) /\ SumFunctionOnSet(units, OccupiedRooms) \in Nat
           /\ EffectiveSharedPoolUnits(m)
                = Consumed(m, Main) - SumFunctionOnSet(units, OccupiedRooms)
<1> DEFINE all == [r \in {q \in Rooms : Has(m, q)} |-> Consumed(m, r)]
           empty == {q \in MeteredRooms : In(q) = {}}
           none == [r \in empty |-> Consumed(m, r)]
<1>1. {q \in Rooms : Has(m, q)} = MeteredRooms BY DEF MeteredRooms, Billable
<1>2. /\ IsFiniteSet(MeteredRooms) /\ IsFiniteSet(OccupiedRooms) /\ IsFiniteSet(empty)
      /\ OccupiedRooms \cup empty = MeteredRooms /\ OccupiedRooms \cap empty = {}
  BY FiniteAssumption, FS_Subset DEF MeteredRooms, OccupiedRooms
<1>3. \A r \in MeteredRooms : Consumed(m, r) \in Nat BY UnitsFacts
<1>4. PrivateRoomsUnits(m) = SumFunctionOnSet(all, MeteredRooms)
  BY <1>1 DEF PrivateRoomsUnits, SumFunction
<1>5. VacantMeteredUnits(m) = SumFunctionOnSet(none, empty)
  BY DEF VacantMeteredUnits, SumFunction
<1>6. \A r \in MeteredRooms : all[r] = Consumed(m, r) /\ all[r] \in Int BY <1>1, <1>3
<1>7. \A r \in empty : none[r] = all[r] BY <1>2, <1>6
<1>8. \A r \in OccupiedRooms : units[r] = all[r] /\ all[r] \in Nat BY <1>2, <1>3, <1>6
<1>9. Consumed(m, Main) \in Nat BY UnitsFacts
<1> HIDE DEF all, none, empty
<1>10. SumFunctionOnSet(all, MeteredRooms)
         = SumFunctionOnSet(all, OccupiedRooms) + SumFunctionOnSet(all, empty)
  BY <1>2, <1>6, SumOfParts
<1>11. /\ SumFunctionOnSet(none, empty) = SumFunctionOnSet(all, empty)
       /\ SumFunctionOnSet(units, OccupiedRooms) = SumFunctionOnSet(all, OccupiedRooms)
  BY <1>2, <1>7, <1>8, SumSame
<1>12. SumFunctionOnSet(all, OccupiedRooms) \in Nat /\ SumFunctionOnSet(all, empty) \in Int
  <2>1. SumFunctionOnSet(all, OccupiedRooms) \in Nat BY <1>2, <1>8, SumNat
  <2>2. SumFunctionOnSet(all, empty) \in Int BY <1>2, <1>6, SumInt
  <2> QED BY <2>1, <2>2
<1> QED
  BY <1>2, <1>4, <1>5, <1>9, <1>10, <1>11, <1>12
  DEF EffectiveSharedPoolUnits, RawSharedPoolUnits

(* The quotients are rounded up, and at most by one.                       *)
LEMMA RoundedUpBounds ==
    ASSUME NEW a \in Nat, NEW b \in Nat \ {0}, NEW x
    PROVE  a <= b * RoundedUp(a, b, x) /\ b * RoundedUp(a, b, x) <= a + b
<1> DEFINE p == (a + b - 1) \div b
           e == IF x \in world.above /\ a > 0 /\ a % b = 0 THEN 1 ELSE 0
<1>1. p \in Nat BY DivNat
<1>2. b * p <= a + b - 1 /\ a + b - 1 < b * p + b OBVIOUS
<1>3. b * p \in Nat BY <1>1
<1>4. RoundedUp(a, b, x) = p + e BY DEF RoundedUp
<1>5. CASE e = 0
  <2> HIDE DEF p, e
  <2> QED BY <1>1, <1>2, <1>3, <1>4, <1>5
<1>6. CASE e = 1
  <2> DEFINE q == a \div b
  <2>1. a % b = 0 BY <1>6
  <2>2. q \in Nat /\ a = b * q BY <2>1, DivNat
  <2> HIDE DEF p, q
  <2>3. p <= q
    <3>1. SUFFICES ASSUME q + 1 <= p PROVE FALSE BY <1>1, <2>2
    <3>2. (q + 1) * b <= p * b BY <1>1, <2>2, <3>1, TimesMonotone
    <3>3. (q + 1) * b = b * q + b /\ p * b = b * p BY <1>1, <2>2
    <3> QED BY <1>2, <1>3, <2>2, <3>2, <3>3
  <2>4. b * p <= b * q
    <3>1. p * b <= q * b BY <1>1, <2>2, <2>3, TimesMonotone
    <3> QED BY <1>1, <2>2, <3>1
  <2>5. b * (p + 1) = b * p + b BY <1>1
  <2> HIDE DEF e
  <2> QED BY <1>2, <1>3, <1>4, <1>6, <2>2, <2>4, <2>5
<1>7. e \in {0, 1} OBVIOUS
<1> QED BY <1>5, <1>6, <1>7

LEMMA SameProducts ==
    ASSUME NEW b \in Nat \ {0}, NEW x \in Int, NEW y \in Int, b * x <= b * y
    PROVE  x <= y
<1>1. SUFFICES ASSUME y + 1 <= x PROVE FALSE OBVIOUS
<1>2. PICK k \in Nat : x = y + 1 + k
  <2>1. x - (y + 1) \in Nat /\ x = y + 1 + (x - (y + 1)) BY <1>1
  <2> QED BY <2>1
<1>3. b * x = b * y + b + b * k BY <1>2
<1>4. b * k \in Nat /\ b * y \in Int BY <1>2
<1> QED BY <1>3, <1>4

(* Whoever takes the remainder, the tenants of a room pay its total.       *)
LEMMA RoomPaysTotal ==
    ASSUME Shapes, ReadingsOK, NEW m \in Months, Billable(m),
           NEW extra, SplitsRemainder(m, extra), NEW r \in OccupiedRooms,
           NEW amounts, \A t \in In(r) : amounts[t] = RoomAmount(m, extra, t)
    PROVE  /\ IsFiniteSet(In(r)) /\ Cardinality(In(r)) \in Nat \ {0}
           /\ RoomTotal(m, r) \in Nat
           /\ SumFunctionOnSet(amounts, In(r)) = RoomTotal(m, r)
<1> DEFINE k == Cardinality(In(r))
           q == RoomTotal(m, r) \div k
           base == [t \in In(r) |-> q]
           one == [t \in In(r) |-> IF t \in extra THEN 1 ELSE 0]
<1>1. r \in MeteredRooms /\ In(r) # {} BY DEF OccupiedRooms
<1>2. IsFiniteSet(In(r)) BY FiniteAssumption, FS_Subset DEF In, ActiveTenancies
<1>3. k \in Nat \ {0} BY <1>1, <1>2, FS_CardinalityType, FS_EmptySet
<1>4. RoomTotal(m, r) \in Nat
  <2>1. Consumed(m, r) * UnitPrice(m) \in Nat BY <1>1, UnitsFacts
  <2> QED BY <2>1, RoundedUpFacts DEF RoomTotal
<1>5. Cardinality(extra \cap In(r)) = RoomTotal(m, r) % k BY <1>1 DEF SplitsRemainder
<1>6. q \in Nat /\ q * k + (RoomTotal(m, r) % k) = RoomTotal(m, r)
  <2> HIDE DEF k
  <2> QED BY <1>3, <1>4, DivNat
<1>7. \A t \in In(r) : base[t] = q /\ base[t] \in Int /\ one[t] \in Int
                       /\ amounts[t] = base[t] + one[t]
  <2> HIDE DEF q
  <2>1. \A t \in In(r) : RoomOf(t) = r BY DEF In, RoomOf
  <2>2. \A t \in In(r) : amounts[t] = q + IF t \in extra THEN 1 ELSE 0
    BY <2>1 DEF RoomAmount, q
  <2> QED BY <1>6, <2>2
<1>8. \A t \in In(r) : one[t] = IF t \in extra THEN 1 ELSE 0 OBVIOUS
<1> HIDE DEF base, one, q
<1>9. SumFunctionOnSet(amounts, In(r))
        = SumFunctionOnSet(base, In(r)) + SumFunctionOnSet(one, In(r))
  BY <1>2, <1>7, SumPlus
<1>10. SumFunctionOnSet(base, In(r)) = q * k BY <1>2, <1>6, <1>7, SumOfEqual
<1>11. SumFunctionOnSet(one, In(r)) = Cardinality(extra \cap In(r)) BY <1>2, <1>8, SumCounts
<1> QED BY <1>2, <1>3, <1>4, <1>5, <1>6, <1>9, <1>10, <1>11

LEMMA RoomTotalBounds ==
    ASSUME Shapes, ReadingsOK, NEW m \in Months, Billable(m), NEW r \in MeteredRooms
    PROVE  /\ Consumed(m, r) * UnitPrice(m) <= RoomTotal(m, r)
           /\ RoomTotal(m, r) <= Consumed(m, r) * UnitPrice(m) + 1
<1>1. Consumed(m, r) * UnitPrice(m) \in Nat BY UnitsFacts
<1>2. RoomTotal(m, r) \in Nat BY <1>1, RoundedUpFacts DEF RoomTotal
<1>3. /\ Consumed(m, r) * UnitPrice(m) <= 1 * RoomTotal(m, r)
      /\ 1 * RoomTotal(m, r) <= Consumed(m, r) * UnitPrice(m) + 1
  BY <1>1, RoundedUpBounds DEF RoomTotal
<1> QED BY <1>2, <1>3

(* The tenants of the metered rooms pay what the rooms used.               *)
LEMMA RoomsRecover ==
    ASSUME Shapes, ReadingsOK, NEW m \in Months, Billable(m),
           NEW extra, SplitsRemainder(m, extra),
           NEW amounts, \A t \in RoomPayers : amounts[t] = RoomAmount(m, extra, t),
           NEW units, \A r \in OccupiedRooms : units[r] = Consumed(m, r)
    PROVE  LET total == SumFunctionOnSet(amounts, RoomPayers)
               used == UnitPrice(m) * SumFunctionOnSet(units, OccupiedRooms)
           IN  /\ IsFiniteSet(RoomPayers) /\ \A t \in RoomPayers : amounts[t] \in Nat
               /\ total \in Nat /\ used <= total /\ total <= used + Cardinality(RoomPayers)
<1> DEFINE P == UnitPrice(m)
           R == OccupiedRooms
           to == [t \in RoomPayers |-> RoomOf(t)]
           totals == [r \in R |-> RoomTotal(m, r)]
           prices == [r \in R |-> P * units[r]]
           ones == [t \in RoomPayers |-> 1]
           heads == [r \in R |-> Cardinality(In(r))]
           most == [r \in R |-> P * units[r] + Cardinality(In(r))]
           group == [r \in R |-> In(r)]
<1>1. world \in Worlds /\ P \in Nat BY UnitsFacts DEF Shapes
<1>2. IsFiniteSet(RoomPayers) /\ IsFiniteSet(R)
  BY FiniteAssumption, FS_Subset DEF RoomPayers, ActiveTenancies, OccupiedRooms, MeteredRooms
<1>3. \A t \in RoomPayers : to[t] \in R /\ to[t] = RoomOf(t)
  <2> SUFFICES ASSUME NEW t \in RoomPayers PROVE RoomOf(t) \in R OBVIOUS
  <2>1. t \in Tenancies /\ t \in ActiveTenancies /\ hasMeter[RoomOf(t)]
    BY DEF RoomPayers, NonMeteredTenancies, ActiveTenancies, RoomOf
  <2>2. RoomOf(t) \in Rooms BY <1>1, <2>1, WorldFacts DEF RoomOf
  <2>3. t \in In(RoomOf(t)) BY <2>1 DEF In, RoomOf
  <2> QED BY <2>1, <2>2, <2>3 DEF OccupiedRooms, MeteredRooms
<1>4. \A r \in R : /\ group[r] = In(r) /\ group[r] \subseteq RoomPayers
                   /\ \A t \in RoomPayers : t \in group[r] <=> to[t] = r
  <2> SUFFICES ASSUME NEW r \in R
               PROVE  /\ In(r) \subseteq RoomPayers
                      /\ \A t \in RoomPayers : t \in In(r) <=> to[t] = r
    OBVIOUS
  <2>1. hasMeter[r] BY DEF OccupiedRooms, MeteredRooms
  <2>2. \A t \in RoomPayers : to[t] = r => t \in In(r) BY <1>3 DEF In, RoomPayers, RoomOf
  <2>3. \A t \in In(r) : t \in RoomPayers /\ RoomOf(t) = r
    BY <2>1 DEF In, RoomPayers, RoomOf, NonMeteredTenancies
  <2> HIDE DEF to
  <2> QED BY <1>3, <2>2, <2>3
<1>5. ASSUME NEW r \in R
      PROVE  /\ Cardinality(In(r)) \in Nat \ {0} /\ units[r] \in Nat /\ RoomTotal(m, r) \in Nat
             /\ P * units[r] \in Nat
             /\ totals[r] = SumFunctionOnSet(amounts, In(r))
             /\ heads[r] = SumFunctionOnSet(ones, In(r))
             /\ prices[r] <= totals[r] /\ totals[r] <= most[r]
  <2>1. r \in MeteredRooms BY DEF OccupiedRooms
  <2>2. \A t \in In(r) : amounts[t] = RoomAmount(m, extra, t) /\ ones[t] = 1 BY <1>4
  <2>3. /\ IsFiniteSet(In(r)) /\ Cardinality(In(r)) \in Nat \ {0} /\ RoomTotal(m, r) \in Nat
        /\ SumFunctionOnSet(amounts, In(r)) = RoomTotal(m, r)
    BY <2>2, RoomPaysTotal
  <2>4. units[r] = Consumed(m, r) /\ units[r] \in Nat BY <2>1, UnitsFacts
  <2>5. P * units[r] = Consumed(m, r) * UnitPrice(m) /\ P * units[r] \in Nat BY <1>1, <2>4
  <2>6. P * units[r] <= RoomTotal(m, r) /\ RoomTotal(m, r) <= P * units[r] + 1
    BY <2>1, <2>5, RoomTotalBounds
  <2>7. SumFunctionOnSet(ones, In(r)) = 1 * Cardinality(In(r))
    <3> HIDE DEF ones
    <3> QED BY <2>2, <2>3, SumOfEqual
  <2> HIDE DEF P, ones
  <2> QED BY <2>3, <2>4, <2>5, <2>6, <2>7
<1>6. /\ \A r \in R : /\ prices[r] = P * units[r] /\ prices[r] \in Int /\ totals[r] \in Int
                      /\ most[r] \in Int /\ heads[r] \in Int /\ units[r] \in Int
                      /\ most[r] = prices[r] + heads[r] /\ totals[r] \in Nat
      /\ \A t \in RoomPayers : ones[t] = 1 /\ ones[t] \in Int
  BY <1>5
<1>7. \A t \in RoomPayers : amounts[t] \in Nat
  <2> SUFFICES ASSUME NEW t \in RoomPayers PROVE amounts[t] \in Nat OBVIOUS
  <2> DEFINE r == RoomOf(t)
  <2>1. r \in R BY <1>3
  <2>2. Cardinality(In(r)) \in Nat \ {0} /\ RoomTotal(m, r) \in Nat BY <1>5, <2>1
  <2>3. RoomTotal(m, r) \div Cardinality(In(r)) \in Nat BY <2>2, DivNat
  <2>4. amounts[t] = RoomTotal(m, r) \div Cardinality(In(r)) + IF t \in extra THEN 1 ELSE 0
    BY DEF RoomAmount
  <2> HIDE DEF r
  <2> QED BY <2>3, <2>4
<1>8. \A r \in R : /\ totals[r] = SumFunctionOnSet(amounts, group[r])
                   /\ heads[r] = SumFunctionOnSet(ones, group[r])
                   /\ prices[r] <= totals[r] /\ totals[r] <= most[r]
  BY <1>4, <1>5
<1> DEFINE total == SumFunctionOnSet(amounts, RoomPayers)
<1> HIDE DEF to, group, totals, prices, ones, heads, most, R, P
<1>9. total = SumFunctionOnSet(totals, R) BY <1>2, <1>3, <1>4, <1>7, <1>8, SumOfGroups
<1>10. SumFunctionOnSet(ones, RoomPayers) = SumFunctionOnSet(heads, R)
  BY <1>2, <1>3, <1>4, <1>6, <1>8, SumOfGroups
<1>11. SumFunctionOnSet(ones, RoomPayers) = 1 * Cardinality(RoomPayers)
  BY <1>2, <1>6, SumOfEqual
<1>12. SumFunctionOnSet(prices, R) = P * SumFunctionOnSet(units, R)
  <2>1. P \in Int BY <1>1
  <2> QED BY <1>2, <1>6, <2>1, SumTimes
<1>13. /\ SumFunctionOnSet(prices, R) <= SumFunctionOnSet(totals, R)
       /\ SumFunctionOnSet(totals, R) <= SumFunctionOnSet(most, R)
  BY <1>2, <1>6, <1>8, SumMonotone
<1>14. SumFunctionOnSet(most, R) = SumFunctionOnSet(prices, R) + SumFunctionOnSet(heads, R)
  BY <1>2, <1>6, SumPlus
<1>15. total \in Nat /\ Cardinality(RoomPayers) \in Nat
  BY <1>2, <1>7, SumNat, FS_CardinalityType
<1>16. /\ P * SumFunctionOnSet(units, R) <= total
       /\ total <= P * SumFunctionOnSet(units, R) + Cardinality(RoomPayers)
  <2> DEFINE heads0 == SumFunctionOnSet(heads, R)
             prices0 == SumFunctionOnSet(prices, R)
             used == P * SumFunctionOnSet(units, R)
             payers == Cardinality(RoomPayers)
  <2>1. heads0 = payers BY <1>10, <1>11, <1>15
  <2>2. prices0 = used BY <1>12
  <2>3. prices0 <= total /\ total <= prices0 + heads0 BY <1>9, <1>13, <1>14
  <2> HIDE DEF heads0, prices0, used, payers, total
  <2>4. used <= total /\ total <= used + payers BY <2>1, <2>2, <2>3
  <2> QED BY <2>4 DEF used, payers
<1> QED BY <1>2, <1>7, <1>15, <1>16 DEF P, R

(* Who lived there in the month had a day in it.                           *)
LEMMA DaysThere ==
    ASSUME world \in Worlds, NEW m \in Months, NEW t \in Tenancies, There(t, m)
    PROVE  TenantDaysInMonth(t, m) > 0
<1> DEFINE stay == world.population[t]
           end == IF stay.left = None THEN MonthEnd(m) ELSE Smaller(stay.left, MonthEnd(m))
           from == Larger(stay.joined, MonthStart(m))
<1>1. /\ MonthStart(m) \in Int /\ MonthEnd(m) \in Int /\ MonthStart(m) <= MonthEnd(m)
  <2>1. DaysIn[m] \in Nat \ {0} BY DaysInAssumption
  <2> QED BY <2>1, MonthStartNat DEF MonthEnd
<1>2. stay.joined \in Int /\ (stay.left # None => stay.left \in Int) BY WorldFacts DEF Opt
<1>3. stay.joined <= MonthEnd(m) BY DEF There
<1>4. stay.left # None => stay.joined <= stay.left /\ MonthStart(m) <= stay.left BY DEF There
<1>5. end \in Int /\ from \in Int /\ from <= end
  <2> HIDE DEF stay
  <2> QED BY <1>1, <1>2, <1>3, <1>4 DEF Smaller, Larger
<1>6. TenantDaysInMonth(t, m) = Larger(0, end - from + 1) BY DEF TenantDaysInMonth
<1> HIDE DEF end, from
<1> QED BY <1>5, <1>6 DEF Larger

(* The tenants who shared the pool pay its units, if any of them had a     *)
(* day: who had none, or whose share is nothing, would pay nothing.        *)
LEMMA PoolRecovers ==
    ASSUME Shapes, ReadingsOK, NEW m \in Months, Billable(m),
           NEW someone \in PoolTenancies, There(someone, m),
           NEW amounts, \A t \in PoolPayers(m) : amounts[t] = PoolAmount(m, t)
    PROVE  LET total == SumFunctionOnSet(amounts, PoolPayers(m))
               used == UnitPrice(m) * EffectiveSharedPoolUnits(m)
           IN  /\ IsFiniteSet(PoolPayers(m)) /\ \A t \in PoolPayers(m) : amounts[t] \in Nat
               /\ total \in Nat /\ used <= total /\ total <= used + Cardinality(PoolPayers(m))
<1> DEFINE P == UnitPrice(m)
           E == EffectiveSharedPoolUnits(m)
           D == PoolTenancyDays(m)
           S == PoolTenancies
           K == PoolPayers(m)
           Z == S \ K
           days == [t \in S |-> TenantDaysInMonth(t, m)]
           exact == [t \in S |-> (P * E) * TenantDaysInMonth(t, m)]
           scaled == [t \in K |-> D * amounts[t]]
           grown == [t \in K |-> D]
           most == [t \in K |-> exact[t] + D]
           total == SumFunctionOnSet(amounts, K)
           payers == Cardinality(K)
<1>1. world \in Worlds /\ P \in Nat /\ E \in Nat BY UnitsFacts DEF Shapes
<1>2. S \subseteq Tenancies /\ D \in Nat BY <1>1, PoolDaysFacts
<1>3. /\ IsFiniteSet(S) /\ IsFiniteSet(K) /\ IsFiniteSet(Z)
      /\ K \subseteq S /\ K \cup Z = S /\ K \cap Z = {}
  BY <1>2, FiniteAssumption, FS_Subset DEF PoolPayers
<1>4. \A t \in S : TenantDaysInMonth(t, m) \in Nat BY <1>1, <1>2, DaysFacts
<1>5. D \in Nat \ {0}
  <2>1. TenantDaysInMonth(someone, m) > 0 BY <1>1, <1>2, DaysThere
  <2>2. TenantDaysInMonth(someone, m) <= D BY <1>1, PoolDaysFacts
  <2> QED BY <1>2, <1>4, <2>1, <2>2
<1>6. P * E \in Nat BY <1>1
<1>7. ASSUME NEW t \in S
      PROVE  /\ exact[t] = (P * E) * days[t] /\ exact[t] \in Nat /\ days[t] \in Nat
             /\ PoolAmount(m, t) \in Nat
             /\ exact[t] <= D * PoolAmount(m, t) /\ D * PoolAmount(m, t) <= exact[t] + D
             /\ t \notin K => exact[t] = 0
  <2> DEFINE n == TenantDaysInMonth(t, m)
             a == E * n * P
             x == PoolAmount(m, t)
  <2>1. n \in Nat BY <1>4
  <2>2. a \in Nat /\ a = (P * E) * n /\ exact[t] = (P * E) * n
    <3> HIDE DEF n, P, E
    <3>1. a = (P * E) * n /\ (P * E) * n \in Nat BY <1>1, <2>1
    <3> QED BY <3>1 DEF n
  <2>3. x = RoundedUp(a, D, t) BY DEF PoolAmount
  <2> HIDE DEF a, D, x
  <2>4. x \in Nat BY <1>5, <2>2, <2>3, RoundedUpFacts
  <2>5. a <= D * x /\ D * x <= a + D BY <1>5, <2>2, <2>3, RoundedUpBounds
  <2>6. t \notin K => n = 0 \/ x = 0 BY <2>1, <2>4 DEF PoolPayers, x
  <2>7. n = 0 => a = 0 BY <1>6, <2>2
  <2>8. x = 0 => a = 0 BY <1>5, <2>2, <2>5
  <2> QED BY <2>1, <2>2, <2>4, <2>5, <2>6, <2>7, <2>8 DEF x
<1>8. \A t \in K : amounts[t] = PoolAmount(m, t) /\ amounts[t] \in Nat BY <1>3, <1>7
<1>9. \A t \in K : /\ exact[t] \in Nat /\ scaled[t] = D * amounts[t] /\ scaled[t] \in Nat
                   /\ grown[t] = D /\ most[t] = exact[t] + grown[t] /\ most[t] \in Nat
                   /\ exact[t] <= scaled[t] /\ scaled[t] <= most[t]
  <2> SUFFICES ASSUME NEW t \in K
               PROVE  /\ exact[t] \in Nat /\ D * amounts[t] \in Nat /\ exact[t] + D \in Nat
                      /\ exact[t] <= D * amounts[t] /\ D * amounts[t] <= exact[t] + D
    OBVIOUS
  <2>1. amounts[t] = PoolAmount(m, t) /\ amounts[t] \in Nat BY <1>8
  <2>2. /\ exact[t] \in Nat
        /\ exact[t] <= D * PoolAmount(m, t) /\ D * PoolAmount(m, t) <= exact[t] + D
    BY <1>3, <1>7
  <2> HIDE DEF exact, D, K
  <2> QED BY <1>5, <2>1, <2>2
<1>10. SumFunctionOnSet(days, S) = D BY DEF PoolTenancyDays, SumFunction
<1>11. \A t \in S : days[t] \in Int /\ exact[t] = (P * E) * days[t] /\ exact[t] \in Int BY <1>7
<1>12. \A t \in Z : exact[t] = 0 BY <1>7
<1> HIDE DEF days, exact, scaled, grown, most, Z, K, S, D, P, E
<1>13. SumFunctionOnSet(exact, K) = (P * E) * D
  <2>1. SumFunctionOnSet(exact, S) = (P * E) * SumFunctionOnSet(days, S)
    <3>1. P * E \in Int BY <1>6
    <3> QED BY <1>3, <1>11, <3>1, SumTimes
  <2>2. SumFunctionOnSet(exact, S) = SumFunctionOnSet(exact, K) + SumFunctionOnSet(exact, Z)
    BY <1>3, <1>11, SumOfParts
  <2>3. SumFunctionOnSet(exact, Z) = 0 * Cardinality(Z) BY <1>3, <1>12, SumOfEqual
  <2>4. SumFunctionOnSet(exact, K) \in Int BY <1>3, <1>11, SumInt
  <2>5. Cardinality(Z) \in Nat BY <1>3, FS_CardinalityType
  <2> QED BY <1>10, <2>1, <2>2, <2>3, <2>4, <2>5
<1>14. SumFunctionOnSet(scaled, K) = D * total
  <2>1. D \in Int BY <1>5
  <2>2. \A t \in K : amounts[t] \in Int BY <1>8
  <2> QED BY <1>3, <1>9, <2>1, <2>2, SumTimes
<1>15. SumFunctionOnSet(most, K) = SumFunctionOnSet(exact, K) + SumFunctionOnSet(grown, K)
  <2>1. \A t \in K : exact[t] \in Int /\ grown[t] \in Int BY <1>5, <1>9
  <2> QED BY <1>3, <1>9, <2>1, SumPlus
<1>16. SumFunctionOnSet(grown, K) = D * payers
  <2>1. D \in Int BY <1>5
  <2> QED BY <1>3, <1>9, <2>1, SumOfEqual
<1>17. SumFunctionOnSet(exact, K) <= SumFunctionOnSet(scaled, K)
  <2>1. \A t \in K : exact[t] \in Int /\ scaled[t] \in Int /\ exact[t] <= scaled[t] BY <1>9
  <2> QED BY <1>3, <2>1, SumMonotone
<1>18. SumFunctionOnSet(scaled, K) <= SumFunctionOnSet(most, K)
  <2>1. \A t \in K : scaled[t] \in Int /\ most[t] \in Int /\ scaled[t] <= most[t] BY <1>9
  <2> QED BY <1>3, <2>1, SumMonotone
<1>19. total \in Nat /\ payers \in Nat BY <1>3, <1>8, SumNat, FS_CardinalityType
<1> HIDE DEF total, payers
<1>20. P * E <= total
  <2>1. D * (P * E) <= D * total BY <1>5, <1>6, <1>13, <1>14, <1>17
  <2> QED BY <1>5, <1>6, <1>19, <2>1, SameProducts
<1>21. total <= P * E + payers
  <2>1. D * total <= (P * E) * D + D * payers BY <1>13, <1>14, <1>15, <1>16, <1>18
  <2>2. (P * E) * D + D * payers = D * (P * E + payers)
    <3> DEFINE u == P * E
    <3>1. u \in Nat BY <1>6
    <3> HIDE DEF u
    <3>2. u * D + D * payers = D * (u + payers) BY <1>5, <1>19, <3>1
    <3> QED BY <3>2 DEF u
  <2>3. P * E + payers \in Int BY <1>6, <1>19
  <2> QED BY <1>5, <1>19, <2>1, <2>2, <2>3, SameProducts
<1> QED BY <1>3, <1>8, <1>19, <1>20, <1>21 DEF P, E, K, total, payers

(* The charges of a bill are one per payer of the rooms and of the pool.   *)
LEMMA SharesRecover ==
    ASSUME Shapes, ReadingsOK, NEW m \in Months, Billable(m),
           \A r \in Rooms : Has(m, r) => hasMeter[r],
           NEW someone \in PoolTenancies, There(someone, m),
           NEW extra, SplitsRemainder(m, extra),
           NEW shares, shares = RoomShares(m, extra) \cup PoolShares(m),
           NEW value, Priced(value, shares)
    PROVE  LET total == SumFunctionOnSet(value, shares)
               cost == Consumed(m, Main) * UnitPrice(m)
           IN  /\ IsFiniteSet(shares) /\ \A share \in shares : value[share] \in Nat
               /\ total \in Nat /\ cost <= total /\ total <= cost + Cardinality(shares)
<1> DEFINE A == RoomShares(m, extra)
           B == PoolShares(m)
           K == PoolPayers(m)
           roomAmounts == [t \in RoomPayers |-> RoomAmount(m, extra, t)]
           poolAmounts == [t \in K |-> PoolAmount(m, t)]
           roomShare == [t \in RoomPayers |->
                [tenancy |-> t, kind |-> "METERED_ROOM", amount |-> RoomAmount(m, extra, t)]]
           poolShare == [t \in K |->
                [tenancy |-> t, kind |-> "SHARED_POOL", amount |-> PoolAmount(m, t)]]
           units == [r \in OccupiedRooms |-> Consumed(m, r)]
           P == UnitPrice(m)
           C == Consumed(m, Main)
           E == EffectiveSharedPoolUnits(m)
           U == SumFunctionOnSet(units, OccupiedRooms)
           rooms == SumFunctionOnSet(roomAmounts, RoomPayers)
           pool == SumFunctionOnSet(poolAmounts, K)
           total == SumFunctionOnSet(value, shares)
<1>1. /\ \A t \in RoomPayers : roomAmounts[t] = RoomAmount(m, extra, t)
      /\ \A t \in K : poolAmounts[t] = PoolAmount(m, t)
      /\ \A r \in OccupiedRooms : units[r] = Consumed(m, r)
  OBVIOUS
<1>2. P \in Nat /\ C \in Nat /\ E \in Nat BY UnitsFacts
<1>3. A = {roomShare[t] : t \in RoomPayers} BY DEF RoomShares, RoomAmount, RoomOf, RoomPayers
<1>4. B = {poolShare[t] : t \in K}
  <2>1. \A t \in K : poolShare[t] \in B BY DEF PoolShares, PoolPayers, PoolAmount
  <2>2. \A share \in B : \E t \in K : share = poolShare[t]
    BY DEF PoolShares, PoolPayers, PoolAmount
  <2> HIDE DEF B, K, poolShare
  <2> QED BY <2>1, <2>2
<1>5. /\ \A t \in RoomPayers : /\ roomShare[t].tenancy = t
                               /\ roomShare[t].kind = "METERED_ROOM"
                               /\ roomShare[t].amount = roomAmounts[t]
      /\ \A t \in K : /\ poolShare[t].tenancy = t /\ poolShare[t].kind = "SHARED_POOL"
                      /\ poolShare[t].amount = poolAmounts[t]
  OBVIOUS
<1> HIDE DEF A, B, K, roomAmounts, poolAmounts, roomShare, poolShare, units
<1>6. /\ IsFiniteSet(RoomPayers) /\ (\A t \in RoomPayers : roomAmounts[t] \in Nat)
      /\ rooms \in Nat /\ P * U <= rooms /\ rooms <= P * U + Cardinality(RoomPayers)
  BY <1>1, RoomsRecover
<1>7. /\ IsFiniteSet(K) /\ (\A t \in K : poolAmounts[t] \in Nat)
      /\ pool \in Nat /\ P * E <= pool /\ pool <= P * E + Cardinality(K)
  BY <1>1, PoolRecovers DEF K
<1>8. U \in Nat /\ E = C - U BY <1>1, UnitsDivided
<1>9. shares = A \cup B BY DEF A, B
<1>10. A \cap B = {}
  <2>1. \A share \in A : share.kind = "METERED_ROOM" BY <1>3, <1>5
  <2>2. \A share \in B : share.kind = "SHARED_POOL" BY <1>4, <1>5
  <2> QED BY <2>1, <2>2
<1>11. /\ \A t \in RoomPayers : roomAmounts[t] \in Int /\ value[roomShare[t]] = roomAmounts[t]
       /\ \A t \in K : poolAmounts[t] \in Int /\ value[poolShare[t]] = poolAmounts[t]
  BY <1>3, <1>4, <1>5, <1>6, <1>7, <1>9 DEF Priced
<1>12. /\ \A t, u \in RoomPayers : roomShare[t] = roomShare[u] => t = u
       /\ \A t, u \in K : poolShare[t] = poolShare[u] => t = u
  BY <1>5
<1>13. IsFiniteSet(A) /\ SumFunctionOnSet(value, A) = rooms
  <2>1. \A t \in RoomPayers : roomAmounts[t] \in Int /\ value[roomShare[t]] = roomAmounts[t]
    BY <1>11
  <2>2. \A t, u \in RoomPayers : roomShare[t] = roomShare[u] => t = u BY <1>12
  <2>3. IsFiniteSet(RoomPayers) BY <1>6
  <2> QED BY <1>3, <2>1, <2>2, <2>3, SumOfImage
<1>14. IsFiniteSet(B) /\ SumFunctionOnSet(value, B) = pool
  <2>1. \A t \in K : poolAmounts[t] \in Int /\ value[poolShare[t]] = poolAmounts[t]
    BY <1>11
  <2>2. \A t, u \in K : poolShare[t] = poolShare[u] => t = u BY <1>12
  <2>3. IsFiniteSet(K) BY <1>7
  <2> QED BY <1>4, <2>1, <2>2, <2>3, SumOfImage
<1>15. Cardinality(A) = Cardinality(RoomPayers) BY <1>3, <1>6, <1>12, SameSize
<1>16. Cardinality(B) = Cardinality(K) BY <1>4, <1>7, <1>12, SameSize
<1>17. /\ IsFiniteSet(shares)
       /\ Cardinality(shares) = Cardinality(A) + Cardinality(B) - Cardinality(A \cap B)
  BY <1>9, <1>13, <1>14, FS_Union
<1>18. /\ Cardinality(A) \in Nat /\ Cardinality(B) \in Nat /\ Cardinality(A \cap B) = 0
  BY <1>10, <1>13, <1>14, FS_CardinalityType, FS_EmptySet
<1>19. \A share \in shares : value[share] \in Nat
  BY <1>3, <1>4, <1>6, <1>7, <1>9, <1>11
<1>20. total = rooms + pool
  <2>1. \A share \in shares : value[share] \in Int BY <1>19
  <2> QED BY <1>9, <1>10, <1>13, <1>14, <1>17, <2>1, SumOfParts
<1>21. C * P = P * U + P * E
  <2> HIDE DEF C, P, E, U
  <2>1. C = U + E BY <1>2, <1>8
  <2>2. (U + E) * P = P * U + P * E BY <1>2, <1>8
  <2> QED BY <2>1, <2>2
<1>22. P * U \in Nat /\ P * E \in Nat
  <2> HIDE DEF P, E, U
  <2> QED BY <1>2, <1>8
<1> DEFINE cost == C * P
<1>23. cost <= total /\ total <= cost + Cardinality(shares) /\ total \in Nat
  <2> DEFINE pu == P * U
             pe == P * E
  <2>1. /\ pu \in Nat /\ pe \in Nat /\ cost = pu + pe /\ pu <= rooms /\ pe <= pool
        /\ rooms <= pu + Cardinality(A) /\ pool <= pe + Cardinality(B)
    BY <1>6, <1>7, <1>15, <1>16, <1>21, <1>22
  <2>2. Cardinality(shares) = Cardinality(A) + Cardinality(B) BY <1>17, <1>18
  <2> HIDE DEF pu, pe, cost, rooms, pool, total
  <2> QED BY <1>6, <1>7, <1>18, <1>20, <2>1, <2>2
<1> QED BY <1>17, <1>19, <1>23

(* The dues of a bill are one per charge.                                  *)
LEMMA DuesPerCharge ==
    ASSUME Shapes, NEW j \in JobIds, NEW shares, shares = job[j].shares, IsFiniteSet(shares),
           NEW value, Priced(value, shares)
    PROVE  /\ SumFunction([d \in Created(j) |-> d.amount]) = SumFunctionOnSet(value, shares)
           /\ Cardinality(Created(j)) = Cardinality(shares)
<1> DEFINE due == [share \in shares |->
                [id |-> [month |-> job[j].month, job |-> j, try |-> job[j].tries,
                         tenancy |-> share.tenancy, kind |-> share.kind],
                 amount |-> share.amount, status |-> "UNPAID", line |-> FALSE,
                 named |-> FALSE, cost |-> job[j].cost]]
           new == Created(j)
           owed == [d \in new |-> d.amount]
<1>1. \A share \in shares : share \in Share BY JobFacts
<1>2. new = {due[share] : share \in shares} BY DEF Created
<1>3. \A share \in shares : /\ due[share].id.tenancy = share.tenancy
                            /\ due[share].id.kind = share.kind
                            /\ due[share].amount = share.amount
  OBVIOUS
<1>4. \A share \in shares : value[share] = share.amount BY DEF Priced
<1>5. \A d \in new : owed[d] = d.amount OBVIOUS
<1>6. SumFunction(owed) = SumFunctionOnSet(owed, new) BY DEF SumFunction
<1> HIDE DEF due, owed, new
<1>7. \A a, b \in shares : due[a] = due[b] => a = b
  <2> SUFFICES ASSUME NEW a \in shares, NEW b \in shares, due[a] = due[b] PROVE a = b OBVIOUS
  <2>1. a.tenancy = b.tenancy /\ a.kind = b.kind /\ a.amount = b.amount BY <1>3
  <2> QED BY <1>1, <2>1 DEF Share
<1>8. \A share \in shares : value[share] \in Int /\ owed[due[share]] = value[share]
  <2> SUFFICES ASSUME NEW share \in shares
               PROVE  value[share] \in Int /\ owed[due[share]] = value[share]
    OBVIOUS
  <2>1. share.amount \in Nat BY <1>1 DEF Share
  <2>2. due[share] \in new BY <1>2
  <2> QED BY <1>3, <1>4, <1>5, <2>1, <2>2
<1>9. SumFunctionOnSet(owed, new) = SumFunctionOnSet(value, shares)
  BY <1>2, <1>7, <1>8, SumOfImage
<1>10. Cardinality(new) = Cardinality(shares) BY <1>2, <1>7, SameSize
<1> QED BY <1>6, <1>9, <1>10 DEF owed, new

-----------------------------------------------------------------------------
(* What a bill in progress has computed is what the stored readings say,   *)
(* while nothing disturbs its month.                                       *)
ComputedAt(m, shares) ==
    /\ Billable(m)
    /\ \E extra \in SUBSET RoomPayers :
         SplitsRemainder(m, extra) /\ shares = RoomShares(m, extra) \cup PoolShares(m)
ComputedOK == \A m \in Months \ disturbed : \A j \in BillsOf(m) : ComputedAt(m, job[j].shares)

(* Only the readings of the month and the meters count.                    *)
LEMMA ComputedSame ==
    ASSUME NEW m \in Months, NEW shares, UNCHANGED <<world, hasMeter>>, reading'[m] = reading[m],
           ComputedAt(m, shares)
    PROVE  ComputedAt(m, shares)'
<1> DEFINE f == [r \in {q \in Rooms : Has(m, q)} |-> Consumed(m, r)]
           g == [r \in {q \in MeteredRooms : In(q) = {}} |-> Consumed(m, r)]
<1>1. /\ \A x : Has(m, x)' = Has(m, x) /\ Consumed(m, x)' = Consumed(m, x)
      /\ UnitPrice(m)' = UnitPrice(m)
  BY DEF Has, Consumed, UnitPrice
<1>2. /\ MeteredRooms' = MeteredRooms /\ ActiveTenancies' = ActiveTenancies
      /\ NonMeteredTenancies' = NonMeteredTenancies /\ PoolTenancies' = PoolTenancies
      /\ RoomPayers' = RoomPayers /\ \A r : In(r)' = In(r)
  BY DEF MeteredRooms, ActiveTenancies, NonMeteredTenancies, PoolTenancies, RoomPayers, In
<1>3. PrivateRoomsUnits(m)' = PrivateRoomsUnits(m)
  <2>1. {q \in Rooms : Has(m, q)}' = {q \in Rooms : Has(m, q)} BY <1>1
  <2>2. f' = f BY <1>1, <2>1
  <2> HIDE DEF f
  <2>3. PrivateRoomsUnits(m) = SumFunction(f) BY DEF PrivateRoomsUnits, f
  <2>4. PrivateRoomsUnits(m)' = SumFunction(f') BY DEF PrivateRoomsUnits, f
  <2> QED BY <2>2, <2>3, <2>4
<1>4. VacantMeteredUnits(m)' = VacantMeteredUnits(m)
  <2>1. {q \in MeteredRooms : In(q) = {}}' = {q \in MeteredRooms : In(q) = {}} BY <1>2
  <2>2. g' = g BY <1>1, <2>1
  <2> HIDE DEF g
  <2>3. VacantMeteredUnits(m) = SumFunction(g) BY DEF VacantMeteredUnits, g
  <2>4. VacantMeteredUnits(m)' = SumFunction(g') BY DEF VacantMeteredUnits, g
  <2> QED BY <2>2, <2>3, <2>4
<1>5. /\ RawSharedPoolUnits(m)' = RawSharedPoolUnits(m)
      /\ EffectiveSharedPoolUnits(m)' = EffectiveSharedPoolUnits(m)
  BY <1>1, <1>3, <1>4 DEF RawSharedPoolUnits, EffectiveSharedPoolUnits
<1>6. /\ \A t : TenantDaysInMonth(t, m)' = TenantDaysInMonth(t, m)
      /\ PoolTenancyDays(m)' = PoolTenancyDays(m)
      /\ \A a, b, x : RoundedUp(a, b, x)' = RoundedUp(a, b, x)
  BY DEF TenantDaysInMonth, PoolTenancyDays, RoundedUp, PoolTenancies, NonMeteredTenancies,
     ActiveTenancies
<1>7. \A r : RoomTotal(m, r)' = RoomTotal(m, r) BY <1>1, <1>6 DEF RoomTotal
<1>8. Billable(m)' BY <1>1, <1>2, <1>5 DEF Billable, ComputedAt
<1>9. PICK extra \in SUBSET RoomPayers :
        SplitsRemainder(m, extra) /\ shares = RoomShares(m, extra) \cup PoolShares(m)
  BY DEF ComputedAt
<1>10. SplitsRemainder(m, extra)' BY <1>2, <1>7, <1>9 DEF SplitsRemainder
<1>11. RoomShares(m, extra)' = RoomShares(m, extra) BY <1>2, <1>7 DEF RoomShares
<1>12. PoolShares(m)' = PoolShares(m) BY <1>1, <1>2, <1>5, <1>6 DEF PoolShares
<1> QED BY <1>2, <1>8, <1>9, <1>10, <1>11, <1>12 DEF ComputedAt

(* A bill in progress goes on with what it computed, or computes it.       *)
LEMMA BillsGoOn ==
    ASSUME Shapes, [Next]_vars, NEW m \in Months, NEW j \in JobIds, j \in BillsOf(m)'
    PROVE  \/ j \in BillsOf(m) /\ job'[j].shares = job[j].shares
           \/ /\ UNCHANGED <<world, hasMeter, reading>>
              /\ ComputedAt(m, job'[j].shares)
<1> DEFINE Goal == \/ j \in BillsOf(m) /\ job'[j].shares = job[j].shares
                   \/ UNCHANGED <<world, hasMeter, reading>> /\ ComputedAt(m, job'[j].shares)
<1>1. job'[j].month = m /\ job'[j].stage \in {"read", "deleted"} BY DEF BillsOf, Computing
<1>2. job \in [JobIds -> JobRow] /\ job[j] \in JobRow BY DEF Shapes
<1>3. CASE job' = job BY <1>1, <1>3 DEF BillsOf, Computing
<1>4. ASSUME NEW s \in Slots, SubmitBillingRun(s) \/ \E marked \in BOOLEAN : AbortSubmission(s, marked)
      PROVE  Goal
  <2>1. PICK k, row : job' = [job EXCEPT ![k] = row] /\ row.stage \in {"queued", "lost"}
    <3> DEFINE n == Cardinality(Enqueued) + 1
               queued == [NoJob EXCEPT !.stage = "queued", !.month = sub[s].month]
               lost == [NoJob EXCEPT !.stage = "lost", !.month = sub[s].month]
    <3>1. job' = [job EXCEPT ![n] = queued] \/ job' = [job EXCEPT ![n] = lost]
      BY <1>4 DEF SubmitBillingRun, AbortSubmission
    <3>2. queued.stage = "queued" /\ lost.stage = "lost" BY DEF NoJob
    <3> HIDE DEF n, queued, lost
    <3> QED BY <3>1, <3>2
  <2>2. j # k BY <1>1, <1>2, <2>1
  <2>3. job'[j] = job[j] BY <1>2, <2>1, <2>2
  <2> QED BY <1>1, <2>3 DEF BillsOf, Computing
<1>5. ASSUME NEW k \in JobIds, RunBilling(k), UNCHANGED world PROVE Goal
  <2>1. CASE RunBillingRead(k)
    <3>1. CASE j = k
      <4>1. PICK extra \in SUBSET RoomPayers :
              /\ SplitsRemainder(job[k].month, extra)
              /\ job' = [job EXCEPT ![k].stage = "read",
                   ![k].shares = RoomShares(job[k].month, extra) \cup PoolShares(job[k].month),
                   ![k].cost = Consumed(job[k].month, Main) * UnitPrice(job[k].month)]
        BY <2>1 DEF RunBillingRead, RoomPayers
      <4>2. job'[j].shares = RoomShares(job[k].month, extra) \cup PoolShares(job[k].month)
            /\ job'[j].month = job[k].month
        BY <1>2, <3>1, <4>1 DEF JobRow
      <4>3. Billable(m) /\ UNCHANGED <<hasMeter, reading>>
        BY <1>1, <2>1, <4>2 DEF RunBillingRead, Billable, meters
      <4> QED BY <1>1, <1>5, <4>1, <4>2, <4>3 DEF ComputedAt
    <3>2. CASE j # k
      <4>1. job'[j] = job[j] BY <1>2, <2>1, <3>2 DEF RunBillingRead
      <4> QED BY <1>1, <4>1 DEF BillsOf, Computing
    <3> QED BY <3>1, <3>2
  <2>2. CASE RunBillingDelete(k)
    <3>1. /\ job[k].stage = "read"
          /\ job' = [job EXCEPT ![k].stage = "deleted", ![k].found = Replaceable(job[k].month),
                                ![k].held = Replaceable(job[k].month) \ Locked]
      BY <2>2 DEF RunBillingDelete
    <3>2. job'[j].shares = job[j].shares /\ job'[j].month = job[j].month
          /\ (j = k \/ job'[j].stage = job[j].stage)
      BY <1>2, <3>1 DEF JobRow
    <3> QED BY <1>1, <3>1, <3>2 DEF BillsOf, Computing
  <2>3. CASE RunBillingCommit(k)
    <3>1. job' = [job EXCEPT ![k].stage = "committed", ![k].held = {}]
      BY <2>3 DEF RunBillingCommit
    <3>2. j # k BY <1>1, <1>2, <3>1 DEF JobRow
    <3>3. job'[j] = job[j] BY <1>2, <3>1, <3>2
    <3> QED BY <1>1, <3>3 DEF BillsOf, Computing
  <2>4. CASE RunBillingSkip(k) \/ RunBillingEmit(k) \/ RunBillingFail(k)
    <3>1. PICK row : job' = [job EXCEPT ![k] = row] /\ row.stage \notin {"read", "deleted"}
      <4> DEFINE done == [NoJob EXCEPT !.stage = "done", !.month = job[k].month,
                                       !.tries = job[k].tries]
                 failed == Retried([NoJob EXCEPT !.month = job[k].month, !.tries = job[k].tries],
                                   "queued")
      <4>1. job' = [job EXCEPT ![k] = done] \/ job' = [job EXCEPT ![k] = failed]
        BY <2>4 DEF RunBillingSkip, RunBillingEmit, RunBillingFail
      <4>2. done.stage = "done" /\ failed.stage \in {"queued", "dead"} BY DEF NoJob, Retried
      <4> HIDE DEF done, failed
      <4> QED BY <4>1, <4>2
    <3>2. j # k BY <1>1, <1>2, <3>1
    <3>3. job'[j] = job[j] BY <1>2, <3>1, <3>2
    <3> QED BY <1>1, <3>3 DEF BillsOf, Computing
  <2> QED BY <1>5, <2>1, <2>2, <2>3, <2>4 DEF RunBilling
<1>6. \/ job' = job
      \/ \E s \in Slots : SubmitBillingRun(s) \/ \E marked \in BOOLEAN : AbortSubmission(s, marked)
      \/ UNCHANGED world /\ \E k \in JobIds : RunBilling(k)
  BY DEF Next, vars, Submission, SubmitAllReadingsRead, SubmitReading, EditRoom, MakePayment,
     InitiatePayment, CollectDue, Counting
<1> QED BY <1>3, <1>4, <1>5, <1>6

(* A month whose bill is in progress stays as it is, unless it is disturbed. *)
LEMMA MonthStays ==
    ASSUME Shapes, ReadingsOK, [Next]_vars, NEW m \in Months, BillsOf(m) # {}, m \notin disturbed'
    PROVE  UNCHANGED <<world, hasMeter>> /\ reading'[m] = reading[m]
<1> DEFINE Goal == UNCHANGED <<world, hasMeter>> /\ reading'[m] = reading[m]
<1>1. UNCHANGED world BY DEF Next, vars
<1>2. ASSUME NEW r \in Rooms, EditRoom(r) PROVE Goal
  <2>1. m \in disturbed' BY <1>2 DEF EditRoom
  <2> QED BY <2>1
<1>3. ASSUME NEW s \in Slots, NEW x \in Meters, SubmitReading(s, x) PROVE Goal
  <2>1. reading' = [reading EXCEPT ![sub[s].month][x] = sub[s].new[x]] /\ UNCHANGED hasMeter
    BY <1>3 DEF SubmitReading
  <2>2. sub[s].month # m
    <3>1. sub[s].month = m => m \in disturbed' BY <1>3 DEF SubmitReading
    <3> QED BY <3>1
  <2>3. reading \in [Months -> [Meters -> Opt(Reading)]] BY DEF Shapes
  <2>4. reading'[m] = reading[m] BY <2>1, <2>2, <2>3
  <2> QED BY <1>1, <2>1, <2>4
<1>4. \/ UNCHANGED <<hasMeter, reading>>
      \/ \E r \in Rooms : EditRoom(r)
      \/ \E s \in Slots, x \in Meters : SubmitReading(s, x)
  BY DEF Next, vars, Submission, SubmitAllReadingsRead, SubmitBillingRun, AbortSubmission,
     RunBilling, RunBillingSkip, RunBillingRead, RunBillingDelete, RunBillingCommit,
     RunBillingEmit, RunBillingFail, MakePayment, InitiatePayment, CollectDue, Counting, meters
<1> QED BY <1>1, <1>2, <1>3, <1>4

LEMMA DisturbedGrows ==
    ASSUME [Next]_vars PROVE disturbed \subseteq disturbed'
BY DEF Next, vars, Submission, SubmitAllReadingsRead, SubmitReading, SubmitBillingRun,
   AbortSubmission, EditRoom, RunBilling, RunBillingSkip, RunBillingRead, RunBillingDelete,
   RunBillingCommit, RunBillingEmit, RunBillingFail, MakePayment, InitiatePayment, CollectDue,
   Counting, meters

LEMMA ComputedGood == ASSUME IInv, ComputedOK, [Next]_vars PROVE ComputedOK'
<1>1. Shapes /\ ReadingsOK BY DEF IInv, Books
<1>2. ASSUME NEW m \in Months, m \notin disturbed', NEW j \in JobIds, j \in BillsOf(m)'
      PROVE  ComputedAt(m, job[j].shares)'
  <2>1. PICK S : S = job'[j].shares OBVIOUS
  <2>2. ComputedAt(m, S) /\ UNCHANGED <<world, hasMeter>> /\ reading'[m] = reading[m]
    <3>1. CASE j \in BillsOf(m) /\ job'[j].shares = job[j].shares
      <4>1. UNCHANGED <<world, hasMeter>> /\ reading'[m] = reading[m]
        BY <1>1, <1>2, <3>1, MonthStays
      <4>2. ComputedAt(m, job[j].shares) BY <1>2, <3>1, DisturbedGrows DEF ComputedOK
      <4> QED BY <2>1, <3>1, <4>1, <4>2
    <3>2. CASE UNCHANGED <<world, hasMeter, reading>> /\ ComputedAt(m, job'[j].shares)
      BY <2>1, <3>2
    <3> QED BY <1>1, <1>2, <3>1, <3>2, BillsGoOn
  <2>3. ComputedAt(m, S)' BY <2>2, ComputedSame
  <2> QED BY <2>1, <2>3 DEF ComputedAt
<1>3. \A m \in Months : \A j \in BillsOf(m)' : j \in JobIds BY DEF BillsOf
<1> QED BY <1>2, <1>3 DEF ComputedOK

(* A job that commits has its bill from the step before, and no due of the *)
(* same attempt was there already.                                         *)
LEMMA CommitIsNew ==
    ASSUME IInv, [Next]_vars, NEW j \in JobIds,
           job[j].stage = "deleted", job'[j].stage = "committed"
    PROVE  /\ job[j].month \in Months /\ j \in BillsOf(job[j].month)
           /\ {d \in dues' : d.id.job = j /\ d.id.try = job[j].tries} = Created(j)
<1>1. Shapes /\ job \in [JobIds -> JobRow] BY DEF IInv, Shapes
<1>2. job[j].month \in Months BY DEF IInv, Ledger, JobOK
<1>3. RunBillingCommit(j)
  <2>1. \/ job' = job
        \/ \E s \in Slots : SubmitBillingRun(s) \/ \E marked \in BOOLEAN : AbortSubmission(s, marked)
        \/ \E k \in JobIds : RunBilling(k)
    BY DEF Next, vars, Submission, SubmitAllReadingsRead, SubmitReading, EditRoom, MakePayment,
       InitiatePayment, CollectDue, Counting
  <2>2. ASSUME NEW s \in Slots,
               SubmitBillingRun(s) \/ \E marked \in BOOLEAN : AbortSubmission(s, marked)
        PROVE  FALSE
    <3> DEFINE n == Cardinality(Enqueued) + 1
               queued == [NoJob EXCEPT !.stage = "queued", !.month = sub[s].month]
               lost == [NoJob EXCEPT !.stage = "lost", !.month = sub[s].month]
    <3>1. job' = [job EXCEPT ![n] = queued] \/ job' = [job EXCEPT ![n] = lost]
      BY <2>2 DEF SubmitBillingRun, AbortSubmission
    <3>2. queued.stage = "queued" /\ lost.stage = "lost" BY DEF NoJob
    <3> HIDE DEF n, queued, lost
    <3> QED BY <1>1, <3>1, <3>2
  <2>3. ASSUME NEW k \in JobIds, RunBilling(k), k # j PROVE FALSE
    <3>1. job'[j] = job[j]
      BY <1>1, <2>3 DEF RunBilling, RunBillingSkip, RunBillingRead, RunBillingDelete,
         RunBillingCommit, RunBillingEmit, RunBillingFail
    <3> QED BY <3>1
  <2>4. RunBilling(j) => RunBillingCommit(j)
    <3>1. ~RunBillingSkip(j) /\ ~RunBillingRead(j) /\ ~RunBillingDelete(j) /\ ~RunBillingEmit(j)
      BY DEF RunBillingSkip, RunBillingRead, RunBillingDelete, RunBillingEmit
    <3>2. ~RunBillingFail(j)
      <4> DEFINE failed == Retried([NoJob EXCEPT !.month = job[j].month, !.tries = job[j].tries],
                                   "queued")
      <4>1. RunBillingFail(j) => job' = [job EXCEPT ![j] = failed] BY DEF RunBillingFail
      <4>2. failed.stage \in {"queued", "dead"} BY DEF NoJob, Retried
      <4> HIDE DEF failed
      <4> QED BY <1>1, <4>1, <4>2
    <3> QED BY <3>1, <3>2 DEF RunBilling
  <2> QED BY <2>1, <2>2, <2>3, <2>4
<1>4. dues' = {d \in dues : ~Old(d, job[j].found)} \cup Created(j) BY <1>3 DEF RunBillingCommit
<1>5. \A d \in dues : ~(d.id.job = j /\ d.id.try = job[j].tries)
  <2>1. \A d \in dues : DueOK(d) BY DEF IInv, Ledger
  <2> QED BY <2>1 DEF DueOK
<1>6. \A d \in Created(j) : d.id.job = j /\ d.id.try = job[j].tries BY <1>1, <1>2, CreatedFacts
<1> QED BY <1>2, <1>4, <1>5, <1>6 DEF BillsOf, Computing

(* An undisturbed bill recovers the cost of its month, and exceeds it by   *)
(* at most one unit per due: for any rooms, meters, stays and rounding.    *)
THEOREM CostsRecovered == Spec => CostRecovered
<1> DEFINE Recovers(j) ==
             LET m == job[j].month
                 new == {d \in dues' : d.id.job = j /\ d.id.try = job[j].tries}
                 cost == Consumed(m, Main) * UnitPrice(m)
             IN  /\ job[j].stage = "deleted" /\ job'[j].stage = "committed"
                 /\ m \notin disturbed'
                 /\ \A r \in Rooms : Has(m, r) => hasMeter[r]
                 /\ \E t \in PoolTenancies : There(t, m)
                 => LET total == SumFunction([d \in new |-> d.amount])
                    IN  cost <= total /\ total <= cost + Cardinality(new)
<1>1. ASSUME IInv, ComputedOK, [Next]_vars, NEW j \in JobIds PROVE Recovers(j)
  <2> DEFINE m == job[j].month
             new == {d \in dues' : d.id.job = j /\ d.id.try = job[j].tries}
             cost == Consumed(m, Main) * UnitPrice(m)
             shares == job[j].shares
             value == [share \in shares |-> share.amount]
  <2> SUFFICES ASSUME job[j].stage = "deleted", job'[j].stage = "committed", m \notin disturbed',
                      \A r \in Rooms : Has(m, r) => hasMeter[r],
                      \E t \in PoolTenancies : There(t, m)
               PROVE  LET total == SumFunction([d \in new |-> d.amount])
                      IN  cost <= total /\ total <= cost + Cardinality(new)
    OBVIOUS
  <2>1. m \in Months /\ j \in BillsOf(m) /\ new = Created(j) BY <1>1, CommitIsNew
  <2>2. Shapes /\ ReadingsOK /\ m \notin disturbed BY <1>1, DisturbedGrows DEF IInv, Books
  <2>3. ComputedAt(m, shares) BY <1>1, <2>1, <2>2 DEF ComputedOK
  <2>4. PICK extra \in SUBSET RoomPayers :
          SplitsRemainder(m, extra) /\ shares = RoomShares(m, extra) \cup PoolShares(m)
    BY <2>3 DEF ComputedAt
  <2>5. PICK someone \in PoolTenancies : There(someone, m) OBVIOUS
  <2>6. Billable(m) BY <2>3 DEF ComputedAt
  <2>7. Priced(value, shares) BY DEF Priced
  <2>8. \A r \in Rooms : Has(m, r) => hasMeter[r] OBVIOUS
  <2> HIDE DEF m, new, shares, value
  <2>9. /\ IsFiniteSet(shares) /\ cost <= SumFunctionOnSet(value, shares)
        /\ SumFunctionOnSet(value, shares) <= cost + Cardinality(shares)
    BY <2>1, <2>2, <2>4, <2>5, <2>6, <2>7, <2>8, SharesRecover
  <2>10. shares = job[j].shares BY DEF shares
  <2>11. /\ SumFunction([d \in Created(j) |-> d.amount]) = SumFunctionOnSet(value, shares)
         /\ Cardinality(Created(j)) = Cardinality(shares)
    BY <2>2, <2>7, <2>9, <2>10, DuesPerCharge
  <2> QED BY <2>1, <2>9, <2>11
<1>2. IInv /\ ComputedOK /\ [Next]_vars => [\A j \in JobIds : Recovers(j)]_vars BY <1>1
<1>3. Init => ComputedOK
  <2> SUFFICES ASSUME Init, NEW m \in Months PROVE BillsOf(m) = {} BY DEF ComputedOK
  <2>1. \A j \in JobIds : job[j] = NoJob BY DEF Init
  <2> QED BY <2>1, NoJobFacts DEF BillsOf, Computing
<1>4. IInv /\ ComputedOK /\ [Next]_vars => ComputedOK' BY ComputedGood
<1> QED BY <1>2, <1>3, <1>4, Inductive, PTL DEF Spec, CostRecovered
=============================================================================
