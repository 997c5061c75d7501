\* Readings of two months, billed and billed again.
SPECIFICATION Spec
CONSTANTS
    Months = {1, 2}
    Attempts = 2
    Rooms = {r1, r2}
    Tenancies = {t1, t2, t3}
    r1 = r1
    r2 = r2
    t1 = t1
    t2 = t2
    t3 = t3
    Metered = {r1}
    Initial <- MCInitial
    DaysIn <- MCDaysIn
    Readings = {1, 3}
    Prices = {2}
    MaxJobs = 2
    Slots = {s1}
    Worlds <- MCWorlds
    Main = Main
    None = None
CHECK_DEADLOCK FALSE
INVARIANTS
    TypeOK
    FairShares
    BilledOnceAsRead
    ReadingsChain
    CountedPerAttempt
    AnnouncedUnlessInterrupted
PROPERTIES
    CostRecovered
    CollectedStays
    SubmittedIsBilled
    AnnouncedIsCounted
