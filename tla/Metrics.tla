------------------------------- MODULE Metrics -------------------------------
(***************************************************************************)
(* The counters of a property: metrics.listener.ts turns the event of a    *)
(* new due into a job, metrics.worker.ts adds the due to the row of its    *)
(* month in PropertyMetrics and then to a hash in Redis. BullMQ runs a job *)
(* again until an attempt succeeds, at most Attempts times.                *)
(*                                                                         *)
(* The module has no specification of its own; Electricity creates dues.   *)
(***************************************************************************)
EXTENDS Integers, FiniteSets

CONSTANTS
    Months,    \* consecutive billing months
    Attempts   \* attempts of a job (3)

ASSUME MonthsAssumption == IsFiniteSet(Months) /\ Months = 1..Cardinality(Months)
ASSUME AttemptsAssumption == Attempts \in Nat \ {0}

VARIABLES
    tally,      \* the metrics job of each announced due and what it has counted
    metricsRow  \* months with a PropertyMetrics row

(* rows, cache: how often the due was added to PropertyMetrics and Redis.  *)
Tally == [stage: {"waiting", "rows", "cache", "done", "dead"}, tries: 0..Attempts,
          rows: Nat, cache: Nat]
Waiting == [stage |-> "waiting", tries |-> 0, rows |-> 0, cache |-> 0]
Ended == {"done", "dead"}

(* onDueCreated. The job id is that of the due, which is never used again. *)
AnnouncedMutant(dues) == tally
Announced(dues) == [d \in DOMAIN tally \cup dues |-> IF d \in DOMAIN tally THEN tally[d]
                                                                         ELSE Waiting]

(* handleDueCreated: the update throws when the month has no row.          *)
CountRow(d) ==
    /\ tally[d].stage = "waiting"
    /\ d.month \in metricsRow
    /\ tally' = [tally EXCEPT ![d].stage = "rows", ![d].rows = @ + 1]
CountCacheMutant(d) ==
    /\ tally[d].stage = "waiting"
    /\ tally' = [tally EXCEPT ![d].stage = "cache", ![d].cache = @ + 1]
CountCache(d) ==
    /\ tally[d].stage = "rows"
    /\ tally' = [tally EXCEPT ![d].stage = "cache", ![d].cache = @ + 1]
(* The worker reports success to the queue.                                *)
Acknowledge(d) ==
    /\ tally[d].stage = "cache"
    /\ tally' = [tally EXCEPT ![d].stage = "done"]

(* A write throws or the worker dies: the whole job runs again.            *)
RetriedMutant(job, idle) == [job EXCEPT !.tries = @ + 1, !.stage = idle]
RetriedLostMutant(job, idle) ==
    IF job.tries + 1 = Attempts THEN job ELSE [job EXCEPT !.tries = @ + 1, !.stage = idle]
Retried(job, idle) ==
    [job EXCEPT !.tries = @ + 1, !.stage = IF job.tries + 1 = Attempts THEN "dead" ELSE idle]
FailCount(d) ==
    /\ tally[d].stage \notin Ended
    /\ tally' = [tally EXCEPT ![d] = Retried(@, "waiting")]

WorkerStep(d) == CountRow(d) \/ CountCache(d) \/ Acknowledge(d) \/ FailCount(d)

(* The row of a month is inserted by a move-in or a shift in that month.   *)
UpsertMetricsRow(m) ==
    /\ metricsRow' = metricsRow \cup {m}
    /\ m \notin metricsRow
==============================================================================
