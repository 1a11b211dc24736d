---------------------------- MODULE HealthMetrics ----------------------------
(***************************************************************************)
(* What computeMetrics (health.service.ts) answers: three queries without  *)
(* a transaction, while executions are created, run, cancelled and         *)
(* deleted, and the buckets, totals and rates it makes of their rows.      *)
(*                                                                         *)
(* Time goes in steps of one part of an hour and an hour's key is its      *)
(* number modulo Day, as the hour of the clock is.  The window starts Day  *)
(* hours before the request, in the middle of an hour as a rule, so that   *)
(* Day + 1 hours have executions in it, the first with the key of the last.*)
(* The names of statuses stand for themselves; durations are in Durations. *)
(***************************************************************************)
EXTENDS Integers, FiniteSetsExt

CONSTANTS
  Executions,
  Durations,  \* durationMs of a run
  Day,        \* 24
  Parts,      \* parts an hour is divided in
  MaxTime     \* bound on time

ASSUME MetricsAssumption ==
  /\ IsFiniteSet(Executions) /\ Durations \subseteq Nat
  /\ Day \in Nat \ {0} /\ Parts \in Nat \ {0} /\ MaxTime \in Nat

VARIABLES
  time,
  rows,     \* the table: status, createdAt and durationMs of the executions in it
  gone,     \* ids of the deleted ones
  asked,    \* when the request came, None if none is under way
  waiting,  \* its queries that have not been answered
  active,   \* the answers
  hourly,   \* hourly by the hour: the rows come ordered by it
  counts,
  left,     \* hours of that answer the loop has not come to
  chart,    \* hourlyMap
  totalSuccess, totalFailed,
  moved     \* history: executions written since the request came

table       == <<time, rows, gone>>
answers     == <<active, hourly, counts>>
loop        == <<left, chart, totalSuccess, totalFailed>>
metricsVars == <<table, asked, waiting, answers, loop, moved>>

Queries  == {"active", "hourly", "counts"}
Statuses == {"PENDING", "RUNNING", "SUCCESS", "FAILED", "TIMEOUT", "CANCELLED"}
None     == -1   \* NULL, and no request

HourOf(t) == t \div Parts
Key(hour) == hour % Day
Keys      == 0 .. Day - 1

NoBucket == [success |-> 0, failed |-> 0, avgMs |-> 0]

Bars    == [k \in Keys |-> NoBucket]
Zeros   == [s \in Statuses |-> 0]
NoHours == [h \in {} |-> NoBucket]

MetricsInit ==
  /\ time = 0
  /\ rows = [e \in {} |-> e] /\ gone = {}
  /\ asked = None /\ waiting = {}
  /\ active = 0 /\ hourly = NoHours /\ counts = Zeros
  /\ left = {} /\ chart = Bars /\ totalSuccess = 0 /\ totalFailed = 0
  /\ moved = {}

-----------------------------------------------------------------------------
(* The clock and the writers of executions.                                 *)

Tick ==
  /\ time < MaxTime
  /\ time' = time + 1
  /\ UNCHANGED <<rows, gone, asked, waiting, answers, loop, moved>>

\* Bound: an execution is written once while a request is under way.
Moves(e) ==
  /\ e \notin moved
  /\ moved' = IF asked = None THEN {} ELSE moved \cup {e}
  /\ UNCHANGED <<time, asked, waiting, answers, loop>>

Create(e) ==
  /\ e \notin DOMAIN rows \cup gone
  /\ rows' = [f \in DOMAIN rows \cup {e} |->
                IF f = e THEN [status |-> "PENDING", at |-> time, ms |-> None] ELSE rows[f]]
  /\ UNCHANGED gone
  /\ Moves(e)

Status(e) == rows[e].status

Set(e, s, ms) ==
  /\ rows' = [rows EXCEPT ![e] = [status |-> s, at |-> rows[e].at, ms |-> ms]]
  /\ UNCHANGED gone
  /\ Moves(e)

\* handleRun writes RUNNING over any status: a job may be delivered again, and
\* a cancel may come after the check.  The duration of an earlier run stays.
Begin(e) == Set(e, "RUNNING", rows[e].ms)

\* Over any status but the first: handlers of one execution may overlap.
Settle(e) ==
  /\ Status(e) # "PENDING"
  /\ \/ \E s \in {"SUCCESS", "FAILED", "TIMEOUT"}, ms \in Durations : Set(e, s, ms)
     \/ Set(e, "FAILED", rows[e].ms)

\* Over any status: cancel reads PENDING or RUNNING, and writes a query later.
Cancel(e) == Set(e, "CANCELLED", rows[e].ms)

\* The deletion of its workflow.
Delete(e) ==
  /\ rows' = [f \in DOMAIN rows \ {e} |-> rows[f]]
  /\ gone' = gone \cup {e}
  /\ Moves(e)

-----------------------------------------------------------------------------
(* A request.                                                               *)

Ask ==
  /\ asked = None
  /\ asked' = time /\ waiting' = Queries
  /\ UNCHANGED <<table, answers, loop, moved>>

Answer(query) ==
  /\ query \in waiting
  /\ waiting' = waiting \ {query}
  /\ UNCHANGED <<table, asked, moved>>

since == asked - Day * Parts

InWindow == {e \in DOMAIN rows : rows[e].at >= since}

Active == {"PENDING", "RUNNING"}

CountActive(es) == Cardinality({e \in es : Status(e) \in Active})

\* Seeded bug: the count of active executions has the window of the others.
ActiveInWindow == CountActive(InWindow)

ActiveNow == CountActive(DOMAIN rows)

QueryActive ==
  /\ Answer("active")
  /\ active' = ActiveNow
  /\ UNCHANGED <<hourly, counts, loop>>

Count(es, s) == Cardinality({e \in es : Status(e) = s})

\* COUNT and SUM of one hour's executions.
Timed(es) == {e \in es : rows[e].ms # None}
SumMs(es) == MapThenSumSet(LAMBDA e : rows[e].ms, Timed(es))

HourRow(es) ==
  [success |-> Count(es, "SUCCESS"), failed |-> Count(es, "FAILED"),
   timed |-> Cardinality(Timed(es)), ms |-> SumMs(es)]

\* GROUP BY the hour.
Hour(e) == HourOf(rows[e].at)
ByHour(es) == [h \in {Hour(e) : e \in es} |-> HourRow({e \in es : Hour(e) = h})]

\* Seeded bug: the rows go back beyond the window.
HourlyRowsEver == ByHour(DOMAIN rows)

HourlyRows == ByHour(InWindow)

QueryHourly ==
  /\ Answer("hourly")
  /\ hourly' = HourlyRows
  /\ left' = DOMAIN HourlyRows
  /\ UNCHANGED <<active, counts, chart, totalSuccess, totalFailed>>

StatusCounts == [s \in Statuses |-> Count(InWindow, s)]

QueryCounts ==
  /\ Answer("counts")
  /\ counts' = StatusCounts
  /\ UNCHANGED <<active, hourly, loop>>

\* Promise.all has resolved.
Answered == asked # None /\ waiting = {}

\* Math.round of a quotient.
Round(a, b) == (2 * a + b) \div (2 * b)

Bucket(sums) ==
  [success |-> sums.success, failed |-> sums.failed,
   avgMs |-> IF sums.timed > 0 THEN Round(sums.ms, sums.timed) ELSE 0]

\* Seeded bug: the first row of a key is kept.
FillOnce(h) ==
  chart' = IF chart[Key(h)] = NoBucket
             THEN [chart EXCEPT ![Key(h)] = Bucket(hourly[h])] ELSE chart

\* A row takes the place of an earlier one with its key.
Fill(h) == chart' = [chart EXCEPT ![Key(h)] = Bucket(hourly[h])]

\* The loop over the rows.  It has no await: what others write meanwhile does
\* not matter to it.
ReadRow(h) ==
  /\ Answered
  /\ \A g \in left : h <= g
  /\ left' = left \ {h}
  /\ totalSuccess' = totalSuccess + hourly[h].success
  /\ totalFailed' = totalFailed + hourly[h].failed
  /\ Fill(h)
  /\ UNCHANGED <<table, asked, waiting, answers, moved>>

Computed == Answered /\ left = {}

Reply ==
  /\ Computed
  /\ asked' = None
  /\ active' = 0 /\ hourly' = NoHours /\ counts' = Zeros
  /\ chart' = Bars /\ totalSuccess' = 0 /\ totalFailed' = 0
  /\ moved' = {}
  /\ UNCHANGED <<table, waiting, left>>

Writer(e) == Begin(e) \/ Settle(e) \/ Cancel(e) \/ Delete(e)

MetricsNext ==
  \/ Tick
  \/ \E e \in Executions : Create(e)
  \/ \E e \in DOMAIN rows : Writer(e)
  \/ Ask \/ QueryActive \/ QueryHourly \/ QueryCounts
  \/ \E h \in left : ReadRow(h)
  \/ Reply

MetricsSpec == MetricsInit /\ [][MetricsNext]_metricsVars

-----------------------------------------------------------------------------
RowType ==
  [status : Statuses, at : 0 .. time, ms : Durations \cup {None}]

MetricsTypeOK ==
  /\ time \in Nat
  /\ gone \subseteq Executions
  /\ DOMAIN rows \subseteq Executions \ gone
  /\ rows \in [DOMAIN rows -> RowType]
  /\ asked \in 0 .. time \cup {None}
  /\ waiting \subseteq Queries
  /\ active \in Nat
  /\ DOMAIN hourly \subseteq Nat
  /\ \A h \in DOMAIN hourly : hourly[h].success \in Nat /\ hourly[h].failed \in Nat
  /\ counts \in [Statuses -> Nat]
  /\ left \subseteq DOMAIN hourly
  /\ DOMAIN chart = Keys
  /\ totalSuccess \in Nat /\ totalFailed \in Nat
  /\ moved \subseteq Executions

Near(m, n) == m - n \in -Cardinality(moved) .. Cardinality(moved)

\* The three queries see the table at three moments: an execution that moves
\* between them is counted twice or not at all, and no other.  Those that are
\* active and older than the window are in the first count only.
CountsDifferByMoves ==
  Computed =>
    /\ Near(active, counts["PENDING"] + counts["RUNNING"]
                      + CountActive(DOMAIN rows \ InWindow))
    /\ Near(totalSuccess, counts["SUCCESS"])
    /\ Near(totalFailed, counts["FAILED"])

\* 24 hours back from now touch 25 hours of the clock, and the first and the
\* last have one key: the bar shows the latest of them that has executions.
\* That of the current hour is the day before's until it has one of its own.
BarsShowLatestHour ==
  Computed =>
    \A k \in Keys :
      LET same == {h \in DOMAIN hourly : Key(h) = k}
      IN IF same = {}
           THEN chart[k] = NoBucket
           ELSE \E h \in same : /\ \A g \in same : g <= h
                                /\ chart[k] = Bucket(hourly[h])

\* The chart adds up to the totals that the rates are made of, but for the one
\* hour in which the window starts, and as many more as the clock moved on.
\* Its bars are made of one unit for each success.
ChartAddsUp ==
  Computed =>
    LET units == UNION {{k} \X (1 .. chart[k].success) : k \in Keys}
        bars  == Cardinality(units)
        late  == {e \in InWindow : Hour(e) <= HourOf(time) - Day}
    IN /\ bars <= totalSuccess
       /\ totalSuccess - bars <= Cardinality(late \cup moved)

=============================================================================
