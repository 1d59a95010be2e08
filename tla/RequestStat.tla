---------------------------- MODULE RequestStat -----------------------------
(***************************************************************************)
(* RequestStat and Histogram (src/zbf/request_stat.hpp): a worker thread    *)
(* records what its requests cost while the timer thread of ReqStatLogger   *)
(* takes snapshots.  Every cell is an atomic variable of its own; neither   *)
(* observe() nor snapshot() is atomic as a whole.                           *)
(***************************************************************************)
EXTENDS Integers, Sequences, FiniteSetsExt, Folds

CONSTANTS
    StatLimits,       \* kLimits
    StatCosts,        \* costs of a request
    StatPercents,     \* the percentiles of a bill
    IntMaxCost,       \* INT_MAX, the minimum of no cost
    MaxStat,          \* bound: requests
    MaxSnapshots      \* bound: snapshots

VARIABLES
    costs,            \* costs recorded, in order
    statPc,           \* worker: "idle" or the cell of observe() it is at
    hist,             \* the cells of the type's metrics
    logPc, at, snap,  \* timer thread: "idle" or the cell it is at; the bucket; the snapshot
    bill,             \* the last bill, logged or not
    billed, unlogged, \* the sums of the cells over the logged bills, over those not logged
    since,            \* costs recorded before the last snapshot, -1 if it overlapped an observe()
    quiet,            \* no observe() has run since consume() started
    snapshots

statVars == <<costs, statPc, hist, logPc, at, snap, bill, billed, unlogged, since, quiet, snapshots>>

Buckets == 1..(Len(StatLimits) + 1)

NoCells == [total |-> 0, buckets |-> [b \in Buckets |-> 0], count |-> 0, sum |-> 0, max |-> 0, min |-> IntMaxCost]

NoBill == [logged |-> FALSE, exact |-> FALSE, cells |-> NoCells, costs |-> <<>>, percentile |-> [p \in StatPercents |-> 0]]

StatInit ==
    /\ costs = <<>> /\ statPc = "idle" /\ hist = NoCells
    /\ logPc = "idle" /\ at = 1 /\ snap = NoCells /\ bill = NoBill /\ billed = NoCells /\ unlogged = NoCells
    /\ since = 0 /\ quiet = TRUE /\ snapshots = 0

-----------------------------------------------------------------------------
(* The worker: onReqStart(), the request, onReqFinish().                   *)

\* A request whose start and end the clock could read, up to the call of observe().
OnReqFinish ==
    /\ statPc = "idle" /\ Len(costs) < MaxStat
    /\ \E c \in StatCosts : costs' = Append(costs, c)
    /\ hist' = [hist EXCEPT !.total = @ + 1]
    /\ statPc' = "buckets" /\ quiet' = (logPc = "idle")
    /\ UNCHANGED <<logPc, at, snap, bill, billed, unlogged, since, snapshots>>

\* The first bucket whose limit the cost does not exceed, or the last one.
BucketOf(cost) == Min({b \in Buckets : b = Len(StatLimits) + 1 \/ cost <= StatLimits[b]})

NextCell == [buckets |-> "count", count |-> "sum", sum |-> "max", max |-> "min", min |-> "idle"]

Observe ==
    /\ statPc # "idle" /\ statPc' = NextCell[statPc]
    /\ LET cost == costs[Len(costs)] IN
       hist' = CASE statPc = "buckets" -> [hist EXCEPT !.buckets[BucketOf(cost)] = @ + 1]
                 [] statPc = "count" -> [hist EXCEPT !.count = @ + 1]
                 [] statPc = "sum" -> [hist EXCEPT !.sum = @ + cost]
                 [] statPc = "max" -> [hist EXCEPT !.max = Max({@, cost})]
                 [] statPc = "min" -> [hist EXCEPT !.min = Min({@, cost})]
    /\ UNCHANGED <<costs, logPc, at, snap, bill, billed, unlogged, since, quiet, snapshots>>

-----------------------------------------------------------------------------
(* The timer thread: onStat(), consume(), snapshot().                      *)

Consume ==
    /\ logPc = "idle" /\ snapshots < MaxSnapshots /\ snapshots' = snapshots + 1
    /\ snap' = [NoCells EXCEPT !.total = hist.total] /\ hist' = [hist EXCEPT !.total = 0]
    /\ logPc' = "buckets" /\ at' = 1 /\ quiet' = (statPc = "idle") /\ bill' = NoBill
    /\ UNCHANGED <<costs, statPc, billed, unlogged, since>>

SnapBuckets_Load ==
    /\ logPc = "buckets"
    /\ snap' = [snap EXCEPT !.buckets[at] = hist.buckets[at]]
    /\ IF at + 1 \in Buckets THEN at' = at + 1 /\ UNCHANGED logPc ELSE logPc' = "count" /\ UNCHANGED at
    /\ UNCHANGED <<costs, statPc, hist, bill, billed, unlogged, since, quiet, snapshots>>

\* One bucket after the other is exchanged for 0.
SnapBuckets ==
    /\ logPc = "buckets"
    /\ snap' = [snap EXCEPT !.buckets[at] = hist.buckets[at]]
    /\ hist' = [hist EXCEPT !.buckets[at] = 0]
    /\ IF at + 1 \in Buckets THEN at' = at + 1 /\ UNCHANGED logPc ELSE logPc' = "count" /\ UNCHANGED at
    /\ UNCHANGED <<costs, statPc, bill, billed, unlogged, since, quiet, snapshots>>

\* Then the four other cells.
SnapCell ==
    /\ logPc \in {"count", "sum", "max", "min"}
    /\ snap' = [snap EXCEPT ![logPc] = hist[logPc]]
    /\ hist' = [hist EXCEPT ![logPc] = NoCells[logPc]]
    /\ logPc' = IF logPc = "min" THEN "bill" ELSE NextCell[logPc]
    /\ UNCHANGED <<costs, statPc, at, bill, billed, unlogged, since, quiet, snapshots>>

SumTo(buckets, b) == MapThenFoldSet(+, 0, LAMBDA i : buckets[i], LAMBDA S : CHOOSE i \in S : TRUE, 1..b)

\* Integer division of the code: towards zero.
Quotient(a, b) == IF a < 0 THEN -((-a) \div b) ELSE a \div b

Target(percent, total) == Min({(total * percent) \div 100, total - 1})

\* percentile(): the bucket the target falls in, and its place inside it.
Percentile(percent, total, buckets, maxCost) ==
    IF total = 0 THEN 0
    ELSE LET target == Target(percent, total)
             reached == {b \in Buckets : SumTo(buckets, b) > target} IN
         IF reached = {} THEN maxCost
         ELSE LET b == Min(reached)
                  lower == IF b = 1 THEN 0 ELSE StatLimits[b - 1]
                  upper == IF b = Len(StatLimits) + 1 THEN maxCost ELSE Min({maxCost, StatLimits[b]}) IN
              lower + Quotient((target - SumTo(buckets, b - 1)) * (upper - lower), buckets[b])

PlusSnap(cells) == [cells EXCEPT !.total = @ + snap.total,
                              !.buckets = [b \in Buckets |-> @[b] + snap.buckets[b]]]

\* onStat() makes the bill of the snapshot, and logs it if it counts a request.
MakeBill ==
    /\ logPc = "bill" /\ logPc' = "idle"
    /\ bill' = [logged |-> snap.total > 0, exact |-> quiet /\ since # -1, cells |-> snap,
                costs |-> IF quiet /\ since # -1 THEN SubSeq(costs, since + 1, Len(costs)) ELSE <<>>,
                percentile |-> [p \in StatPercents |-> Percentile(p, snap.count, snap.buckets, snap.max)]]
    /\ IF snap.total > 0 THEN billed' = PlusSnap(billed) /\ UNCHANGED unlogged
                         ELSE unlogged' = PlusSnap(unlogged) /\ UNCHANGED billed
    /\ since' = IF quiet THEN Len(costs) ELSE -1
    /\ snap' = NoCells /\ at' = 1 /\ quiet' = TRUE
    /\ UNCHANGED <<costs, statPc, hist, snapshots>>

StatNext == OnReqFinish \/ Observe \/ Consume \/ SnapBuckets \/ SnapCell \/ MakeBill

-----------------------------------------------------------------------------
Placed(s, b) == Cardinality({i \in DOMAIN s : BucketOf(s[i]) = b})

Rank(s, cost) == Cardinality({i \in DOMAIN s : s[i] < cost})..(Cardinality({i \in DOMAIN s : s[i] <= cost}) - 1)

\* However observe() and snapshot() interleave, each request is counted by exactly
\* one logged bill, and each cost enters exactly one snapshot, in its own bucket (a
\* cost still being observed may be missing).  That snapshot may be one that counts
\* no request and is not logged: the cost is lost then, but only if this snapshot or
\* the one before it overlapped an observe().  No percentile is negative.  A logged
\* bill no observe() overlapped is exact: it counts the costs since the last one,
\* with their maximum and minimum, and each percentile lies in the bucket that holds
\* the cost of that rank.
StatSound ==
    /\ LET done == IF statPc = "buckets" THEN SubSeq(costs, 1, Len(costs) - 1) ELSE costs IN
       \A b \in Buckets :
          billed.buckets[b] + unlogged.buckets[b] + snap.buckets[b] + hist.buckets[b] = Placed(done, b)
    /\ billed.total + snap.total + hist.total = Len(costs)
    /\ bill.exact => (bill.logged <=> bill.costs # <<>>)
    /\ bill.exact /\ ~bill.logged => bill.cells = NoCells
    /\ \A p \in StatPercents : bill.percentile[p] >= 0
    /\ bill.exact /\ bill.costs # <<>> =>
         LET s == bill.costs
             values == {s[i] : i \in DOMAIN s} IN
         /\ bill.cells.total = Len(s) /\ bill.cells.count = Len(s)
         /\ bill.cells.max = Max(values) /\ bill.cells.min = Min(values)
         /\ \A p \in StatPercents : \E v \in values :
              /\ Target(p, Len(s)) \in Rank(s, v)
              /\ bill.percentile[p] <= bill.cells.max
              /\ LET b == BucketOf(v) IN
                 /\ bill.percentile[p] >= (IF b = 1 THEN 0 ELSE StatLimits[b - 1])
                 /\ b \in DOMAIN StatLimits => bill.percentile[p] <= StatLimits[b]
=============================================================================
