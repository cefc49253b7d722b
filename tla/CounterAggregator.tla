-------------------------- MODULE CounterAggregator --------------------------
(***************************************************************************)
(* The job's user counters (JobTracker::counters_, AccumulateCounters in   *)
(* src/master/job_tracker.cc).  FinishMap and FinishReduce pass the        *)
(* counters of every accepted completion; AccumulateCounters runs under    *)
(* mu_, so each call is one atomic step.                                   *)
(*                                                                         *)
(* counters_ is a std::map from name to int64: here a function from the    *)
(* names present to their sums.  A report is such a function too.  The    *)
(* caller is modelled by `received`, the reports passed so far.           *)
(***************************************************************************)
EXTENDS Integers, FiniteSets, Sequences

CONSTANTS
    MaxCountersPerJob, \* FLAGS_max_counters_per_job
    Reports,           \* the counter maps a completion may report
    MaxCalls           \* bound: calls of AccumulateCounters

VARIABLES
    counters,  \* counters_
    received   \* the reports passed to AccumulateCounters, in call order

vars == <<counters, received>>

\* counters_[key]: a name not yet present reads as 0 (std::map operator[]).
Value(ctr, k) == IF k \in DOMAIN ctr THEN ctr[k] ELSE 0

\* counters_[key] += value for every name of the report.
Merge(ctr, rep) == [k \in DOMAIN ctr \cup DOMAIN rep |-> Value(ctr, k) + Value(rep, k)]

\* The cap is tested on the names already present, before the merge.
CapExceeded(ctr) == Cardinality(DOMAIN ctr) > MaxCountersPerJob

\* AccumulateCounters: past the cap the whole report is dropped.
Accumulate(ctr, rep) == IF CapExceeded(ctr) THEN ctr ELSE Merge(ctr, rep)

\* An empty counters_.
NoCounters == [k \in {} |-> 0]

Init ==
    /\ counters = NoCounters
    /\ received = <<>>

AccumulateCounters(rep) ==
    /\ Len(received) < MaxCalls
    /\ counters' = Accumulate(counters, rep)
    /\ received' = Append(received, rep)

Next == \E rep \in Reports : AccumulateCounters(rep)

Spec == Init /\ [][Next]_vars

-----------------------------------------------------------------------------
(* Properties                                                              *)

\* The sum a name would have if every value reported for it were counted.
RECURSIVE Reported(_, _)
Reported(seq, k) == IF seq = <<>> THEN 0 ELSE Value(Head(seq), k) + Reported(Tail(seq), k)

TypeOK ==
    /\ \E names \in SUBSET UNION {DOMAIN r : r \in Reports} : counters \in [names -> Nat]
    /\ received \in Seq(Reports)

\* The job holds at most max_counters_per_job counters ("accumulates user
\* counters from completed attempts, capped", spec section 2): whatever the
\* reports, AccumulateCounters never lets the number of names exceed it.
DistinctNamesCapped == Cardinality(DOMAIN counters) <= MaxCountersPerJob

\* Past the cap only new names are dropped (spec section 4.5): a name the
\* job already counts keeps receiving every value reported for it, so its
\* sum is the sum of all reports.
KnownNamesKeepCounting == \A k \in DOMAIN counters : counters[k] = Reported(received, k)

=============================================================================
