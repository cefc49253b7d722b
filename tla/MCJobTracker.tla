---------------------------- MODULE MCJobTracker ----------------------------
(***************************************************************************)
(* Instantiation of JobTracker for TLC.  Endpoints are model values; the   *)
(* flag values are the defaults of master_flags.cc except where a smaller  *)
(* value makes the interesting case reachable with two or three tasks.     *)
(***************************************************************************)
EXTENDS JobTracker, TLC

CONSTANTS m1, m2, r1, n1, n2

\* m1 and r1 run on the same host, m2 on another.
MCNodeOf(w) == IF w = m2 THEN n2 ELSE n1

\* Every minion on a host of its own.
MCOwnNode(w) == w

\* The map minions are interchangeable when each has a host of its own.
MCSymmetry == Permutations(MapWorkers)

MCAllowDup(p)     == TRUE
MCNoDup(p)        == FALSE
MCCapacity(p)     == 2
MCRetry(p)        == 2
MCIgnoreBudget(p) == 1
MCRetryOne(p)     == 1
MCIgnoreTwo(p)    == 2
MCIgnoreNone(p)   == 0

\* A user Update that raises the map capacity to 7: with left_percent 120
\* the dismissal budget becomes 7 - ceil(5 * 1.2) = 1.
MCUpdateMapCapacity == {[map |-> 7, reduce |-> -1]}

\* A completed attempt reports one counter.
MCTaskCounters == [n \in {"records"} |-> 1]

=============================================================================
