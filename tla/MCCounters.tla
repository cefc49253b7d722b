----------------------------- MODULE MCCounters -----------------------------
(***************************************************************************)
(* Instantiation of CounterAggregator for TLC: three counter names and     *)
(* reports that bring one or two of them.                                  *)
(***************************************************************************)
EXTENDS CounterAggregator

CONSTANTS k1, k2, k3

MCReports == {[k \in {k1} |-> 1], [k \in {k2, k3} |-> 1], [k \in {k1, k2} |-> 2]}

=============================================================================
