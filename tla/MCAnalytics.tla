------------------------------ MODULE MCAnalytics ------------------------------
(***************************************************************************)
(* A scenario for module Analytics: d1 is a ledger entry of the second of  *)
(* three dates.                                                            *)
(***************************************************************************)
EXTENDS Analytics, TLC

CONSTANTS d1, i1, i2, g1

MCDateOf == [t \in Payloads |-> 2]

\* The outbox has delivered an event three times, twice to one partition.
TwoLogs == <<<<d1, d1>>, <<d1>>>>

\* By day, the second date in the middle of a range; by hour, at the end of one.
MCViews == {[period |-> "daily", first |-> 1, last |-> 3],
            [period |-> "hourly", first |-> 1, last |-> 2]}

\* Up to the names of the instances.
MCAssignments == {[q \in Partitions |-> i1], [q \in Partitions |-> IF q = 1 THEN i1 ELSE i2]}
=============================================================================
