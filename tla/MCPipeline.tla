------------------------------ MODULE MCPipeline ------------------------------
(***************************************************************************)
(* A scenario for module Pipeline: t12 and t21 pay between wallets 1 and 2, *)
(* and bat is the event of a batch.  t21 and bat are in the topic, t12 is   *)
(* yet to be committed, and may be delivered twice.                         *)
(***************************************************************************)
EXTENDS Pipeline, TLC

CONSTANTS t12, t21, bat, c1, c2

MCFrom == [t \in Payloads |-> IF t = t21 THEN 2 ELSE 1]
MCTo == [t \in Payloads |-> IF t = t21 THEN 1 ELSE 2]
MCAmount == [t \in Payloads |-> IF t = t21 THEN 2 ELSE 5]

Backlog == <<<<t21>>, <<bat>>>>
MCMaxCopies == [t \in Payloads |-> IF t = t12 THEN 2 ELSE 1]

\* Up to the names of the instances.
MCAssignments == {[q \in Partitions |-> c1], [q \in Partitions |-> IF q = 1 THEN c1 ELSE c2]}
=============================================================================
