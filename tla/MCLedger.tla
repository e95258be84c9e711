-------------------------------- MODULE MCLedger --------------------------------
(***************************************************************************)
(* A scenario for module Ledger: one instance, and two events that pay     *)
(* between wallets 1 and 2.                                                *)
(***************************************************************************)
EXTENDS Ledger, TLC

CONSTANTS t12, t21, c1

MCFrom == [t \in Payloads |-> IF t = t21 THEN 2 ELSE 1]
MCTo == [t \in Payloads |-> IF t = t21 THEN 1 ELSE 2]
MCAmount == [t \in Payloads |-> IF t = t21 THEN 2 ELSE 5]

Pair == <<<<t12, t21>>>>
MCAssignments == {[q \in Partitions |-> c1]}
=============================================================================
