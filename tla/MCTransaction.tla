---------------------------- MODULE MCTransaction ----------------------------
(***************************************************************************)
(* Scenarios for module Transaction.  p is a P2P transfer, b a batch and s *)
(* a scheduled transfer; x is a second request under the key of another.   *)
(***************************************************************************)
EXTENDS Transaction, TLC

CONSTANTS p, px, b, bx, s, sx, kp, kb, ks, i1, i2

MCKind == [r \in Requests |->
             CASE r \in {p, px} -> "p2p" [] r \in {b, bx} -> "batch" [] OTHER -> "scheduled"]
MCKey == [r \in Requests |->
            CASE r \in {p, px} -> kp [] r \in {b, bx} -> kb [] OTHER -> ks]
MCItems == [r \in Requests |-> IF r \in {b, bx} THEN 2 ELSE 1]

Concurrent == [r \in Requests |-> NoRequest]
Retries == [r \in Requests |->
              CASE r = px -> p [] r = bx -> b [] r = sx -> s [] OTHER -> NoRequest]
=============================================================================
