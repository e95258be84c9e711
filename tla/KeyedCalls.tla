------------------------------- MODULE KeyedCalls -------------------------------
(***************************************************************************)
(* What an idempotency key of the wallet service is good for.  A call is    *)
(* admitted if its key is not used; an admitted call moves the money or    *)
(* does not, and leaves; a key is used only after money was moved under    *)
(* it.  Calls admitted under one key before it is used may each move it.   *)
(*                                                                         *)
(* Wallet implements this, and Transaction asks no more than this of the   *)
(* wallet service: that is what ties the two modules together.             *)
(***************************************************************************)
EXTENDS Naturals

CONSTANT Ids   \* idempotency keys of calls

VARIABLES used,    \* the keys that turn a call away
          moved,   \* how often money was moved under each key
          open     \* how many calls are admitted under each key

keyed == <<used, moved, open>>

Init ==
  /\ used = {}
  /\ moved = [i \in Ids |-> 0]
  /\ open = [i \in Ids |-> 0]

Admit(i) ==
  /\ i \notin used
  /\ open' = [open EXCEPT ![i] = @ + 1]
  /\ UNCHANGED <<used, moved>>

Leave(i) ==
  /\ open[i] > 0
  /\ open' = [open EXCEPT ![i] = @ - 1]

Refuse(i) == Leave(i) /\ UNCHANGED <<used, moved>>

Move(i) ==
  /\ Leave(i)
  /\ moved' = [moved EXCEPT ![i] = @ + 1]
  /\ used' \in {used, used \cup {i}}

Mark(i) ==
  /\ moved[i] > 0
  /\ used' = used \cup {i}
  /\ UNCHANGED <<moved, open>>

Expire(i) == used' = used \ {i} /\ UNCHANGED <<moved, open>>

Next == \E i \in Ids : Admit(i) \/ Refuse(i) \/ Move(i) \/ Mark(i) \/ Expire(i)

Spec == Init /\ [][Next]_keyed
=============================================================================
