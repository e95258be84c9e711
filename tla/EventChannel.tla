----------------------------- MODULE EventChannel -----------------------------
(***************************************************************************)
(* What the outbox promises to its clients: an event that was committed is *)
(* owed to the topic; it may be delivered any number of times; it is       *)
(* settled as published only after a delivery, and as failed otherwise.    *)
(***************************************************************************)
CONSTANT Events

VARIABLES state,      \* "unborn", "owed", "published" or "failed"
          delivered   \* the events that are in the topic

chan == <<state, delivered>>

Init ==
  /\ state = [e \in Events |-> "unborn"]
  /\ delivered = {}

\* A business transaction commits with its events.
Commit ==
  \E S \in SUBSET Events :
    /\ \A e \in S : state[e] = "unborn"
    /\ state' = [e \in Events |-> IF e \in S THEN "owed" ELSE state[e]]
    /\ UNCHANGED delivered

Deliver(e) ==
  /\ state[e] # "unborn"
  /\ delivered' = delivered \cup {e}
  /\ UNCHANGED state

Publish(e) ==
  /\ state[e] # "unborn"
  /\ e \in delivered
  /\ state' = [state EXCEPT ![e] = "published"]
  /\ UNCHANGED delivered

GiveUp(e) ==
  /\ state[e] # "unborn"
  /\ state' = [state EXCEPT ![e] = "failed"]
  /\ UNCHANGED delivered

Next == Commit \/ \E e \in Events : Deliver(e) \/ Publish(e) \/ GiveUp(e)

Spec == Init /\ [][Next]_chan
=============================================================================
