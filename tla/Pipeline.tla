-------------------------------- MODULE Pipeline --------------------------------
(***************************************************************************)
(* From a committed transfer to the ledger: the topic transaction.completed *)
(* between the outbox of the transaction service and the ledger service.    *)
(* The outbox is the abstract EventChannel that module Outbox implements:   *)
(* it writes an event to the topic once or again, early or late, and takes  *)
(* it for published or for failed.                                          *)
(***************************************************************************)
EXTENDS Ledger

CONSTANT MaxCopies   \* of each event in the topic (bound of the model)

ASSUME PipelineConstants == MaxCopies \in [Payloads -> Nat \ {0}]

VARIABLE state   \* of each event in the outbox

pipeline == <<vars, state>>

Copies(t)  == {m \in Messages : Payload(m) = t}
InTopic    == {Payload(m) : m \in Messages}

Outbox == INSTANCE EventChannel WITH Events <- Payloads, delivered <- InTopic

\* What is in the topic at the start was published earlier.
PipelineInit ==
  /\ Init
  /\ state = [t \in Payloads |-> IF t \in InTopic THEN "published" ELSE "unborn"]

CommitTransaction == UNCHANGED vars /\ Outbox!Commit

\* LeastBytes takes the partition this process has written the least to: any
\* one, whatever the key, and another for a second copy.
Publish(t) ==
  /\ Cardinality(Copies(t)) < MaxCopies[t]
  /\ \E p \in Partitions : Produce(p, t)
  /\ Outbox!Deliver(t)
  /\ UNCHANGED <<faults, entries, clock, handler, history>>

\* Settling an event again, as two publishers may, changes nothing downstream.
Settle(t) ==
  /\ state[t] = "owed"
  /\ UNCHANGED vars
  /\ Outbox!Publish(t) \/ Outbox!GiveUp(t)

LedgerStep(c) == Step(c) /\ UNCHANGED state

PipelineNext ==
  \/ CommitTransaction
  \/ \E t \in Payloads : Publish(t) \/ Settle(t)
  \/ Next /\ UNCHANGED state

PipelineSpec == PipelineInit /\ [][PipelineNext]_pipeline

\* The publisher settles what it owes, and the consumer goroutine runs as long
\* as its process.
FairSpec ==
  /\ PipelineSpec
  /\ WF_pipeline(\E t \in Payloads : Settle(t))
  /\ \A c \in Consumers : WF_pipeline(LedgerStep(c))

-----------------------------------------------------------------------------
Refused(t) == \E m \in failed : Payload(m) = t

\* In the end every committed transfer is in the topic, or the outbox gave it up;
\* and every one that reached the topic is in the ledger, or the handler has
\* reported an error for it, even if the outbox takes it for failed.
EveryTransferRecorded ==
  <>[] \A t \in Payloads :
         /\ state[t] \in {"unborn", "failed"} \/ t \in InTopic
         /\ t \in InTopic => EntriesOf(t) # {} \/ Refused(t)
=============================================================================
