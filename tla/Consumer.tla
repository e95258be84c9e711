-------------------------------- MODULE Consumer --------------------------------
(***************************************************************************)
(* The loop of internal/common/kafka/consumer.go, which the ledger and the *)
(* analytics service run on their topics: fetch a message, hand it to the  *)
(* handler and, if the handler succeeded, ask for it to be committed.       *)
(* kafka-go sends what was asked to Kafka once per second.                 *)
(*                                                                         *)
(* The instances of a service are one consumer group.  Each partition has  *)
(* one owner, which starts after the committed offset; when the group      *)
(* rebalances, the old owner may still be handling a message.              *)
(*                                                                         *)
(* A module that extends this one adds the handler, which takes a message  *)
(* from Fetch to CommitMessage or HandlerFailed.                           *)
(***************************************************************************)
EXTENDS Naturals, Sequences, FiniteSets

CONSTANTS Consumers,   \* instances of the service
          Partitions,
          Payloads,
          Log,         \* what is in each partition at the start, oldest first
          Assignments, \* of the partitions to instances that a group may start with
          NoMessage,
          MaxFaults    \* crashes and rebalances (bound of the model)

ASSUME ConsumerConstants ==
  /\ Consumers # {}
  /\ IsFiniteSet(Partitions)
  /\ Log \in [Partitions -> Seq(Payloads)]
  /\ Assignments # {} /\ Assignments \subseteq [Partitions -> Consumers]
  /\ NoMessage \notin Partitions \X Nat
  /\ MaxFaults \in Nat

VARIABLES topic,      \* the messages of each partition
          owner,      \* of each partition
          next,       \* the offset its owner fetches next
          asked,      \* offsets each instance has yet to send to Kafka, 0 for none
          committed,  \* the group's committed offsets
          msg,        \* the message each instance is handling
          faults

consumer == <<topic, owner, next, asked, committed, msg>>

Offsets(p) == 1..Len(topic[p])
Messages   == UNION {{p} \X Offsets(p) : p \in Partitions}

ConsumerTypeOK ==
  /\ topic \in [Partitions -> Seq(Payloads)]
  /\ owner \in [Partitions -> Consumers]
  /\ next \in [Partitions -> Nat] /\ committed \in [Partitions -> Nat]
  /\ asked \in [Consumers -> [Partitions -> Nat]]
  /\ \A p \in Partitions : /\ next[p] \in 1..(Len(topic[p]) + 1)
                           /\ committed[p] \in 0..Len(topic[p])
                           /\ \A c \in Consumers : asked[c][p] \in 0..Len(topic[p])
  /\ msg \in [Consumers -> Messages \cup {NoMessage}]
  /\ faults \in 0..MaxFaults

ConsumerInit ==
  /\ topic = Log
  /\ owner \in Assignments
  /\ next = [p \in Partitions |-> 1]
  /\ asked = [c \in Consumers |-> [p \in Partitions |-> 0]]
  /\ committed = [p \in Partitions |-> 0]
  /\ msg = [c \in Consumers |-> NoMessage]
  /\ faults = 0

Fault == faults < MaxFaults /\ faults' = faults + 1

Payload(m) == topic[m[1]][m[2]]

\* The partitions that hold a copy of a payload.
Holding(t) == {m[1] : m \in {n \in Messages : Payload(n) = t}}

\* A message is written to its partition.
Produce(p, t) ==
  /\ topic' = [topic EXCEPT ![p] = Append(@, t)]
  /\ UNCHANGED <<owner, next, asked, committed, msg>>

\* Variants named ...Bug are plausible mistakes in the definition that follows
\* them; nothing uses them, they serve to show what a property depends on.
\* Here: the message is committed as it is fetched.
FetchMessageBug(c) ==
  /\ msg[c] = NoMessage
  /\ \E p \in Partitions :
       /\ owner[p] = c /\ next[p] <= Len(topic[p])
       /\ msg' = [msg EXCEPT ![c] = <<p, next[p]>>]
       /\ next' = [next EXCEPT ![p] = @ + 1]
       /\ asked' = [asked EXCEPT ![c][p] = next[p]]
  /\ UNCHANGED <<topic, owner, committed>>

FetchMessage(c) ==
  /\ msg[c] = NoMessage
  /\ \E p \in Partitions :
       /\ owner[p] = c /\ next[p] <= Len(topic[p])
       /\ msg' = [msg EXCEPT ![c] = <<p, next[p]>>]
       /\ next' = [next EXCEPT ![p] = @ + 1]
  /\ UNCHANGED <<topic, owner, asked, committed>>

\* The offset of the message after this one is asked for.
CommitMessageBug(c) ==
  /\ asked' = [asked EXCEPT ![c][msg[c][1]] = msg[c][2] + 1]
  /\ msg' = [msg EXCEPT ![c] = NoMessage]
  /\ UNCHANGED <<topic, owner, next, committed>>

CommitMessage(c) ==
  /\ asked' = [asked EXCEPT ![c][msg[c][1]] = msg[c][2]]
  /\ msg' = [msg EXCEPT ![c] = NoMessage]
  /\ UNCHANGED <<topic, owner, next, committed>>

\* The loop seeks back to the message.
HandlerFailedBug(c) ==
  /\ msg' = [msg EXCEPT ![c] = NoMessage]
  /\ next' = [next EXCEPT ![msg[c][1]] = msg[c][2]]
  /\ UNCHANGED <<topic, owner, asked, committed>>

\* Nothing is asked for, but the reader goes on to the next message.
HandlerFailed(c) ==
  /\ msg' = [msg EXCEPT ![c] = NoMessage]
  /\ UNCHANGED <<topic, owner, next, asked, committed>>

\* Kafka takes any offset, a lower one too.
FlushCommits(c) ==
  /\ \E p \in Partitions :
       /\ asked[c][p] > 0
       /\ committed' = [committed EXCEPT ![p] = asked[c][p]]
       /\ asked' = [asked EXCEPT ![c][p] = 0]
  /\ UNCHANGED <<topic, owner, next, msg, faults>>

\* What is being handled is handled to its end.
Rebalance(p, c) ==
  /\ owner[p] # c
  /\ owner' = [owner EXCEPT ![p] = c]
  /\ next' = [next EXCEPT ![p] = committed[p] + 1]
  /\ Fault
  /\ UNCHANGED <<topic, asked, committed, msg>>

\* The process dies and is started again, or stops and leaves its partitions
\* to another rebalance.
Crash(c) ==
  /\ msg' = [msg EXCEPT ![c] = NoMessage]
  /\ asked' = [asked EXCEPT ![c] = [p \in Partitions |-> 0]]
  /\ next' = [p \in Partitions |-> IF owner[p] = c THEN committed[p] + 1 ELSE next[p]]
  /\ Fault
  /\ UNCHANGED <<topic, owner, committed>>
=============================================================================
