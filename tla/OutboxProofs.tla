----------------------------- MODULE OutboxProofs -----------------------------
(***************************************************************************)
(* Theorems about the outbox, for any number of events, publishers and     *)
(* faults.                                                                 *)
(***************************************************************************)
EXTENDS Outbox, TLAPS, FiniteSetTheorems

USE OutboxConstants

\* Every reachable state has the types of the table, the loop and Kafka.
THEOREM TypeCorrect == Spec => []TypeOK
<1> USE DEF TypeOK, Status, Committed, table, loop
<1>1. Init => TypeOK
  BY DEF Init
<1>2. TypeOK /\ [Next]_vars => TypeOK'
  <2> SUFFICES ASSUME TypeOK, [Next]_vars PROVE TypeOK'
    OBVIOUS
  <2>1. ASSUME NEW S \in SUBSET Events, SaveEvents(S) PROVE TypeOK'
    BY <2>1 DEF SaveEvents
  <2>2. CASE CommitTx \/ RollbackTx
    BY <2>2 DEF CommitTx, RollbackTx, EndTx
  <2>3. ASSUME NEW p \in Publishers, GetPendingEvents(p) PROVE TypeOK'
    BY <2>3 DEF GetPendingEvents
  <2>4. ASSUME NEW p \in Publishers,
               PublishEvent(p) \/ PublishRefused(p) \/ PublishUnacknowledged(p)
        PROVE  TypeOK'
    <3>1. PICK e \in Events, r \in {"sent", "refused"}, k \in {0, 1} :
            Publish(p, e, r, k) /\ (UNCHANGED faults \/ Fault)
      BY <2>4 DEF PublishEvent, PublishRefused, PublishUnacknowledged
    <3>2. copies' \in [Events -> Nat] /\ faults' \in 0..MaxFaults
      BY <3>1 DEF Publish, Fault
    <3> QED BY <3>1, <3>2 DEF Publish
  <2>5. ASSUME NEW p \in Publishers, MarkAsPublished(p) PROVE TypeOK'
    BY <2>5 DEF MarkAsPublished, Continue
  <2>6. ASSUME NEW p \in Publishers, RecordRefusal(p) PROVE TypeOK'
    <3>1. cur[p] \in Events /\ attempts[cur[p]] \in Nat
      BY <2>6 DEF RecordRefusal
    <3>2. status' \in [Events -> Status] /\ attempts' \in [Events -> Nat]
      BY <2>6, <3>1 DEF RecordRefusal
    <3> QED BY <2>6, <3>2 DEF RecordRefusal, Continue
  <2>7. ASSUME NEW p \in Publishers, UpdateLost(p) \/ Stop(p) PROVE TypeOK'
    <3>1. faults' \in 0..MaxFaults
      BY <2>7 DEF UpdateLost, Stop, Fault
    <3> QED BY <2>7, <3>1 DEF UpdateLost, Stop, Continue
  <2>8. CASE UNCHANGED vars
    BY <2>8 DEF vars
  <2> QED
    BY <2>1, <2>2, <2>3, <2>4, <2>5, <2>6, <2>7, <2>8 DEF Next, Step
<1> QED BY <1>1, <1>2, PTL DEF Spec

-----------------------------------------------------------------------------
(* What PublishedIsInKafka needs: a publisher handles only rows of         *)
(* committed transactions, and one that is about to mark a row has sent it. *)

Handled(p) == todo[p] \cup ({cur[p]} \ {NoEvent})

SentBeforeMarked ==
  \A p \in Publishers :
    /\ \A e \in Handled(p) : status[e] \in Committed
    /\ pc[p] = "sent" => copies[cur[p]] > 0

DeliveryInv == TypeOK /\ PublishedIsInKafka /\ SentBeforeMarked

\* The inductive step, for one step of one of the actions.
LEMMA DeliveryStep == DeliveryInv /\ TypeOK' /\ [Next]_vars => DeliveryInv'
<1> SUFFICES ASSUME DeliveryInv, TypeOK', [Next]_vars
             PROVE  PublishedIsInKafka' /\ SentBeforeMarked'
  BY DEF DeliveryInv
<1> USE DEF DeliveryInv, TypeOK, PublishedIsInKafka, SentBeforeMarked, Handled,
            Committed, table, loop
<1>1. ASSUME NEW S \in SUBSET Events, SaveEvents(S)
      PROVE  PublishedIsInKafka' /\ SentBeforeMarked'
  BY <1>1 DEF SaveEvents
<1>2. ASSUME NEW b \in Events, NEW o \in {"pending", "aborted"}, EndTx(created[b], o)
      PROVE  PublishedIsInKafka' /\ SentBeforeMarked'
  <2>1. UNCHANGED <<todo, cur, pc, copies>>
    BY <1>2 DEF EndTx
  <2>2. \A e \in Events : status'[e] # status[e] => status[e] = "open" /\ status'[e] = o
    BY <1>2 DEF EndTx
  <2>3. \A e \in Events : /\ status[e] \in Committed => status'[e] = status[e]
                          /\ status'[e] = "published" => status[e] = "published"
    BY <2>2
  <2>4. PublishedIsInKafka'
    BY <2>1, <2>3
  <2>5. SentBeforeMarked'
    BY <2>1, <2>3
  <2> QED BY <2>4, <2>5
<1>3. ASSUME NEW p \in Publishers, GetPendingEvents(p)
      PROVE  PublishedIsInKafka' /\ SentBeforeMarked'
  BY <1>3 DEF GetPendingEvents, IsBatch, Selectable
<1>4. ASSUME NEW p \in Publishers,
             PublishEvent(p) \/ PublishRefused(p) \/ PublishUnacknowledged(p)
      PROVE  PublishedIsInKafka' /\ SentBeforeMarked'
  <2>1. PICK e \in Events, r \in {"sent", "refused"}, k \in {0, 1} :
          Publish(p, e, r, k) /\ (r = "sent" => k = 1)
    BY <1>4 DEF PublishEvent, PublishRefused, PublishUnacknowledged
  <2> QED BY <2>1 DEF Publish, IsNext
<1>5. ASSUME NEW p \in Publishers, MarkAsPublished(p)
      PROVE  PublishedIsInKafka' /\ SentBeforeMarked'
  BY <1>5 DEF MarkAsPublished, Continue
<1>6. ASSUME NEW p \in Publishers, RecordRefusal(p)
      PROVE  PublishedIsInKafka' /\ SentBeforeMarked'
  BY <1>6 DEF RecordRefusal, Continue
<1>7. ASSUME NEW p \in Publishers, UpdateLost(p) \/ Stop(p)
      PROVE  PublishedIsInKafka' /\ SentBeforeMarked'
  BY <1>7 DEF UpdateLost, Stop, Continue
<1>8. CASE UNCHANGED vars
  BY <1>8 DEF vars
<1> QED
  BY <1>1, <1>2, <1>3, <1>4, <1>5, <1>6, <1>7, <1>8
     DEF Next, Step, CommitTx, RollbackTx

\* Whatever stops, fails or overlaps: an event marked as published is in
\* Kafka, and Kafka holds no event of a transaction that did not commit.
THEOREM PublishedDelivered == Spec => []PublishedIsInKafka
<1>1. Init => DeliveryInv
  BY DEF Init, DeliveryInv, TypeOK, PublishedIsInKafka, SentBeforeMarked, Handled,
         Committed, Status
<1> QED BY <1>1, TypeCorrect, DeliveryStep, PTL DEF Spec, DeliveryInv

-----------------------------------------------------------------------------
(* The outbox implements the abstract at-least-once channel.               *)

\* Every run of the outbox, seen through the statuses and the set of sent
\* events, is a run of EventChannel.
THEOREM OutboxIsAtLeastOnce == Spec => AtLeastOnce
<1> DEFINE st == [e \in Events |->
                    CASE status[e] \in {"none", "open", "aborted"} -> "unborn"
                      [] status[e] = "pending" -> "owed"
                      [] OTHER -> status[e]]
           dl == {e \in Events : copies[e] > 0}
<1>1. Init => Channel!Init
  BY DEF Init, Channel!Init
<1>2. DeliveryInv /\ TypeOK' /\ [Next]_vars => [Channel!Next]_(Channel!chan)
  <2> SUFFICES ASSUME DeliveryInv, TypeOK', [Next]_vars
               PROVE  Channel!Next \/ UNCHANGED <<st, dl>>
    BY DEF Channel!chan
  <2> USE DEF DeliveryInv, TypeOK, SentBeforeMarked, Handled, Status, Committed, table, loop
  <2>1. ASSUME NEW S \in SUBSET Events, SaveEvents(S) PROVE UNCHANGED <<st, dl>>
    <3>1. UNCHANGED dl
      BY <2>1 DEF SaveEvents
    <3>2. \A e \in Events : st'[e] = st[e]
      BY <2>1 DEF SaveEvents
    <3> QED BY <3>1, <3>2
  <2>2. CASE CommitTx
    <3>1. PICK e \in Events : EndTx(created[e], "pending")
      BY <2>2 DEF CommitTx
    <3> DEFINE S == {f \in Events : status[f] = "open" /\ created[f] = created[e]}
    <3>2. UNCHANGED dl
      BY <3>1 DEF EndTx
    <3>3. st' = [f \in Events |-> IF f \in S THEN "owed" ELSE st[f]]
      BY <3>1 DEF EndTx
    <3>4. \A f \in S : st[f] = "unborn"
      OBVIOUS
    <3>5. Channel!Commit
      BY <3>2, <3>3, <3>4 DEF Channel!Commit
    <3> QED BY <3>5 DEF Channel!Next
  <2>3. CASE RollbackTx
    <3>1. PICK e \in Events : EndTx(created[e], "aborted")
      BY <2>3 DEF RollbackTx
    <3>2. UNCHANGED dl
      BY <3>1 DEF EndTx
    <3>3. \A f \in Events : st'[f] = st[f]
      BY <3>1 DEF EndTx
    <3> QED BY <3>2, <3>3
  <2>4. ASSUME NEW p \in Publishers,
               PublishEvent(p) \/ PublishRefused(p) \/ PublishUnacknowledged(p)
        PROVE  Channel!Next \/ UNCHANGED <<st, dl>>
    <3>1. PICK e \in Events, r \in {"sent", "refused"}, k \in {0, 1} : Publish(p, e, r, k)
      BY <2>4 DEF PublishEvent, PublishRefused, PublishUnacknowledged
    <3>2. e \in todo[p] /\ UNCHANGED st
      BY <3>1 DEF Publish, IsNext
    <3>3. st[e] # "unborn"
      BY <3>2
    <3>4. dl' = IF k = 0 THEN dl ELSE dl \cup {e}
      BY <3>1 DEF Publish
    <3>5. CASE k = 1
      BY <3>2, <3>3, <3>4, <3>5 DEF Channel!Next, Channel!Deliver
    <3> QED BY <3>2, <3>4, <3>5
  <2>5. ASSUME NEW p \in Publishers, MarkAsPublished(p) PROVE Channel!Next
    <3>1. cur[p] \in Events /\ cur[p] \in dl /\ UNCHANGED dl
      BY <2>5 DEF MarkAsPublished
    <3>2. st[cur[p]] # "unborn"
      BY <2>5, <3>1 DEF MarkAsPublished
    <3>3. st' = [st EXCEPT ![cur[p]] = "published"]
      BY <2>5, <3>1 DEF MarkAsPublished
    <3> QED BY <3>1, <3>2, <3>3 DEF Channel!Next, Channel!Publish
  <2>6. ASSUME NEW p \in Publishers, RecordRefusal(p)
        PROVE  Channel!Next \/ UNCHANGED <<st, dl>>
    <3>1. cur[p] \in Events /\ UNCHANGED dl
      BY <2>6 DEF RecordRefusal
    <3>2. st[cur[p]] # "unborn"
      BY <2>6, <3>1 DEF RecordRefusal
    <3>3. CASE status' = [status EXCEPT ![cur[p]] = "failed"]
      <4>1. st' = [st EXCEPT ![cur[p]] = "failed"]
        BY <3>1, <3>3
      <4> QED BY <3>1, <3>2, <4>1 DEF Channel!Next, Channel!GiveUp
    <3>4. CASE status' = status
      BY <3>1, <3>4
    <3>5. \/ status' = [status EXCEPT ![cur[p]] = "failed"]
          \/ status' = [status EXCEPT ![cur[p]] = @]
      BY <2>6 DEF RecordRefusal
    <3> QED BY <3>1, <3>3, <3>4, <3>5
  <2>7. ASSUME NEW p \in Publishers, GetPendingEvents(p) \/ UpdateLost(p) \/ Stop(p)
        PROVE  UNCHANGED <<st, dl>>
    BY <2>7 DEF GetPendingEvents, UpdateLost, Stop
  <2>8. CASE UNCHANGED vars
    BY <2>8 DEF vars
  <2> QED
    BY <2>1, <2>2, <2>3, <2>4, <2>5, <2>6, <2>7, <2>8 DEF Next, Step
<1>3. Spec => []DeliveryInv
  <2>1. Init => DeliveryInv
    BY DEF Init, DeliveryInv, TypeOK, PublishedIsInKafka, SentBeforeMarked, Handled,
           Committed, Status
  <2> QED BY <2>1, TypeCorrect, DeliveryStep, PTL DEF Spec
<1> QED BY <1>1, <1>2, <1>3, TypeCorrect, PTL DEF Spec, AtLeastOnce, Channel!Spec

-----------------------------------------------------------------------------
(* One publisher.  Its snapshot of a row it still has to handle is exact,  *)
(* which two publishers on one table break.                                *)

\* What the publisher knows of a row in hand is what the table says.
ExactSnapshot(p) ==
  /\ cur[p] \notin todo[p]
  /\ \A e \in Handled(p) : /\ status[e] = "pending"
                          /\ seen[p][e] = attempts[e]
                          /\ attempts[e] < MaxAttempts

\* A row is tried only after its commit.
Untried == \A e \in Events : status[e] \notin Committed => attempts[e] = 0

SingleInv(p) == ExactSnapshot(p) /\ ExhaustedIsFailed /\ Untried

\* The inductive step of SingleInv.
LEMMA SingleStep ==
  ASSUME NEW p, Publishers = {p}
  PROVE  SingleInv(p) /\ DeliveryInv /\ TypeOK' /\ [Next]_vars => SingleInv(p)'
<1> SUFFICES ASSUME SingleInv(p), DeliveryInv, TypeOK', [Next]_vars
             PROVE  SingleInv(p)'
  OBVIOUS
<1>p. p \in Publishers
  OBVIOUS
<1> USE <1>p DEF SingleInv, DeliveryInv, TypeOK, ExactSnapshot, ExhaustedIsFailed, Untried,
                 Handled, PublishedIsInKafka, Committed, table, loop
<1>1. ASSUME NEW S \in SUBSET Events, SaveEvents(S) PROVE SingleInv(p)'
  BY <1>1 DEF SaveEvents
<1>2. CASE CommitTx \/ RollbackTx
  <2>1. PICK e \in Events, o \in {"pending", "aborted"} : EndTx(created[e], o)
    BY <1>2 DEF CommitTx, RollbackTx
  <2> QED BY <2>1 DEF EndTx
<1>3. CASE GetPendingEvents(p)
  BY <1>3 DEF GetPendingEvents, IsBatch, Selectable
<1>4. CASE PublishEvent(p) \/ PublishRefused(p) \/ PublishUnacknowledged(p)
  <2>1. PICK e \in Events, r \in {"sent", "refused"}, k \in {0, 1} :
          Publish(p, e, r, k)
    BY <1>4 DEF PublishEvent, PublishRefused, PublishUnacknowledged
  <2> QED BY <2>1 DEF Publish, IsNext
<1>5. CASE MarkAsPublished(p)
  BY <1>5 DEF MarkAsPublished, Continue
<1>6. CASE RecordRefusal(p)
  <2>1. cur[p] \in Events /\ status[cur[p]] = "pending"
    BY <1>6 DEF RecordRefusal
  <2> QED BY <1>6, <2>1 DEF RecordRefusal, Continue
<1>7. CASE UpdateLost(p) \/ Stop(p)
  BY <1>7 DEF UpdateLost, Stop, Continue, Fault
<1>8. CASE UNCHANGED vars
  BY <1>8 DEF vars
<1> QED
  BY <1>1, <1>2, <1>3, <1>4, <1>5, <1>6, <1>7, <1>8 DEF Next, Step

\* With one publisher no pending row is beyond the poll's limit: a row that was
\* refused MaxAttempts times is reported as failed.
THEOREM OnePublisherReportsFailure ==
  ASSUME NEW p, Publishers = {p}
  PROVE  Spec => []ExhaustedIsFailed
<1>1. Init => SingleInv(p) /\ DeliveryInv
  BY DEF Init, SingleInv, DeliveryInv, TypeOK, PublishedIsInKafka, SentBeforeMarked, Handled,
         ExactSnapshot, ExhaustedIsFailed, Untried, Committed, Status
<1> QED BY <1>1, TypeCorrect, DeliveryStep, SingleStep, PTL DEF Spec, SingleInv

-----------------------------------------------------------------------------
(* Copies, for any number of publishers.                                   *)

InHand(e) == {p \in Publishers : e \in todo[p]}
ToMark(e) == {p \in Publishers : pc[p] = "sent" /\ cur[p] = e}

\* A publisher takes a row out of its batch when it sends it.
Apart == \A p \in Publishers : cur[p] \notin todo[p]

\* The copies of a row that may still be selected are about to be marked, or were
\* not marked for a fault; and with those that may be made from the batches in hand
\* there is one per publisher and fault.
CopiesCounted ==
  \A e \in Events :
    /\ Cardinality(InHand(e)) + copies[e] <= Cardinality(Publishers) + faults
    /\ status[e] = "pending" => copies[e] <= Cardinality(ToMark(e)) + faults

\* A row's publishers are some of the publishers.
LEMMA SomePublishers ==
  ASSUME IsFiniteSet(Publishers), NEW S, NEW T, S \subseteq T, T \subseteq Publishers
  PROVE  /\ IsFiniteSet(S) /\ Cardinality(S) \in Nat /\ Cardinality(T) \in Nat
         /\ Cardinality(S) <= Cardinality(T)
<1>1. IsFiniteSet(T)
  BY FS_Subset
<1> QED BY <1>1, FS_Subset, FS_CardinalityType

\* Two sets of publishers that have none in common.
LEMMA DisjointFit ==
  ASSUME IsFiniteSet(Publishers), NEW S, NEW T,
         S \subseteq Publishers, T \subseteq Publishers, S \cap T = {}
  PROVE  Cardinality(S) + Cardinality(T) <= Cardinality(Publishers)
<1>1. Cardinality(T) <= Cardinality(Publishers \ S)
  BY SomePublishers
<1>2. Cardinality(Publishers \ S) = Cardinality(Publishers) - Cardinality(Publishers \cap S)
  BY FS_Difference
<1>3. Cardinality(Publishers \cap S) = Cardinality(S)
  <2>1. Publishers \cap S = S
    OBVIOUS
  <2> QED BY <2>1
<1>4. Cardinality(S) \in Nat /\ Cardinality(T) \in Nat /\ Cardinality(Publishers) \in Nat
  BY SomePublishers
<1> QED BY <1>1, <1>2, <1>3, <1>4

\* Every step leaves what a publisher is at apart from what it has in hand.
LEMMA ApartStep ==
  ASSUME TypeOK, Apart, [Next]_vars
  PROVE  Apart'
<1> USE DEF TypeOK, Apart, table, loop
<1>1. CASE UNCHANGED <<todo, cur>>
  BY <1>1
<1>2. ASSUME NEW p \in Publishers, GetPendingEvents(p) PROVE Apart'
  BY <1>2 DEF GetPendingEvents
<1>3. ASSUME NEW p \in Publishers, NEW e \in Events, NEW r, NEW k, Publish(p, e, r, k) PROVE Apart'
  BY <1>3 DEF Publish
<1>4. ASSUME NEW p \in Publishers, Continue(p), UNCHANGED todo \/ todo' = [todo EXCEPT ![p] = {}]
      PROVE  Apart'
  BY <1>4 DEF Continue
<1> QED BY <1>1, <1>2, <1>3, <1>4
        DEF Next, Step, SaveEvents, CommitTx, RollbackTx, EndTx, PublishEvent, PublishRefused,
            PublishUnacknowledged, MarkAsPublished, RecordRefusal, UpdateLost, Stop, vars

\* What a step means to the copies of one event: none is made, and its row is as
\* selectable as before or is settled, or a fault kept it from being marked; a
\* publisher reads the row; a publisher sends it.
LEMMA CopyStep ==
  ASSUME DeliveryInv, [Next]_vars, NEW e \in Events
  PROVE  \/ /\ copies'[e] = copies[e] /\ InHand(e)' \subseteq InHand(e)
            /\ faults' \in {faults, faults + 1}
            /\ \/ status'[e] # "pending" \/ copies[e] = 0
               \/ status[e] = "pending" /\ ToMark(e) \subseteq ToMark(e)'
               \/ /\ status[e] = "pending" /\ faults' = faults + 1
                  /\ \E p \in Publishers : ToMark(e) \subseteq ToMark(e)' \cup {p}
         \/ /\ copies'[e] = copies[e] /\ status[e] = "pending" /\ status'[e] = "pending"
            /\ ToMark(e)' = ToMark(e) /\ faults' = faults
         \/ /\ copies'[e] = copies[e] + 1 /\ status'[e] = status[e]
            /\ \E p \in InHand(e) :
                 /\ InHand(e)' = InHand(e) \ {p}
                 /\ \/ p \notin ToMark(e) /\ ToMark(e)' = ToMark(e) \cup {p} /\ faults' = faults
                    \/ ToMark(e)' = ToMark(e) /\ faults' = faults + 1
<1> USE DEF DeliveryInv, TypeOK, table, loop
<1> DEFINE Kept == /\ copies'[e] = copies[e] /\ InHand(e)' \subseteq InHand(e)
                   /\ faults' \in {faults, faults + 1}
                   /\ \/ status'[e] # "pending" \/ copies[e] = 0
                      \/ status[e] = "pending" /\ ToMark(e) \subseteq ToMark(e)'
                      \/ /\ status[e] = "pending" /\ faults' = faults + 1
                         /\ \E p \in Publishers : ToMark(e) \subseteq ToMark(e)' \cup {p}
           Read == /\ copies'[e] = copies[e] /\ status[e] = "pending" /\ status'[e] = "pending"
                   /\ ToMark(e)' = ToMark(e) /\ faults' = faults
           Send == /\ copies'[e] = copies[e] + 1 /\ status'[e] = status[e]
                   /\ \E p \in InHand(e) :
                        /\ InHand(e)' = InHand(e) \ {p}
                        /\ \/ p \notin ToMark(e) /\ ToMark(e)' = ToMark(e) \cup {p} /\ faults' = faults
                           \/ ToMark(e)' = ToMark(e) /\ faults' = faults + 1
<1> SUFFICES Kept \/ Read \/ Send
  OBVIOUS
<1>1. ASSUME UNCHANGED <<loop, copies, faults>>, status'[e] = status[e] \/ copies[e] = 0 PROVE Kept
  BY <1>1 DEF InHand, ToMark
<1>2. ASSUME NEW S \in SUBSET Events, SaveEvents(S) PROVE Kept
  BY <1>1, <1>2 DEF SaveEvents, PublishedIsInKafka, Committed
<1>3. ASSUME NEW b \in Events, NEW o, EndTx(created[b], o) PROVE Kept
  BY <1>1, <1>3 DEF EndTx, PublishedIsInKafka, Committed
<1>4. ASSUME NEW p \in Publishers, GetPendingEvents(p) PROVE Kept \/ Read
  <2>1. /\ UNCHANGED <<status, copies, pc, cur, faults>> /\ todo[p] = {}
        /\ \E B \in SUBSET Selectable : todo' = [todo EXCEPT ![p] = B]
    BY <1>4 DEF GetPendingEvents, IsBatch
  <2>2. ToMark(e)' = ToMark(e)
    BY <2>1 DEF ToMark
  <2>3. CASE status[e] = "pending"
    BY <2>1, <2>2, <2>3
  <2>4. CASE status[e] # "pending"
    <3>1. InHand(e)' \subseteq InHand(e)
      BY <2>1, <2>4 DEF InHand, Selectable
    <3> QED BY <2>1, <2>4, <3>1
  <2> QED BY <2>3, <2>4
<1>5. ASSUME NEW p \in Publishers, PublishEvent(p) \/ PublishRefused(p) \/ PublishUnacknowledged(p)
      PROVE  Kept \/ Send
  <2>1. PICK b \in Events, r \in {"sent", "refused"}, k \in {0, 1} :
          /\ Publish(p, b, r, k)
          /\ \/ r = "sent" /\ k = 1 /\ faults' = faults
             \/ r = "refused" /\ k = 0 /\ faults' = faults
             \/ r = "refused" /\ k = 1 /\ faults' = faults + 1
    BY <1>5 DEF PublishEvent, PublishRefused, PublishUnacknowledged, Fault
  <2>2. /\ pc[p] = "loop" /\ b \in todo[p] /\ pc' = [pc EXCEPT ![p] = r]
        /\ cur' = [cur EXCEPT ![p] = b] /\ todo' = [todo EXCEPT ![p] = @ \ {b}]
        /\ copies' = [copies EXCEPT ![b] = @ + k] /\ status' = status
    BY <2>1 DEF Publish, IsNext
  <2>3. ToMark(e)' = IF r = "sent" /\ b = e THEN ToMark(e) \cup {p} ELSE ToMark(e)
    BY <2>1, <2>2 DEF ToMark
  <2>4. p \notin ToMark(e)
    BY <2>2 DEF ToMark
  <2>5. /\ b = e => p \in InHand(e) /\ InHand(e)' = InHand(e) \ {p}
        /\ b # e => InHand(e)' = InHand(e)
    BY <2>2 DEF InHand
  <2>6. copies'[e] = IF b = e THEN copies[e] + k ELSE copies[e]
    BY <2>2
  <2>7. CASE b = e /\ k = 1
    BY <2>1, <2>2, <2>3, <2>4, <2>5, <2>6, <2>7
  <2>8. CASE ~ (b = e /\ k = 1)
    <3>1. ToMark(e)' = ToMark(e) /\ InHand(e)' \subseteq InHand(e) /\ copies'[e] = copies[e]
      BY <2>1, <2>3, <2>5, <2>6, <2>8
    <3>2. faults' \in {faults, faults + 1} /\ status'[e] = status[e]
      BY <2>1, <2>2
    <3> QED BY <3>1, <3>2
  <2> QED BY <2>7, <2>8
<1>6. ASSUME NEW p \in Publishers, Continue(p), UNCHANGED todo \/ todo' = [todo EXCEPT ![p] = {}]
      PROVE  /\ InHand(e)' \subseteq InHand(e) /\ ToMark(e) \subseteq ToMark(e)' \cup {p}
             /\ pc[p] # "sent" \/ cur[p] # e => ToMark(e)' = ToMark(e)
  BY <1>6 DEF Continue, InHand, ToMark
<1>7. ASSUME NEW p \in Publishers, MarkAsPublished(p) PROVE Kept
  <2>1. /\ UNCHANGED <<todo, copies, faults>> /\ Continue(p)
        /\ status' = [status EXCEPT ![cur[p]] = "published"]
    BY <1>7 DEF MarkAsPublished
  <2>2. CASE cur[p] = e
    BY <1>6, <2>1, <2>2
  <2>3. CASE cur[p] # e
    BY <1>6, <2>1, <2>3
  <2> QED BY <2>2, <2>3
<1>8. ASSUME NEW p \in Publishers, RecordRefusal(p) PROVE Kept
  <2>1. /\ UNCHANGED <<todo, copies, faults>> /\ Continue(p) /\ pc[p] = "refused"
        /\ status'[e] = status[e] \/ status'[e] # "pending"
    BY <1>8 DEF RecordRefusal
  <2> QED BY <1>6, <2>1
<1>9. ASSUME NEW p \in Publishers, UpdateLost(p) \/ Stop(p) PROVE Kept
  <2>1. /\ UNCHANGED <<status, copies>> /\ Continue(p) /\ faults' = faults + 1
        /\ UNCHANGED todo \/ todo' = [todo EXCEPT ![p] = {}]
    BY <1>9 DEF UpdateLost, Stop, Fault
  <2> QED BY <1>6, <2>1
<1>10. CASE UNCHANGED vars
  BY <1>1, <1>10 DEF vars
<1> HIDE DEF Kept, Read, Send
<1> QED BY <1>2, <1>3, <1>4, <1>5, <1>7, <1>8, <1>9, <1>10 DEF Next, Step, CommitTx, RollbackTx

\* An event is in Kafka at most once for each publisher and each fault.
THEOREM OutboxBoundsCopies ==
  ASSUME IsFiniteSet(Publishers)
  PROVE  Spec => []CopiesBounded
<1> DEFINE H(e) == Cardinality(InHand(e))
           M(e) == Cardinality(ToMark(e))
           P == Cardinality(Publishers)
<1>0. \A e : H(e) \in Nat /\ M(e) \in Nat /\ P \in Nat
  BY SomePublishers DEF InHand, ToMark
<1>1. Init => Apart /\ CopiesCounted
  <2> SUFFICES ASSUME Init PROVE Apart /\ CopiesCounted
    OBVIOUS
  <2>1. Apart
    BY DEF Init, Apart
  <2>2. ASSUME NEW e \in Events PROVE H(e) = 0 /\ copies[e] = 0 /\ status[e] = "none" /\ faults = 0
    <3>1. InHand(e) = {}
      BY DEF Init, InHand
    <3> QED BY <3>1, FS_EmptySet DEF Init
  <2> QED BY <1>0, <2>1, <2>2 DEF CopiesCounted
<1>2. DeliveryInv /\ Apart /\ Apart' /\ CopiesCounted /\ [Next]_vars => CopiesCounted'
  <2> SUFFICES ASSUME DeliveryInv, Apart, Apart', CopiesCounted, [Next]_vars, NEW e \in Events
               PROVE  /\ H(e)' + copies'[e] <= P + faults'
                      /\ status'[e] = "pending" => copies'[e] <= M(e)' + faults'
    BY DEF CopiesCounted
  <2>0. /\ H(e) \in Nat /\ M(e) \in Nat /\ H(e)' \in Nat /\ M(e)' \in Nat /\ P \in Nat
        /\ copies[e] \in Nat /\ faults \in Nat
        /\ H(e) + copies[e] <= P + faults
        /\ status[e] = "pending" => copies[e] <= M(e) + faults
    <3>1. H(e)' \in Nat /\ M(e)' \in Nat
      BY SomePublishers DEF InHand, ToMark
    <3>2. copies[e] \in Nat /\ faults \in Nat
      BY DEF DeliveryInv, TypeOK
    <3> QED BY <1>0, <3>1, <3>2 DEF CopiesCounted
  <2>s. /\ InHand(e) \subseteq Publishers /\ ToMark(e) \subseteq Publishers
        /\ InHand(e)' \subseteq Publishers /\ ToMark(e)' \subseteq Publishers
    BY DEF InHand, ToMark
  <2>1. ASSUME copies'[e] = copies[e], InHand(e)' \subseteq InHand(e),
               faults' \in {faults, faults + 1},
               \/ status'[e] # "pending" \/ copies[e] = 0
               \/ status[e] = "pending" /\ ToMark(e) \subseteq ToMark(e)'
               \/ /\ status[e] = "pending" /\ faults' = faults + 1
                  /\ \E p \in Publishers : ToMark(e) \subseteq ToMark(e)' \cup {p}
        PROVE  /\ H(e)' + copies'[e] <= P + faults'
               /\ status'[e] = "pending" => copies'[e] <= M(e)' + faults'
    <3>1. H(e)' <= H(e)
      BY <2>1, <2>s, SomePublishers
    <3>2. CASE status'[e] # "pending" \/ copies[e] = 0
      BY <2>0, <2>1, <3>1, <3>2
    <3>3. CASE status[e] = "pending" /\ ToMark(e) \subseteq ToMark(e)'
      <4>1. M(e) <= M(e)'
        BY <2>s, <3>3, SomePublishers
      <4> QED BY <2>0, <2>1, <3>1, <3>3, <4>1
    <3>4. CASE /\ status[e] = "pending" /\ faults' = faults + 1
               /\ \E p \in Publishers : ToMark(e) \subseteq ToMark(e)' \cup {p}
      <4>1. PICK p \in Publishers : ToMark(e) \subseteq ToMark(e)' \cup {p}
        BY <3>4
      <4>2. M(e) <= Cardinality(ToMark(e)' \cup {p})
        BY <2>s, <4>1, SomePublishers
      <4>3. IsFiniteSet(ToMark(e)')
        BY <2>s, SomePublishers
      <4>4. Cardinality(ToMark(e)' \cup {p}) \in {M(e)', M(e)' + 1}
        BY <4>3, FS_AddElement
      <4> QED BY <2>0, <2>1, <3>1, <3>4, <4>2, <4>4
    <3> QED BY <2>1, <3>2, <3>3, <3>4
  <2>2. ASSUME copies'[e] = copies[e], status[e] = "pending", status'[e] = "pending",
               ToMark(e)' = ToMark(e), faults' = faults
        PROVE  /\ H(e)' + copies'[e] <= P + faults'
               /\ status'[e] = "pending" => copies'[e] <= M(e)' + faults'
    <3>1. InHand(e)' \cap ToMark(e)' = {}
      BY DEF Apart, InHand, ToMark
    <3>2. H(e)' + M(e)' <= P
      BY <2>s, <3>1, DisjointFit
    <3>3. M(e)' = M(e)
      BY <2>2
    <3> QED BY <2>0, <2>2, <3>2, <3>3
  <2>3. ASSUME copies'[e] = copies[e] + 1, status'[e] = status[e],
               NEW p \in InHand(e), InHand(e)' = InHand(e) \ {p},
               \/ p \notin ToMark(e) /\ ToMark(e)' = ToMark(e) \cup {p} /\ faults' = faults
               \/ ToMark(e)' = ToMark(e) /\ faults' = faults + 1
        PROVE  /\ H(e)' + copies'[e] <= P + faults'
               /\ status'[e] = "pending" => copies'[e] <= M(e)' + faults'
    <3>0. IsFiniteSet(InHand(e)) /\ IsFiniteSet(ToMark(e))
      BY <2>s, SomePublishers
    <3>1. H(e)' = H(e) - 1
      BY <2>3, <3>0, FS_RemoveElement
    <3>2. \/ M(e)' = M(e) + 1 /\ faults' = faults
          \/ M(e)' = M(e) /\ faults' = faults + 1
      BY <2>3, <3>0, FS_AddElement
    <3> QED BY <2>0, <2>3, <3>1, <3>2
  <2> HIDE DEF H, M, P
  <2> QED BY <2>1, <2>2, <2>3, CopyStep
<1>3. TypeOK /\ CopiesCounted => CopiesBounded
  <2> SUFFICES ASSUME TypeOK, CopiesCounted, NEW e \in Events PROVE copies[e] <= P + faults
    BY DEF CopiesBounded
  <2>1. H(e) + copies[e] <= P + faults /\ copies[e] \in Nat /\ faults \in Nat
    BY DEF CopiesCounted, TypeOK
  <2> QED BY <1>0, <2>1
<1>4. Init => DeliveryInv
  BY DEF Init, DeliveryInv, TypeOK, PublishedIsInKafka, SentBeforeMarked, Handled, Committed, Status
<1>5. TypeOK /\ Apart /\ [Next]_vars => Apart'
  BY ApartStep
<1> QED BY <1>1, <1>2, <1>3, <1>4, <1>5, TypeCorrect, DeliveryStep, PTL DEF Spec

-----------------------------------------------------------------------------
(* Causal order, for any number of publishers.                             *)

\* A transaction ends after it began, and neither is ahead of the clock.
Times ==
  \A e \in Events :
    /\ created[e] <= clock /\ committed[e] <= clock
    /\ status[e] \in Committed => created[e] < committed[e]

\* A row that was not published and not refused is pending.
UntouchedIsPending ==
  \A e \in Events : status[e] = "failed" => attempts[e] > 0

\* A publisher with a row in hand has in hand, too, what had committed before that
\* row's transaction began and was neither sent nor refused by anyone.
EarlierFirst ==
  \A p \in Publishers : \A f \in todo[p], e \in Events :
    /\ status[e] \in Committed /\ committed[e] < created[f]
    /\ copies[e] = 0 /\ attempts[e] = 0
    => e \in todo[p] \/ (pc[p] = "refused" /\ cur[p] = e)

CausalInv == Times /\ UntouchedIsPending /\ (faults = 0 => EarlierFirst)

\* CausalInv is preserved by every step.
LEMMA CausalStep ==
  ASSUME DeliveryInv, CausalInv, [Next]_vars
  PROVE  CausalInv'
<1> USE DEF DeliveryInv, TypeOK, PublishedIsInKafka, SentBeforeMarked, Handled, CausalInv, table, loop, Committed, Status
<1>0. \A p \in Publishers : todo[p] \subseteq Events
  OBVIOUS
<1>1. ASSUME NEW S \in SUBSET Events, SaveEvents(S) PROVE CausalInv'
  <2>1. Times'
    BY <1>1 DEF SaveEvents, Times
  <2>2. UntouchedIsPending'
    BY <1>1 DEF SaveEvents, UntouchedIsPending
  <2>3. ASSUME EarlierFirst PROVE EarlierFirst'
    BY <1>0, <1>1, <2>3 DEF SaveEvents, EarlierFirst
  <2> QED BY <1>1, <2>1, <2>2, <2>3 DEF SaveEvents
<1>2. ASSUME NEW b \in Events, NEW o \in {"pending", "aborted"}, EndTx(created[b], o) PROVE CausalInv'
  <2>1. Times'
    BY <1>2 DEF EndTx, Times
  <2>2. UntouchedIsPending'
    BY <1>2 DEF EndTx, UntouchedIsPending
  <2>3. ASSUME EarlierFirst PROVE EarlierFirst'
    <3>1. \A e \in Events : \/ status'[e] = status[e] /\ committed'[e] = committed[e]
                            \/ committed'[e] = clock + 1
      BY <1>2 DEF EndTx
    <3>2. UNCHANGED <<todo, created, copies, attempts, pc, cur>>
      BY <1>2 DEF EndTx
    <3>3. \A e \in Events : created[e] <= clock
      BY DEF Times
    <3> QED BY <1>0, <2>3, <3>1, <3>2, <3>3 DEF EarlierFirst
  <2> QED BY <1>2, <2>1, <2>2, <2>3 DEF EndTx
<1>3. ASSUME NEW p \in Publishers, GetPendingEvents(p) PROVE CausalInv'
  <2>1. Times' /\ UntouchedIsPending' /\ faults' = faults
    BY <1>3 DEF GetPendingEvents, Times, UntouchedIsPending
  <2>2. ASSUME EarlierFirst PROVE EarlierFirst'
    <3>1. PICK B \in SUBSET Events : IsBatch(B) /\ todo' = [todo EXCEPT ![p] = B]
      BY <1>3 DEF GetPendingEvents
    <3>2. UNCHANGED <<status, committed, created, copies, attempts, pc, cur>>
      BY <1>3 DEF GetPendingEvents
    <3>3. ASSUME NEW f \in B, NEW e \in Events, status[e] \in Committed, committed[e] < created[f],
                 copies[e] = 0, attempts[e] = 0
          PROVE  e \in B
      <4>1. status[e] = "pending"
        BY <3>3 DEF UntouchedIsPending
      <4>2. e \in Selectable
        BY <3>3, <4>1 DEF Selectable
      <4>3. created[e] < created[f]
        BY <3>3 DEF Times
      <4> QED BY <3>1, <4>2, <4>3 DEF IsBatch
    <3> QED BY <2>2, <3>1, <3>2, <3>3 DEF EarlierFirst
  <2> QED BY <2>1, <2>2
<1>4. ASSUME NEW p \in Publishers,
             PublishEvent(p) \/ PublishRefused(p) \/ PublishUnacknowledged(p)
      PROVE  CausalInv'
  <2>1. PICK b \in Events, r \in {"sent", "refused"}, k \in {0, 1} :
          /\ Publish(p, b, r, k) /\ (r = "sent" => k = 1)
          /\ faults' \in {faults, faults + 1}
    BY <1>4 DEF PublishEvent, PublishRefused, PublishUnacknowledged, Fault
  <2>2. Times' /\ UntouchedIsPending'
    BY <2>1 DEF Publish, Times, UntouchedIsPending
  <2>3. ASSUME EarlierFirst PROVE EarlierFirst'
    <3>1. /\ todo' = [todo EXCEPT ![p] = @ \ {b}] /\ pc' = [pc EXCEPT ![p] = r]
          /\ cur' = [cur EXCEPT ![p] = b] /\ copies' = [copies EXCEPT ![b] = @ + k]
          /\ UNCHANGED <<status, committed, created, attempts>> /\ pc[p] = "loop"
      BY <2>1 DEF Publish
    <3>2. \A e \in Events : copies'[e] = 0 => copies[e] = 0 /\ (e = b => r = "refused")
      BY <2>1, <3>1
    <3> QED BY <2>3, <3>1, <3>2 DEF EarlierFirst
  <2> QED BY <2>1, <2>2, <2>3
<1>5. ASSUME NEW p \in Publishers, MarkAsPublished(p) PROVE CausalInv'
  <2>1. cur[p] \in Events
    BY <1>5 DEF MarkAsPublished
  <2>2. Times'
    BY <1>5, <2>1 DEF MarkAsPublished, Times
  <2>3. UntouchedIsPending'
    BY <1>5, <2>1 DEF MarkAsPublished, UntouchedIsPending
  <2>4. ASSUME EarlierFirst PROVE EarlierFirst'
    BY <1>5, <2>1, <2>4 DEF MarkAsPublished, Continue, EarlierFirst
  <2> QED BY <1>5, <2>2, <2>3, <2>4 DEF MarkAsPublished
<1>6. ASSUME NEW p \in Publishers, RecordRefusal(p) PROVE CausalInv'
  <2>1. cur[p] \in Events /\ status[cur[p]] \in Committed
    BY <1>6 DEF RecordRefusal
  <2>2. /\ status' = [status EXCEPT ![cur[p]] = "failed"] \/ status' = status
        /\ attempts' = [attempts EXCEPT ![cur[p]] = @ + 1]
        /\ UNCHANGED <<created, committed, clock, todo, copies, faults>>
        /\ pc' = [pc EXCEPT ![p] = "loop"] /\ cur' = [cur EXCEPT ![p] = NoEvent]
    BY <1>6, <2>1 DEF RecordRefusal, Continue
  <2>3. Times'
    BY <2>1, <2>2 DEF Times
  <2>4. UntouchedIsPending'
    BY <2>1, <2>2 DEF UntouchedIsPending
  <2>5. ASSUME EarlierFirst PROVE EarlierFirst'
    <3>1. \A e \in Events : /\ status'[e] \in Committed => status[e] \in Committed
                            /\ attempts'[e] = 0 => attempts[e] = 0 /\ e # cur[p]
      BY <2>1, <2>2
    <3> QED BY <2>2, <2>5, <3>1 DEF EarlierFirst
  <2> QED BY <2>2, <2>3, <2>4, <2>5
<1>7. ASSUME NEW p \in Publishers, UpdateLost(p) \/ Stop(p) PROVE CausalInv'
  BY <1>7 DEF UpdateLost, Stop, Fault, Times, UntouchedIsPending
<1>8. CASE UNCHANGED vars
  BY <1>8 DEF vars, Times, UntouchedIsPending, EarlierFirst
<1> QED
  BY <1>1, <1>2, <1>3, <1>4, <1>5, <1>6, <1>7, <1>8 DEF Next, Step, CommitTx, RollbackTx

\* However many publishers run, an event does not overtake one whose transaction
\* had committed before its own began, unless that was refused or a fault occurred.
THEOREM OutboxKeepsCausalOrder == Spec => CausalOrder
<1> DEFINE Order == \A e, f \in Events :
                      (/\ status[e] \in Committed
                       /\ committed[e] < created[f]
                       /\ copies[f] = 0 /\ copies'[f] > 0)
                      => copies[e] > 0 \/ attempts[e] > 0 \/ faults > 0
<1>1. Init => DeliveryInv /\ CausalInv
  BY DEF Init, DeliveryInv, TypeOK, PublishedIsInKafka, SentBeforeMarked, Handled, Committed, Status,
         CausalInv, Times, UntouchedIsPending, EarlierFirst
<1>2. DeliveryInv /\ CausalInv /\ [Next]_vars => [Order]_vars
  <2> SUFFICES ASSUME DeliveryInv, CausalInv, Next, NEW e \in Events, NEW f \in Events,
                      status[e] \in Committed, committed[e] < created[f], copies[f] = 0, copies'[f] > 0,
                      copies[e] = 0, attempts[e] = 0, faults = 0
               PROVE  FALSE
    BY DEF DeliveryInv, TypeOK
  <2> USE DEF DeliveryInv, TypeOK
  <2>1. PICK p \in Publishers : PublishEvent(p) \/ PublishRefused(p) \/ PublishUnacknowledged(p)
    BY DEF Next, Step, SaveEvents, CommitTx, RollbackTx, EndTx, GetPendingEvents, MarkAsPublished,
           RecordRefusal, UpdateLost, Stop
  <2>2. PICK b \in Events, r \in {"sent", "refused"}, k \in {0, 1} : Publish(p, b, r, k)
    BY <2>1 DEF PublishEvent, PublishRefused, PublishUnacknowledged
  <2>3. b = f
    BY <2>2 DEF Publish
  <2>4. f \in todo[p] /\ pc[p] = "loop" /\ (e \in todo[p] => created[f] <= created[e])
    BY <2>2, <2>3 DEF Publish, IsNext
  <2>5. e \in todo[p]
    BY <2>4 DEF CausalInv, EarlierFirst
  <2>6. created[e] < committed[e]
    BY DEF CausalInv, Times
  <2> QED BY <2>4, <2>5, <2>6
<1> QED BY <1>1, <1>2, TypeCorrect, DeliveryStep, CausalStep, PTL DEF Spec, CausalOrder
=============================================================================
