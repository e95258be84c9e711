---------------------------- MODULE ConsumerProofs ----------------------------
(***************************************************************************)
(* Lemmas about the consumer group, for any number of instances,           *)
(* partitions, messages and faults: what its steps do to its own state,    *)
(* whatever the handler of a service does besides.                         *)
(***************************************************************************)
EXTENDS Consumer, FiniteSetTheorems, TLAPS

USE ConsumerConstants

\* A step of an instance, as far as the group can tell.
GroupStep(c) ==
  \/ FetchMessage(c)
  \/ msg[c] # NoMessage /\ (CommitMessage(c) \/ HandlerFailed(c))
  \/ FlushCommits(c)
  \/ Crash(c)
  \/ \E p \in Partitions : Rebalance(p, c)
  \/ UNCHANGED consumer

Faulty == UNCHANGED faults \/ Fault

-----------------------------------------------------------------------------
(* Messages.                                                               *)

\* A message is an offset of a partition, and has a payload.
LEMMA MessageFacts ==
  ASSUME ConsumerTypeOK
  PROVE  /\ \A m \in Messages : /\ m[1] \in Partitions /\ m[2] \in Nat \ {0}
                                /\ m[2] <= Len(topic[m[1]])
                                /\ m = <<m[1], m[2]>>
                                /\ Payload(m) \in Payloads
         /\ \A p \in Partitions : \A i \in Nat :
              i > 0 /\ i <= Len(topic[p]) => <<p, i>> \in Messages
         /\ NoMessage \notin Messages
         /\ Messages \subseteq Partitions \X Nat
<1>1. \A p \in Partitions : topic[p] \in Seq(Payloads) /\ Len(topic[p]) \in Nat
  BY DEF ConsumerTypeOK
<1>2. \A m : m \in Messages <=> \E p \in Partitions : m \in {p} \X Offsets(p)
  BY DEF Messages
<1>3. \A m \in Messages : \E p \in Partitions : \E i \in 1..Len(topic[p]) : m = <<p, i>>
  BY <1>2 DEF Offsets
<1>4. \A p \in Partitions : \A i \in 1..Len(topic[p]) : <<p, i>> \in Messages
  BY <1>2 DEF Offsets
<1>5. \A p \in Partitions : \A i \in 1..Len(topic[p]) : topic[p][i] \in Payloads
  BY <1>1
<1> QED BY <1>1, <1>3, <1>4, <1>5 DEF Payload

\* A group starts with these types.
LEMMA ConsumerInitTypes ==
  ASSUME ConsumerInit
  PROVE  ConsumerTypeOK
<1>1. /\ topic \in [Partitions -> Seq(Payloads)] /\ owner \in [Partitions -> Consumers]
      /\ next \in [Partitions -> Nat] /\ committed \in [Partitions -> Nat]
      /\ msg \in [Consumers -> Messages \cup {NoMessage}]
      /\ faults \in 0..MaxFaults
  BY DEF ConsumerInit
<1>2. asked \in [Consumers -> [Partitions -> Nat]]
  <2>1. [p \in Partitions |-> 0] \in [Partitions -> Nat]
    OBVIOUS
  <2> QED BY <2>1 DEF ConsumerInit
<1>3. ASSUME NEW p \in Partitions
      PROVE  /\ next[p] \in 1..(Len(topic[p]) + 1) /\ committed[p] \in 0..Len(topic[p])
             /\ \A c \in Consumers : asked[c][p] \in 0..Len(topic[p])
  <2>1. Len(topic[p]) \in Nat
    BY <1>1
  <2>2. next[p] = 1 /\ committed[p] = 0 /\ \A c \in Consumers : asked[c][p] = 0
    BY DEF ConsumerInit
  <2> QED BY <2>1, <2>2
<1> QED BY <1>1, <1>2, <1>3 DEF ConsumerTypeOK

\* A step of an instance keeps the messages and the types.
LEMMA GroupStepTypes ==
  ASSUME ConsumerTypeOK, NEW c \in Consumers, GroupStep(c), Faulty
  PROVE  /\ ConsumerTypeOK'
         /\ topic' = topic /\ Messages' = Messages
         /\ faults' \in {faults, faults + 1}
<1>1. topic' = topic
  BY DEF GroupStep, FetchMessage, CommitMessage, HandlerFailed, FlushCommits, Crash, Rebalance,
         consumer
<1>2. Messages' = Messages
  BY <1>1 DEF Messages, Offsets
<1>3. faults' \in {faults, faults + 1} /\ faults' \in 0..MaxFaults
  BY DEF Faulty, Fault, ConsumerTypeOK
<1>4. owner' \in [Partitions -> Consumers]
  <2>1. owner' = owner \/ \E p \in Partitions : owner' = [owner EXCEPT ![p] = c]
    BY DEF GroupStep, FetchMessage, CommitMessage, HandlerFailed, FlushCommits, Crash, Rebalance,
           consumer
  <2> QED BY <2>1 DEF ConsumerTypeOK
<1>5. /\ next \in [Partitions -> Nat] /\ committed \in [Partitions -> Nat]
      /\ asked \in [Consumers -> [Partitions -> Nat]]
      /\ msg \in [Consumers -> Messages \cup {NoMessage}]
      /\ \A p \in Partitions : /\ Len(topic[p]) \in Nat
                               /\ next[p] > 0 /\ next[p] <= Len(topic[p]) + 1
                               /\ committed[p] <= Len(topic[p])
                               /\ \A d \in Consumers : asked[d][p] <= Len(topic[p])
  BY DEF ConsumerTypeOK
<1>6. CASE FetchMessage(c)
  <2> PICK p \in Partitions : /\ next[p] <= Len(topic[p])
                             /\ msg' = [msg EXCEPT ![c] = <<p, next[p]>>]
                             /\ next' = [next EXCEPT ![p] = @ + 1]
    BY <1>6 DEF FetchMessage
  <2>1. asked' = asked /\ committed' = committed
    BY <1>6 DEF FetchMessage
  <2>2. <<p, next[p]>> \in Messages
    BY <1>5, MessageFacts
  <2>3. msg' \in [Consumers -> Messages \cup {NoMessage}]
    BY <1>5, <2>2
  <2>4. next' \in [Partitions -> Nat]
    BY <1>5
  <2>5. \A q \in Partitions : next'[q] = IF q = p THEN next[p] + 1 ELSE next[q]
    BY <1>5
  <2>6. \A q \in Partitions : next'[q] \in 1..(Len(topic[q]) + 1)
    <3> SUFFICES ASSUME NEW q \in Partitions PROVE next'[q] \in 1..(Len(topic[q]) + 1)
      OBVIOUS
    <3>1. /\ Len(topic[q]) \in Nat /\ next[q] \in Nat /\ next[p] \in Nat
          /\ next[q] > 0 /\ next[q] <= Len(topic[q]) + 1
      BY <1>5
    <3>2. q = p => next[p] + 1 <= Len(topic[q]) + 1
      BY <1>5
    <3> QED BY <2>5, <3>1, <3>2
  <2> QED BY <1>1, <1>2, <1>3, <1>4, <1>5, <2>1, <2>3, <2>4, <2>6 DEF ConsumerTypeOK
<1>7. CASE msg[c] # NoMessage /\ CommitMessage(c)
  <2>1. msg[c][1] \in Partitions /\ msg[c][2] \in Nat /\ msg[c][2] <= Len(topic[msg[c][1]])
    BY <1>5, <1>7, MessageFacts
  <2>2. /\ asked' = [asked EXCEPT ![c][msg[c][1]] = msg[c][2]]
        /\ msg' = [msg EXCEPT ![c] = NoMessage]
        /\ next' = next /\ committed' = committed
    BY <1>7 DEF CommitMessage
  <2>3. asked' \in [Consumers -> [Partitions -> Nat]]
    BY <1>5, <2>1, <2>2
  <2>4. \A d \in Consumers, q \in Partitions :
          asked'[d][q] = asked[d][q] \/ (q = msg[c][1] /\ asked'[d][q] = msg[c][2])
    BY <1>5, <2>1, <2>2
  <2>5. \A d \in Consumers, q \in Partitions : asked'[d][q] \in 0..Len(topic[q])
    <3> SUFFICES ASSUME NEW d \in Consumers, NEW q \in Partitions
                 PROVE  asked'[d][q] \in 0..Len(topic[q])
      OBVIOUS
    <3>1. asked'[d][q] \in Nat /\ Len(topic[q]) \in Nat /\ asked[d][q] <= Len(topic[q])
      BY <1>5, <2>3
    <3> QED BY <2>1, <2>4, <3>1
  <2>6. msg' \in [Consumers -> Messages \cup {NoMessage}]
    BY <1>5, <2>2
  <2> QED BY <1>1, <1>2, <1>3, <1>4, <1>5, <2>2, <2>3, <2>5, <2>6 DEF ConsumerTypeOK
<1>8. CASE HandlerFailed(c) \/ UNCHANGED consumer
  <2>1. /\ next' = next /\ committed' = committed /\ asked' = asked
        /\ msg' \in [Consumers -> Messages \cup {NoMessage}]
    BY <1>5, <1>8 DEF HandlerFailed, consumer
  <2> QED BY <1>1, <1>2, <1>3, <1>4, <1>5, <2>1 DEF ConsumerTypeOK
<1>9. CASE FlushCommits(c)
  <2> PICK p \in Partitions : /\ committed' = [committed EXCEPT ![p] = asked[c][p]]
                             /\ asked' = [asked EXCEPT ![c][p] = 0]
    BY <1>9 DEF FlushCommits
  <2>1. next' = next /\ msg' = msg
    BY <1>9 DEF FlushCommits
  <2>2. /\ committed' \in [Partitions -> Nat]
        /\ \A q \in Partitions : committed'[q] \in 0..Len(topic[q])
    BY SMTT(30), <1>5
  <2>3. asked' \in [Consumers -> [Partitions -> Nat]]
    BY <1>5
  <2>4. \A d \in Consumers, q \in Partitions : asked'[d][q] \in {0, asked[d][q]}
    BY <1>5
  <2>5. \A d \in Consumers, q \in Partitions : asked'[d][q] \in 0..Len(topic[q])
    BY SMTT(30), <1>5, <2>3, <2>4
  <2> QED BY <1>1, <1>2, <1>3, <1>4, <1>5, <2>1, <2>2, <2>3, <2>5 DEF ConsumerTypeOK
<1>10. CASE Crash(c)
  <2>1. /\ msg' = [msg EXCEPT ![c] = NoMessage]
        /\ asked' = [asked EXCEPT ![c] = [p \in Partitions |-> 0]]
        /\ next' = [p \in Partitions |-> IF owner[p] = c THEN committed[p] + 1 ELSE next[p]]
        /\ committed' = committed
    BY <1>10 DEF Crash
  <2>2. msg' \in [Consumers -> Messages \cup {NoMessage}]
    BY <1>5, <2>1
  <2>3. /\ asked' \in [Consumers -> [Partitions -> Nat]]
        /\ \A d \in Consumers, q \in Partitions : asked'[d][q] \in 0..Len(topic[q])
    BY <1>5, <2>1
  <2>4. /\ next' \in [Partitions -> Nat]
        /\ \A q \in Partitions : next'[q] \in 1..(Len(topic[q]) + 1)
    BY <1>5, <2>1
  <2> QED BY <1>1, <1>2, <1>3, <1>4, <1>5, <2>1, <2>2, <2>3, <2>4 DEF ConsumerTypeOK
<1>11. CASE \E p \in Partitions : Rebalance(p, c)
  <2> PICK p \in Partitions : next' = [next EXCEPT ![p] = committed[p] + 1]
    BY <1>11 DEF Rebalance
  <2>1. asked' = asked /\ committed' = committed /\ msg' = msg
    BY <1>11 DEF Rebalance
  <2>2. next' \in [Partitions -> Nat]
    BY <1>5
  <2>3. \A q \in Partitions : next'[q] = IF q = p THEN committed[p] + 1 ELSE next[q]
    BY <1>5
  <2>4. \A q \in Partitions : next'[q] \in 1..(Len(topic[q]) + 1)
    <3> SUFFICES ASSUME NEW q \in Partitions PROVE next'[q] \in 1..(Len(topic[q]) + 1)
      OBVIOUS
    <3>1. /\ Len(topic[q]) \in Nat /\ next[q] \in Nat /\ committed[p] \in Nat
          /\ next[q] > 0 /\ next[q] <= Len(topic[q]) + 1
      BY <1>5
    <3>2. q = p => committed[p] + 1 <= Len(topic[q]) + 1
      BY <1>5
    <3> QED BY <2>3, <3>1, <3>2
  <2> QED BY <1>1, <1>2, <1>3, <1>4, <1>5, <2>1, <2>2, <2>4 DEF ConsumerTypeOK
<1>12. ConsumerTypeOK'
  BY <1>6, <1>7, <1>8, <1>9, <1>10, <1>11 DEF GroupStep
<1> QED BY <1>1, <1>2, <1>3, <1>12

\* A message that is produced comes behind the others, which stay as they are.
LEMMA ProduceTypes ==
  ASSUME ConsumerTypeOK, NEW p \in Partitions, NEW t \in Payloads,
         Produce(p, t), UNCHANGED faults
  PROVE  /\ ConsumerTypeOK'
         /\ Messages \subseteq Messages'
         /\ \A m \in Messages : Payload(m)' = Payload(m)
         /\ \A m \in Messages' : m \in Messages \/ Payload(m)' = t
<1>1. /\ topic' = [topic EXCEPT ![p] = Append(@, t)]
      /\ UNCHANGED <<owner, next, asked, committed, msg, faults>>
  BY DEF Produce
<1>2. topic \in [Partitions -> Seq(Payloads)]
  BY DEF ConsumerTypeOK
<1>3. topic' \in [Partitions -> Seq(Payloads)]
  BY <1>1, <1>2
<1>4. /\ Len(topic'[p]) = Len(topic[p]) + 1 /\ topic'[p][Len(topic[p]) + 1] = t
      /\ \A i \in 1..Len(topic[p]) : topic'[p][i] = topic[p][i]
      /\ \A q \in Partitions \ {p} : topic'[q] = topic[q]
      /\ \A q \in Partitions : Len(topic[q]) \in Nat /\ Len(topic'[q]) \in Nat
  BY <1>1, <1>2, <1>3
<1>5. \A m : m \in Messages <=> \E q \in Partitions : \E i \in 1..Len(topic[q]) : m = <<q, i>>
  BY DEF Messages, Offsets
<1>6. \A m : m \in Messages' <=> \E q \in Partitions : \E i \in 1..Len(topic'[q]) : m = <<q, i>>
  BY DEF Messages, Offsets
<1>m. /\ \A q \in Partitions : \A i \in 1..Len(topic[q]) :
            i \in 1..Len(topic'[q]) /\ topic'[q][i] = topic[q][i]
      /\ \A q \in Partitions : \A i \in 1..Len(topic'[q]) :
            i \in 1..Len(topic[q]) \/ topic'[q][i] = t
  <2>1. ASSUME NEW q \in Partitions, NEW i \in 1..Len(topic[q])
        PROVE  i \in 1..Len(topic'[q]) /\ topic'[q][i] = topic[q][i]
    <3>1. i \in Nat /\ Len(topic[q]) \in Nat /\ Len(topic'[q]) \in Nat
      BY <1>4
    <3>2. CASE q = p
      BY <1>4, <3>1, <3>2
    <3>3. CASE q # p
      BY <1>4, <3>1, <3>3
    <3> QED BY <3>2, <3>3
  <2>2. ASSUME NEW q \in Partitions, NEW i \in 1..Len(topic'[q])
        PROVE  i \in 1..Len(topic[q]) \/ topic'[q][i] = t
    <3>1. i \in Nat /\ Len(topic[q]) \in Nat /\ Len(topic'[q]) \in Nat
      BY <1>4
    <3>2. CASE q = p
      BY <1>4, <3>1, <3>2
    <3>3. CASE q # p
      BY <1>4, <3>1, <3>3
    <3> QED BY <3>2, <3>3
  <2> QED BY <2>1, <2>2
<1>7. Messages \subseteq Messages'
  BY <1>m, <1>5, <1>6
<1>8. \A m \in Messages : Payload(m)' = Payload(m)
  BY <1>m, <1>5 DEF Payload
<1>9. \A m \in Messages' : m \in Messages \/ Payload(m)' = t
  BY <1>m, <1>5, <1>6 DEF Payload
<1>10. /\ next' \in [Partitions -> Nat] /\ committed' \in [Partitions -> Nat]
       /\ asked' \in [Consumers -> [Partitions -> Nat]]
       /\ owner' \in [Partitions -> Consumers] /\ faults' \in 0..MaxFaults
  BY <1>1 DEF ConsumerTypeOK
<1>11. \A q \in Partitions : /\ next'[q] \in 1..(Len(topic'[q]) + 1)
                             /\ committed'[q] \in 0..Len(topic'[q])
                             /\ \A c \in Consumers : asked'[c][q] \in 0..Len(topic'[q])
  <2> SUFFICES ASSUME NEW q \in Partitions
               PROVE  /\ next'[q] \in 1..(Len(topic'[q]) + 1)
                      /\ committed'[q] \in 0..Len(topic'[q])
                      /\ \A c \in Consumers : asked'[c][q] \in 0..Len(topic'[q])
    OBVIOUS
  <2>1. Len(topic[q]) \in Nat /\ Len(topic'[q]) \in Nat
    BY <1>4
  <2>2. Len(topic[q]) <= Len(topic'[q])
    BY <1>4, <2>1
  <2>3. /\ next[q] \in 1..(Len(topic[q]) + 1)
        /\ committed[q] \in 0..Len(topic[q])
        /\ \A c \in Consumers : asked[c][q] \in 0..Len(topic[q])
    BY DEF ConsumerTypeOK
  <2> QED BY <1>1, <2>1, <2>2, <2>3
<1>12. msg' \in [Consumers -> Messages' \cup {NoMessage}]
  BY <1>1, <1>7 DEF ConsumerTypeOK
<1> QED BY <1>3, <1>7, <1>8, <1>9, <1>10, <1>11, <1>12 DEF ConsumerTypeOK

-----------------------------------------------------------------------------
(* Nothing is skipped.                                                     *)

\* What is behind an offset is in S: a committed one, one to be committed, that
\* of a message under way, and, but for that message, the position of an owner.
Passed(S) ==
  /\ \A p \in Partitions : \A i \in Nat : 0 < i /\ i <= committed[p] => <<p, i>> \in S
  /\ \A c \in Consumers, p \in Partitions :
       \A i \in Nat : 0 < i /\ i <= asked[c][p] => <<p, i>> \in S
  /\ \A c \in Consumers : msg[c] # NoMessage =>
       \A i \in Nat : 0 < i /\ i < msg[c][2] => <<msg[c][1], i>> \in S
  /\ \A p \in Partitions :
       \A i \in Nat : 0 < i /\ i < next[p] => <<p, i>> \in S \/ msg[owner[p]] = <<p, i>>

\* By the time a message is committed, and by the time its handler fails, it is
\* in T, unless the instance dies at it.
DoneOnlyIn(T, c) ==
  CommitMessage(c) \/ HandlerFailed(c) => msg[c] \in T \cup {NoMessage} \/ Crash(c)

\* Then it stays so when S grows.
LEMMA PassedKept ==
  ASSUME ConsumerTypeOK, NEW S, NEW T, Passed(S), S \subseteq T,
         NEW c \in Consumers, GroupStep(c),
         DoneOnlyIn(T, c)
  PROVE  Passed(T)'
<1>1. /\ next \in [Partitions -> Nat] /\ committed \in [Partitions -> Nat]
      /\ asked \in [Consumers -> [Partitions -> Nat]]
      /\ owner \in [Partitions -> Consumers]
      /\ msg \in [Consumers -> Messages \cup {NoMessage}]
      /\ \A m \in Messages : m[1] \in Partitions /\ m[2] \in Nat /\ m = <<m[1], m[2]>>
      /\ \A p \in Partitions, i \in Nat : <<p, i>> # NoMessage
  BY MessageFacts DEF ConsumerTypeOK
<1>2. Passed(T)
  BY DEF Passed
<1>3. CASE FetchMessage(c)
  <2> PICK p \in Partitions : /\ owner[p] = c
                             /\ msg' = [msg EXCEPT ![c] = <<p, next[p]>>]
                             /\ next' = [next EXCEPT ![p] = @ + 1]
    BY <1>3 DEF FetchMessage
  <2>1. UNCHANGED <<owner, asked, committed>> /\ msg[c] = NoMessage
    BY <1>3 DEF FetchMessage
  <2>2. \A i \in Nat : 0 < i /\ i < next[p] => <<p, i>> \in T
    <3> SUFFICES ASSUME NEW i \in Nat, 0 < i, i < next[p] PROVE <<p, i>> \in T
      OBVIOUS
    <3>1. <<p, i>> \in T \/ msg[owner[p]] = <<p, i>>
      BY <1>2 DEF Passed
    <3>2. msg[owner[p]] = NoMessage /\ <<p, i>> # NoMessage
      BY <1>1, <2>1
    <3> QED BY <3>1, <3>2
  <2>3. \A d \in Consumers : msg'[d] # NoMessage =>
          \A i \in Nat : 0 < i /\ i < msg'[d][2] => <<msg'[d][1], i>> \in T
    <3>1. msg'[c] = <<p, next[p]>> /\ \A d \in Consumers \ {c} : msg'[d] = msg[d]
      BY <1>1
    <3> QED BY <1>2, <2>2, <3>1 DEF Passed
  <2>4. \A q \in Partitions :
          \A i \in Nat : 0 < i /\ i < next'[q] => <<q, i>> \in T \/ msg'[owner'[q]] = <<q, i>>
    <3> SUFFICES ASSUME NEW q \in Partitions, NEW i \in Nat, 0 < i, i < next'[q]
                 PROVE  <<q, i>> \in T \/ msg'[owner'[q]] = <<q, i>>
      OBVIOUS
    <3>1. CASE q = p
      <4>1. next'[p] = next[p] + 1 /\ next[p] \in Nat /\ msg'[c] = <<p, next[p]>>
        BY <1>1
      <4> QED BY <2>1, <2>2, <3>1, <4>1
    <3>2. CASE q # p
      <4>1. next'[q] = next[q] /\ owner'[q] = owner[q]
        BY <1>1, <2>1, <3>2
      <4>2. <<q, i>> \in T \/ msg[owner[q]] = <<q, i>>
        BY <1>2, <4>1 DEF Passed
      <4>3. msg[owner[q]] = <<q, i>> => owner[q] # c
        BY <1>1, <2>1 DEF Passed
      <4> QED BY <1>1, <4>1, <4>2, <4>3
    <3> QED BY <3>1, <3>2
  <2> QED BY <1>2, <2>1, <2>3, <2>4 DEF Passed
<1>4. CASE msg[c] # NoMessage /\ msg[c] \in T /\ CommitMessage(c)
  <2>1. /\ asked' = [asked EXCEPT ![c][msg[c][1]] = msg[c][2]]
        /\ msg' = [msg EXCEPT ![c] = NoMessage]
        /\ UNCHANGED <<next, owner, committed>>
    BY <1>4 DEF CommitMessage
  <2>2. msg[c] \in T /\ msg[c] \in Messages
    BY <1>1, <1>4
  <2>3. /\ msg'[c] = NoMessage /\ \A d \in Consumers \ {c} : msg'[d] = msg[d]
        /\ \A d \in Consumers, p \in Partitions :
             asked'[d][p] = asked[d][p] \/ (d = c /\ p = msg[c][1] /\ asked'[d][p] = msg[c][2])
    BY <1>1, <2>1
  <2>4. \A i \in Nat : 0 < i /\ i <= msg[c][2] => <<msg[c][1], i>> \in T
    <3>1. \A i \in Nat : 0 < i /\ i < msg[c][2] => <<msg[c][1], i>> \in T
      BY <1>2, <1>4 DEF Passed
    <3>2. msg[c][2] \in Nat /\ <<msg[c][1], msg[c][2]>> \in T
      BY <1>1, <2>2
    <3> SUFFICES ASSUME NEW i \in Nat, 0 < i, i <= msg[c][2]
                 PROVE  <<msg[c][1], i>> \in T
      OBVIOUS
    <3>3. i = msg[c][2] \/ i < msg[c][2]
      BY <3>2
    <3> QED BY <3>1, <3>2, <3>3
  <2>5. \A d \in Consumers, p \in Partitions :
          \A i \in Nat : 0 < i /\ i <= asked'[d][p] => <<p, i>> \in T
    <3> SUFFICES ASSUME NEW d \in Consumers, NEW p \in Partitions, NEW i \in Nat,
                        0 < i, i <= asked'[d][p]
                 PROVE  <<p, i>> \in T
      OBVIOUS
    <3>1. CASE asked'[d][p] = asked[d][p]
      BY <1>2, <3>1 DEF Passed
    <3>2. CASE p = msg[c][1] /\ asked'[d][p] = msg[c][2]
      BY <2>4, <3>2
    <3> QED BY <2>3, <3>1, <3>2
  <2>6. \A p \in Partitions :
          \A i \in Nat : 0 < i /\ i < next[p] => <<p, i>> \in T \/ msg'[owner[p]] = <<p, i>>
    <3> SUFFICES ASSUME NEW p \in Partitions, NEW i \in Nat, 0 < i, i < next[p]
                 PROVE  <<p, i>> \in T \/ msg'[owner[p]] = <<p, i>>
      OBVIOUS
    <3>1. <<p, i>> \in T \/ msg[owner[p]] = <<p, i>>
      BY <1>2 DEF Passed
    <3>2. owner[p] \in Consumers
      BY <1>1
    <3>3. CASE owner[p] = c
      BY <2>2, <3>1, <3>3
    <3>4. CASE owner[p] # c
      BY <2>3, <3>1, <3>2, <3>4
    <3> QED BY <3>3, <3>4
  <2> QED BY <1>2, <2>1, <2>3, <2>5, <2>6 DEF Passed
<1>5. CASE msg[c] # NoMessage /\ msg[c] \in T /\ HandlerFailed(c)
  <2>1. msg' = [msg EXCEPT ![c] = NoMessage] /\ UNCHANGED <<next, owner, asked, committed>>
    BY <1>5 DEF HandlerFailed
  <2>2. msg[c] \in T
    BY <1>5
  <2>3. msg'[c] = NoMessage /\ \A d \in Consumers \ {c} : msg'[d] = msg[d]
    BY <1>1, <2>1
  <2>4. \A p \in Partitions :
          \A i \in Nat : 0 < i /\ i < next[p] => <<p, i>> \in T \/ msg'[owner[p]] = <<p, i>>
    <3> SUFFICES ASSUME NEW p \in Partitions, NEW i \in Nat, 0 < i, i < next[p]
                 PROVE  <<p, i>> \in T \/ msg'[owner[p]] = <<p, i>>
      OBVIOUS
    <3>1. <<p, i>> \in T \/ msg[owner[p]] = <<p, i>>
      BY <1>2 DEF Passed
    <3>2. owner[p] \in Consumers
      BY <1>1
    <3>3. CASE owner[p] = c
      BY <2>2, <3>1, <3>3
    <3>4. CASE owner[p] # c
      BY <2>3, <3>1, <3>2, <3>4
    <3> QED BY <3>3, <3>4
  <2> QED BY <1>2, <2>1, <2>3, <2>4 DEF Passed
<1>6. CASE FlushCommits(c)
  <2> PICK p \in Partitions : /\ committed' = [committed EXCEPT ![p] = asked[c][p]]
                             /\ asked' = [asked EXCEPT ![c][p] = 0]
    BY <1>6 DEF FlushCommits
  <2>1. UNCHANGED <<next, owner, msg>>
    BY <1>6 DEF FlushCommits
  <2>2. /\ \A q \in Partitions :
             committed'[q] = committed[q] \/ (q = p /\ committed'[q] = asked[c][p])
        /\ \A d \in Consumers, q \in Partitions : asked'[d][q] = asked[d][q] \/ asked'[d][q] = 0
    BY <1>1
  <2>3. \A q \in Partitions : \A i \in Nat : 0 < i /\ i <= committed'[q] => <<q, i>> \in T
    BY <1>2, <2>2 DEF Passed
  <2>4. \A d \in Consumers, q \in Partitions :
          \A i \in Nat : 0 < i /\ i <= asked'[d][q] => <<q, i>> \in T
    BY <1>2, <2>2 DEF Passed
  <2> QED BY <1>2, <2>1, <2>3, <2>4 DEF Passed
<1>7. CASE Crash(c)
  <2>1. /\ msg' = [msg EXCEPT ![c] = NoMessage]
        /\ asked' = [asked EXCEPT ![c] = [p \in Partitions |-> 0]]
        /\ next' = [p \in Partitions |-> IF owner[p] = c THEN committed[p] + 1 ELSE next[p]]
        /\ UNCHANGED <<owner, committed>>
    BY <1>7 DEF Crash
  <2>2. msg'[c] = NoMessage /\ \A d \in Consumers \ {c} : msg'[d] = msg[d]
    BY <1>1, <2>1
  <2>3. \A d \in Consumers, p \in Partitions : asked'[d][p] \in {0, asked[d][p]}
    BY <1>1, <2>1
  <2>4. ASSUME NEW p \in Partitions, NEW i \in Nat, 0 < i, i < next'[p]
        PROVE  <<p, i>> \in T \/ msg'[owner[p]] = <<p, i>>
    <3>1. CASE owner[p] = c
      <4>1. next'[p] = committed[p] + 1 /\ committed[p] \in Nat
        BY <1>1, <2>1, <3>1
      <4>2. i <= committed[p]
        BY <2>4, <4>1
      <4> QED BY <1>2, <2>4, <4>2 DEF Passed
    <3>2. CASE owner[p] # c
      <4>1. next'[p] = next[p] /\ msg'[owner[p]] = msg[owner[p]]
        BY <1>1, <2>1, <2>2, <3>2
      <4> QED BY <1>2, <2>4, <4>1 DEF Passed
    <3> QED BY <3>1, <3>2
  <2> QED BY <1>2, <2>1, <2>2, <2>3, <2>4 DEF Passed
<1>8. CASE \E p \in Partitions : Rebalance(p, c)
  <2> PICK p \in Partitions : /\ owner' = [owner EXCEPT ![p] = c]
                             /\ next' = [next EXCEPT ![p] = committed[p] + 1]
    BY <1>8 DEF Rebalance
  <2>1. UNCHANGED <<asked, committed, msg>>
    BY <1>8 DEF Rebalance
  <2>2. ASSUME NEW q \in Partitions, NEW i \in Nat, 0 < i, i < next'[q]
        PROVE  <<q, i>> \in T \/ msg[owner'[q]] = <<q, i>>
    <3>1. CASE q = p
      <4>1. next'[p] = committed[p] + 1 /\ committed[p] \in Nat
        BY <1>1
      <4>2. i <= committed[p]
        BY <2>2, <3>1, <4>1
      <4> QED BY <1>2, <2>2, <3>1, <4>2 DEF Passed
    <3>2. CASE q # p
      <4>1. next'[q] = next[q] /\ owner'[q] = owner[q]
        BY <1>1, <3>2
      <4> QED BY ZenonT(60), <1>2, <2>2, <4>1 DEF Passed
    <3> QED BY <3>1, <3>2
  <2> QED BY <1>2, <2>1, <2>2 DEF Passed
<1>9. CASE UNCHANGED consumer
  BY <1>2, <1>9 DEF Passed, consumer
<1>10. ASSUME msg[c] # NoMessage, CommitMessage(c) \/ HandlerFailed(c), ~Crash(c)
       PROVE  Passed(T)'
  <2>1. msg[c] \in T
    BY <1>10 DEF DoneOnlyIn
  <2> QED BY <1>4, <1>5, <1>10, <2>1
<1> QED BY <1>3, <1>6, <1>7, <1>8, <1>9, <1>10 DEF GroupStep

-----------------------------------------------------------------------------
(* Counting.                                                               *)

\* Two sets that differ in one element at most.
LEMMA OneChanged ==
  ASSUME NEW S, NEW T, NEW x, IsFiniteSet(S), T \ {x} = S \ {x}
  PROVE  /\ IsFiniteSet(T) /\ Cardinality(S) \in Nat /\ Cardinality(T) \in Nat
         /\ x \in S /\ x \in T => Cardinality(T) = Cardinality(S)
         /\ x \notin S /\ x \notin T => Cardinality(T) = Cardinality(S)
         /\ x \in S /\ x \notin T => Cardinality(T) = Cardinality(S) - 1
         /\ x \notin S /\ x \in T => Cardinality(T) = Cardinality(S) + 1
<1>1. CASE x \in S <=> x \in T
  <2>1. \A y : y \in S <=> y \in T
    <3> SUFFICES ASSUME NEW y PROVE y \in S <=> y \in T
      OBVIOUS
    <3>1. y \in T \ {x} <=> y \in S \ {x}
      OBVIOUS
    <3> QED BY <1>1, <3>1
  <2> S = T
    BY <2>1
  <2> QED BY <2>1, FS_CardinalityType, <1>1
<1>2. CASE x \in S /\ x \notin T
  <2>1. T = S \ {x}
    BY <1>2
  <2> QED BY <1>2, <2>1, FS_RemoveElement, FS_CardinalityType
<1>3. CASE x \notin S /\ x \in T
  <2>1. T = S \cup {x}
    BY <1>3
  <2> QED BY <1>3, <2>1, FS_AddElement, FS_CardinalityType
<1> QED BY <1>1, <1>2, <1>3

\* The instances at a message of a partition that has another owner by now.
Strays == {c \in Consumers : msg[c] # NoMessage /\ owner[msg[c][1]] # c}

StraysBounded == IsFiniteSet(Strays) /\ Cardinality(Strays) <= faults

\* A rebalance adds one at most, and nothing else adds any.
LEMMA StraysStep ==
  ASSUME ConsumerTypeOK, IsFiniteSet(Strays), NEW c \in Consumers, GroupStep(c), Faulty
  PROVE  /\ IsFiniteSet(Strays') /\ Cardinality(Strays) \in Nat /\ Cardinality(Strays') \in Nat
         /\ \/ Cardinality(Strays') <= Cardinality(Strays)
            \/ /\ Cardinality(Strays') <= Cardinality(Strays) + 1
               /\ \E p \in Partitions : Rebalance(p, c)
<1>1. /\ owner \in [Partitions -> Consumers]
      /\ msg \in [Consumers -> Messages \cup {NoMessage}]
      /\ \A m \in Messages : m[1] \in Partitions
  BY MessageFacts DEF ConsumerTypeOK
<1>2. CASE \E p \in Partitions : Rebalance(p, c)
  <2> PICK p \in Partitions : Rebalance(p, c)
    BY <1>2
  <2>1. Strays' \subseteq Strays \cup {owner[p]}
    BY <1>1 DEF Rebalance, Strays
  <2> DEFINE S == Strays  T == Strays'
  <2>2. T \in SUBSET (S \cup {owner[p]}) /\ IsFiniteSet(S)
    BY <2>1
  <2> HIDE DEF S, T
  <2>a. Cardinality(S) \in Nat
    BY <2>2, FS_CardinalityType
  <2>3. IsFiniteSet(S \cup {owner[p]}) /\ Cardinality(S \cup {owner[p]}) <= Cardinality(S) + 1
    <3>1. /\ IsFiniteSet(S \cup {owner[p]})
          /\ Cardinality(S \cup {owner[p]}) =
               IF owner[p] \in S THEN Cardinality(S) ELSE Cardinality(S) + 1
      BY <2>2, FS_AddElement
    <3> QED BY <2>a, <3>1
  <2>4. IsFiniteSet(T) /\ Cardinality(T) <= Cardinality(S \cup {owner[p]})
    BY <2>2, <2>3, FS_Subset
  <2>5. /\ Cardinality(T) \in Nat /\ Cardinality(S) \in Nat
        /\ Cardinality(S \cup {owner[p]}) \in Nat
    BY <2>2, <2>3, <2>4, FS_CardinalityType
  <2>6. IsFiniteSet(T) /\ Cardinality(T) <= Cardinality(S) + 1
    BY <2>3, <2>4, <2>5
  <2> QED BY <1>2, <2>5, <2>6 DEF S, T
<1>3. CASE ~ \E p \in Partitions : Rebalance(p, c)
  <2>1. Strays' \subseteq Strays
    <3>1. owner' = owner
      BY <1>3 DEF GroupStep, FetchMessage, CommitMessage, HandlerFailed, FlushCommits, Crash, consumer
    <3>2. CASE FetchMessage(c)
      <4> PICK p \in Partitions : owner[p] = c /\ msg' = [msg EXCEPT ![c] = <<p, next[p]>>]
        BY <3>2 DEF FetchMessage
      <4>1. /\ msg'[c] = <<p, next[p]>> /\ owner[msg'[c][1]] = c
            /\ \A d \in Consumers \ {c} : msg'[d] = msg[d]
        BY <1>1
      <4> QED BY <3>1, <4>1 DEF Strays
    <3>3. CASE ~FetchMessage(c)
      <4>1. msg' = msg \/ msg' = [msg EXCEPT ![c] = NoMessage]
        BY <1>3, <3>3 DEF GroupStep, CommitMessage, HandlerFailed, FlushCommits, Crash, consumer
      <4>2. \A d \in Consumers : msg'[d] = msg[d] \/ msg'[d] = NoMessage
        BY <1>1, <4>1
      <4> QED BY <3>1, <4>2 DEF Strays
    <3> QED BY <3>2, <3>3
  <2> DEFINE S == Strays  T == Strays'
  <2>2. T \in SUBSET S /\ IsFiniteSet(S)
    BY <2>1
  <2> HIDE DEF S, T
  <2>3. /\ IsFiniteSet(T) /\ Cardinality(T) <= Cardinality(S)
        /\ Cardinality(T) \in Nat /\ Cardinality(S) \in Nat
    BY <2>2, FS_Subset, FS_CardinalityType
  <2> QED BY <2>3 DEF S, T
<1> QED BY <1>2, <1>3

\* The instances at a copy of a payload.
Handling(t) == {c \in Consumers : msg[c] # NoMessage /\ Payload(msg[c]) = t}

\* Each is a stray, or the owner of a partition that holds a copy.
LEMMA HandlingBounded ==
  ASSUME ConsumerTypeOK, IsFiniteSet(Strays), NEW t \in Payloads
  PROVE  /\ IsFiniteSet(Handling(t)) /\ IsFiniteSet(Holding(t))
         /\ Cardinality(Handling(t)) \in Nat /\ Cardinality(Holding(t)) \in Nat
         /\ Cardinality(Handling(t)) <= Cardinality(Holding(t)) + Cardinality(Strays)
<1>1. /\ msg \in [Consumers -> Messages \cup {NoMessage}]
      /\ \A m \in Messages : m[1] \in Partitions
  BY MessageFacts DEF ConsumerTypeOK
<1> DEFINE A == Handling(t) \ Strays  H == Holding(t)  S == Strays
           f == [c \in A |-> msg[c][1]]
<1>2. f \in [A -> H]
  BY <1>1 DEF Handling, Holding
<1>3. \A c, d \in A : f[c] = f[d] => c = d
  BY DEF Handling, Strays
<1>4. H \in SUBSET Partitions
  BY <1>1 DEF Holding
<1>5. Handling(t) \in SUBSET (A \cup S) /\ IsFiniteSet(S)
  OBVIOUS
<1> HIDE DEF A, H, S, f
<1>6. f \in Injection(A, H)
  BY <1>2, <1>3 DEF Injection, IsInjective
<1>7. IsFiniteSet(H)
  BY <1>4, FS_Subset
<1>8. IsFiniteSet(A) /\ Cardinality(A) <= Cardinality(H)
  BY <1>6, <1>7, FS_Injection
<1>9. /\ IsFiniteSet(A \cup S)
      /\ Cardinality(A \cup S) = Cardinality(A) + Cardinality(S) - Cardinality(A \cap S)
      /\ Cardinality(A) \in Nat /\ Cardinality(S) \in Nat /\ Cardinality(H) \in Nat
  BY <1>5, <1>7, <1>8, FS_Union, FS_CardinalityType
<1>10. Cardinality(A \cap S) \in Nat /\ Cardinality(A \cup S) \in Nat
  BY <1>8, <1>9, FS_Intersection, FS_CardinalityType
<1>11. IsFiniteSet(Handling(t)) /\ Cardinality(Handling(t)) <= Cardinality(A \cup S)
  BY <1>5, <1>9, FS_Subset
<1>12. Cardinality(Handling(t)) \in Nat
  BY <1>11, FS_CardinalityType
<1>13. Cardinality(Handling(t)) <= Cardinality(H) + Cardinality(S)
  BY <1>8, <1>9, <1>10, <1>11, <1>12
<1> QED BY <1>7, <1>9, <1>11, <1>12, <1>13 DEF H, S
=============================================================================
