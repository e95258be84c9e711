---------------------------- MODULE AnalyticsProofs ----------------------------
(***************************************************************************)
(* Theorems about the analytics service, for any number of instances,      *)
(* partitions, events, readers and faults.                                 *)
(***************************************************************************)
EXTENDS Analytics, ConsumerProofs

USE ConsumerConstants, AnalyticsConstants

\* The steps of an instance.
Works(c) ==
  \/ Step(c) \/ UpsertFails(c) \/ QueryFails(c) \/ Die(c)
  \/ \E p \in Partitions : Reassign(p, c)

-----------------------------------------------------------------------------
(* Types.                                                                  *)

\* The handler is at a message.
LEMMA Active ==
  ASSUME TypeOK, NEW c \in Consumers, pc[c] # "idle"
  PROVE  msg[c] \in Messages /\ Event(c) \in Payloads
BY MessageFacts DEF TypeOK, ConsumerTypeOK, Event

\* Once its handler has failed, an instance is idle and has no message.
LEMMA RefuseStep ==
  ASSUME TypeOK, NEW c \in Consumers, pc[c] # "idle", Refuse(c)
  PROVE  /\ GroupStep(c) /\ HandlerFailed(c) /\ msg[c] \in Messages
         /\ pc' = [pc EXCEPT ![c] = "idle"] /\ msg' = [msg EXCEPT ![c] = NoMessage]
         /\ failed' = failed \cup {msg[c]} /\ UNCHANGED <<topic, counted, cache, rpc, got, raced>>
BY MessageFacts DEF Refuse, HandlerFailed, Goto, GroupStep, TypeOK, ConsumerTypeOK

\* A step of an instance is one of the group's; it moves this instance only, and
\* the instance stays idle exactly if it has no message.
LEMMA WorkStep ==
  ASSUME TypeOK, NEW c \in Consumers, Works(c)
  PROVE  /\ GroupStep(c) /\ Faulty
         /\ \A d \in Consumers \ {c} : pc'[d] = pc[d] /\ msg'[d] = msg[d]
         /\ pc'[c] = "idle" <=> msg'[c] = NoMessage
         /\ DOMAIN pc' = Consumers
         /\ pc'[c] \in Aggregates \cup {"idle", "check", "log", "report", "invalidate", "ack"}
         /\ pc' = [d \in Consumers |-> pc'[d]]
         /\ rpc' = rpc /\ got' = got
         /\ failed \subseteq failed' /\ failed' \subseteq failed \cup {msg[c]}
         /\ failed' # failed => msg[c] \in Messages
<1> USE DEF Goto
<1>1. /\ pc \in [Consumers -> Aggregates \cup
                   {"idle", "check", "log", "report", "invalidate", "ack"}]
      /\ msg \in [Consumers -> Messages \cup {NoMessage}]
      /\ \A d \in Consumers : pc[d] = "idle" <=> msg[d] = NoMessage
      /\ NoMessage \notin Messages
      /\ \A p \in Partitions, i \in Nat : <<p, i>> # NoMessage
      /\ next \in [Partitions -> Nat]
  BY MessageFacts DEF TypeOK, ConsumerTypeOK
<1>2. CASE Fetch(c)
  <2> PICK p \in Partitions : msg' = [msg EXCEPT ![c] = <<p, next[p]>>]
    BY <1>2 DEF Fetch, FetchMessage
  <2> QED BY <1>1, <1>2 DEF Fetch, GroupStep, Faulty, FetchMessage
<1>3. CASE IsEventProcessed(c)
  BY <1>1, <1>3 DEF IsEventProcessed, GroupStep, Faulty, Aggregates, consumer
<1>4. CASE Upsert(c)
  <2>1. After[pc[c]] \in {"hourly", "sender", "receiver", "log"}
    BY <1>4 DEF Upsert, Aggregates, After
  <2>2. pc' = [pc EXCEPT ![c] = After[pc[c]]] /\ pc[c] # "idle"
    BY <1>4 DEF Upsert, Aggregates
  <2> QED BY <1>1, <1>4, <2>1, <2>2 DEF Upsert, GroupStep, Faulty, Aggregates, consumer
<1>5. CASE UpsertFails(c)
  BY <1>1, <1>5 DEF UpsertFails, GroupStep, Faulty, Aggregates, consumer
<1>6. CASE CreateEventLog(c)
  <2>1. CASE Refuse(c)
    BY <1>1, <1>6, <2>1, RefuseStep DEF CreateEventLog, Faulty
  <2>2. CASE ~Refuse(c)
    BY <1>1, <1>6, <2>2 DEF CreateEventLog, GroupStep, Faulty, consumer
  <2> QED BY <2>1, <2>2
<1>7. CASE ReportFailure(c) \/ QueryFails(c)
  <2>1. Refuse(c) /\ pc[c] # "idle" /\ Faulty
    BY <1>7 DEF ReportFailure, QueryFails, Faulty
  <2> QED BY <1>1, <2>1, RefuseStep
<1>8. CASE InvalidateCacheForDate(c)
  BY <1>1, <1>8 DEF InvalidateCacheForDate, GroupStep, Faulty, consumer
<1>9. CASE Ack(c)
  BY <1>1, <1>9 DEF Ack, GroupStep, Faulty, CommitMessage
<1>10. CASE Flush(c)
  BY <1>1, <1>10 DEF Flush, GroupStep, Faulty, FlushCommits
<1>11. CASE Die(c)
  BY <1>1, <1>11 DEF Die, GroupStep, Faulty, Crash
<1>12. CASE \E p \in Partitions : Reassign(p, c)
  BY <1>1, <1>12 DEF Reassign, GroupStep, Faulty, Rebalance
<1> QED BY <1>2, <1>3, <1>4, <1>5, <1>6, <1>7, <1>8, <1>9, <1>10, <1>11, <1>12 DEF Works, Step

\* The other steps are those of the readers and of Redis; the handlers, the log
\* and the tables stay as they are.
Looks ==
  \/ \E g \in Readers : CacheView(g) \/ \E v \in Views : ReadMiss(g, v)
  \/ \E v \in Views : ExpireCache(v)
  \/ UNCHANGED vars

\* They change no count and keep the types of the cache.
LEMMA LookStep ==
  ASSUME TypeOK, Looks
  PROVE  /\ UNCHANGED <<consumer, faults, counted, log, pc, failed>>
         /\ DOMAIN cache' = Views /\ DOMAIN got' = Readers
         /\ rpc' \in [Readers -> Views \cup {NoValue}] /\ raced' \subseteq Views
<1>1. ASSUME NEW g \in Readers, CacheView(g)
      PROVE  /\ UNCHANGED <<consumer, faults, counted, log, pc, failed>>
             /\ DOMAIN cache' = Views /\ DOMAIN got' = Readers
             /\ rpc' \in [Readers -> Views \cup {NoValue}] /\ raced' \subseteq Views
  BY <1>1 DEF CacheView, TypeOK
<1>2. ASSUME NEW g \in Readers, NEW v \in Views, ReadMiss(g, v)
      PROVE  /\ UNCHANGED <<consumer, faults, counted, log, pc, failed>>
             /\ DOMAIN cache' = Views /\ DOMAIN got' = Readers
             /\ rpc' \in [Readers -> Views \cup {NoValue}] /\ raced' \subseteq Views
  BY <1>2 DEF ReadMiss, TypeOK
<1>3. ASSUME NEW v \in Views, ExpireCache(v)
      PROVE  /\ UNCHANGED <<consumer, faults, counted, log, pc, failed>>
             /\ DOMAIN cache' = Views /\ DOMAIN got' = Readers
             /\ rpc' \in [Readers -> Views \cup {NoValue}] /\ raced' \subseteq Views
  BY <1>3 DEF ExpireCache, Drop, TypeOK
<1>4. CASE UNCHANGED vars
  BY <1>4 DEF vars, TypeOK
<1> QED BY <1>1, <1>2, <1>3, <1>4 DEF Looks

\* A step keeps the types.
LEMMA TypesKept ==
  ASSUME TypeOK, [Next]_vars
  PROVE  TypeOK'
<1>1. CASE \E c \in Consumers : Works(c)
  <2> PICK c \in Consumers : Works(c)
    BY <1>1
  <2>1. ConsumerTypeOK' /\ Messages' = Messages
    BY WorkStep, GroupStepTypes DEF TypeOK
  <2>2. /\ pc' \in [Consumers -> Aggregates \cup
                       {"idle", "check", "log", "report", "invalidate", "ack"}]
        /\ \A d \in Consumers : pc'[d] = "idle" <=> msg'[d] = NoMessage
        /\ rpc' = rpc /\ got' = got /\ failed' \subseteq Messages
    <3>1. /\ \A d \in Consumers : pc[d] \in Aggregates \cup
                       {"idle", "check", "log", "report", "invalidate", "ack"}
          /\ \A d \in Consumers : pc[d] = "idle" <=> msg[d] = NoMessage
          /\ failed \subseteq Messages
      BY DEF TypeOK
    <3>2. \A d \in Consumers :
            /\ pc'[d] \in Aggregates \cup
                       {"idle", "check", "log", "report", "invalidate", "ack"}
            /\ pc'[d] = "idle" <=> msg'[d] = NoMessage
      BY <3>1, WorkStep
    <3>3. pc' \in [Consumers -> Aggregates \cup
                       {"idle", "check", "log", "report", "invalidate", "ack"}]
      <4>1. pc' = [d \in Consumers |-> pc'[d]]
        BY WorkStep
      <4> QED BY <3>2, <4>1
    <3>4. failed' \subseteq failed \cup {msg[c]} /\ (failed' # failed => msg[c] \in Messages)
          /\ rpc' = rpc /\ got' = got
      BY WorkStep
    <3> QED BY <3>1, <3>2, <3>3, <3>4
  <2>3. counted' \in [Aggregates -> [Payloads -> Nat]]
    <3>1. CASE pc[c] \in Aggregates /\ Count(c)
      <4>1. /\ counted' = [counted EXCEPT ![pc[c]][Event(c)] = @ + 1]
            /\ pc[c] \in Aggregates /\ Event(c) \in Payloads
        BY <3>1, Active DEF Count, Aggregates
      <4>2. counted[pc[c]] \in [Payloads -> Nat]
        BY <4>1 DEF TypeOK
      <4>3. [counted[pc[c]] EXCEPT ![Event(c)] = @ + 1] \in [Payloads -> Nat]
        BY <4>1, <4>2
      <4> QED BY <4>1, <4>3 DEF TypeOK
    <3>2. CASE ~(pc[c] \in Aggregates /\ Count(c))
      <4>1. counted' = counted
        BY <3>2 DEF Works, Step, Fetch, IsEventProcessed, Upsert, UpsertFails, CreateEventLog, Refuse,
                    ReportFailure, QueryFails, InvalidateCacheForDate, Ack, Flush, Die, Reassign
      <4> QED BY <4>1 DEF TypeOK
    <3> QED BY <3>1, <3>2
  <2>4. log' \in [Payloads -> {"none", "processed", "failed"}]
    <3>1. \/ log' = log \/ log' = [log EXCEPT ![Event(c)] = "processed"]
          \/ log' = [log EXCEPT ![Event(c)] = IF @ = "none" THEN "failed" ELSE @]
      BY DEF Works, Step, Fetch, IsEventProcessed, Upsert, UpsertFails, CreateEventLog, Refuse,
             ReportFailure, QueryFails, InvalidateCacheForDate, Ack, Flush, Die, Reassign
    <3>2. log \in [Payloads -> {"none", "processed", "failed"}]
      BY DEF TypeOK
    <3>3. CASE log' = [log EXCEPT ![Event(c)] = IF @ = "none" THEN "failed" ELSE @]
      <4> DEFINE e == Event(c)
      <4> HIDE DEF e
      <4>1. log' = [log EXCEPT ![e] = IF log[e] = "none" THEN "failed" ELSE log[e]]
        BY <3>3 DEF e
      <4>2. \A t \in Payloads : log'[t] \in {"none", "processed", "failed"}
        BY <3>2, <4>1
      <4> QED BY <3>2, <4>1, <4>2
    <3> QED BY <3>1, <3>2, <3>3
  <2>5. DOMAIN cache' = Views /\ raced' \subseteq Views
    <3>1. CASE InvalidateCacheForDate(c)
      BY <3>1 DEF InvalidateCacheForDate, Drop, TypeOK
    <3>2. CASE ~InvalidateCacheForDate(c)
      <4>1. cache' = cache /\ raced' = raced
        BY <3>2 DEF Works, Step, Fetch, IsEventProcessed, Upsert, UpsertFails, CreateEventLog, Refuse,
                    ReportFailure, QueryFails, Ack, Flush, Die, Reassign
      <4> QED BY <4>1 DEF TypeOK
    <3> QED BY <3>1, <3>2
  <2> QED BY <2>1, <2>2, <2>3, <2>4, <2>5 DEF TypeOK
<1>2. CASE Looks
  <2>1. /\ UNCHANGED <<consumer, faults, counted, log, pc, failed>>
        /\ DOMAIN cache' = Views /\ DOMAIN got' = Readers
        /\ rpc' \in [Readers -> Views \cup {NoValue}] /\ raced' \subseteq Views
    BY <1>2, LookStep
  <2>2. ConsumerTypeOK' /\ Messages' = Messages
    <3>1. GroupStep(CHOOSE c \in Consumers : TRUE) /\ Faulty
      BY <2>1 DEF GroupStep, Faulty
    <3>2. (CHOOSE c \in Consumers : TRUE) \in Consumers
      OBVIOUS
    <3> QED BY <3>1, <3>2, GroupStepTypes DEF TypeOK
  <2> QED BY <2>1, <2>2 DEF TypeOK, consumer
<1> QED BY <1>1, <1>2 DEF Next, Works, Looks

\* The types hold at the start.
LEMMA InitialTypes ==
  ASSUME Init
  PROVE  TypeOK
<1>1. ConsumerTypeOK
  BY ConsumerInitTypes DEF Init
<1>2. /\ counted = [a \in Aggregates |-> [t \in Payloads |-> 0]]
      /\ [t \in Payloads |-> 0] \in [Payloads -> Nat]
  BY DEF Init
<1>3. counted \in [Aggregates -> [Payloads -> Nat]]
  BY <1>2
<1>4. \A c \in Consumers : pc[c] = "idle" /\ msg[c] = NoMessage
  BY DEF Init, ConsumerInit
<1> QED BY <1>1, <1>3, <1>4 DEF Init, TypeOK

\* Every reachable state has the types of the group, the tables, the cache and
\* the readers.
THEOREM AnalyticsTypeCorrect == Spec => []TypeOK
<1>1. Init => TypeOK
  BY InitialTypes
<1>2. TypeOK /\ [Next]_vars => TypeOK'
  BY TypesKept
<1> QED BY <1>1, <1>2, PTL DEF Spec

-----------------------------------------------------------------------------
(* How often an event is added.                                            *)

\* The instances at a copy of t, in one of the phases L.
At(L, t) == {c \in Handling(t) : pc[c] \in L}
N(L, t)  == Cardinality(At(L, t))

\* The phases behind the first upsert, up to the log row.
Added == {"hourly", "sender", "receiver", "log"}

\* An instance about to add the event counts as if it had added it.  As long as
\* there is no log row, an event that was added and has no instance behind the
\* upsert any more has cost a fault, and so has each stray.
Counts(t) ==
  /\ counted["daily"][t] + N({"daily"}, t) <= Cardinality(Holding(t)) + faults
  /\ log[t] = "none" => counted["daily"][t] + Cardinality(Strays) <= faults + N(Added, t)
  /\ counted["hourly"][t] + N({"hourly"}, t) <= counted["daily"][t]
  /\ counted["sender"][t] + N({"sender"}, t) <= counted["hourly"][t]
  /\ counted["receiver"][t] + N({"receiver"}, t) <= counted["sender"][t]
  /\ log[t] = "processed" \/ N({"log"}, t) > 0 => counted["receiver"][t] > 0

CountInv == TypeOK /\ StraysBounded /\ \A t \in Payloads : Counts(t)

\* A step of an instance moves it into or out of such a set, and nobody else.
LEMMA Tally ==
  ASSUME TypeOK, IsFiniteSet(Strays), NEW c \in Consumers, Works(c), NEW t \in Payloads, NEW L
  PROVE  /\ N(L, t) \in Nat /\ N(L, t)' \in Nat
         /\ c \in At(L, t) => N(L, t) > 0
         /\ N(L, t)' = N(L, t) - (IF c \in At(L, t) THEN 1 ELSE 0)
                                + (IF c \in At(L, t)' THEN 1 ELSE 0)
<1>1. topic' = topic
  BY WorkStep, GroupStepTypes DEF TypeOK
<1>2. IsFiniteSet(Handling(t))
  BY HandlingBounded DEF TypeOK
<1> DEFINE S == At(L, t)  T == At(L, t)'
<1>3. T \ {c} = S \ {c}
  BY <1>1, WorkStep DEF At, Handling, Payload
<1>4. S \in SUBSET Handling(t)
  BY DEF At
<1> HIDE DEF S, T
<1>5. IsFiniteSet(S)
  BY <1>2, <1>4, FS_Subset
<1>6. /\ Cardinality(S) \in Nat /\ Cardinality(T) \in Nat
      /\ c \in S /\ c \in T => Cardinality(T) = Cardinality(S)
      /\ c \notin S /\ c \notin T => Cardinality(T) = Cardinality(S)
      /\ c \in S /\ c \notin T => Cardinality(T) = Cardinality(S) - 1
      /\ c \notin S /\ c \in T => Cardinality(T) = Cardinality(S) + 1
  BY <1>3, <1>5, OneChanged
<1>7. c \in S => Cardinality(S) > 0
  <2>1. c \in S => Cardinality(S) # 0
    BY <1>5, FS_EmptySet
  <2> QED BY <1>6, <2>1
<1>8. Cardinality(T) = Cardinality(S) - (IF c \in S THEN 1 ELSE 0) + (IF c \in T THEN 1 ELSE 0)
  BY <1>6
<1> QED BY <1>6, <1>7, <1>8 DEF S, T, N

\* An instance that has yet to look at the log is none of those that are to add
\* the event or have added it.
LEMMA RoomForOne ==
  ASSUME TypeOK, StraysBounded, NEW t \in Payloads, NEW c \in Handling(t), pc[c] = "check"
  PROVE  N({"daily"}, t) + N(Added, t) + 1 <= Cardinality(Holding(t)) + Cardinality(Strays)
<1> DEFINE A == At({"daily"}, t)  B == At(Added, t)  H == Handling(t)
<1>1. A \cap B = {} /\ c \notin A \cup B /\ A \in SUBSET H /\ B \in SUBSET H
      /\ A \cup B \cup {c} \in SUBSET H
  BY DEF At, Added
<1>2. IsFiniteSet(H) /\ Cardinality(H) \in Nat
      /\ Cardinality(H) <= Cardinality(Holding(t)) + Cardinality(Strays)
      /\ Cardinality(Holding(t)) \in Nat /\ Cardinality(Strays) \in Nat
  BY HandlingBounded, FS_CardinalityType DEF TypeOK, StraysBounded
<1> HIDE DEF A, B, H
<1>3. IsFiniteSet(A) /\ IsFiniteSet(B)
  BY <1>1, <1>2, FS_Subset
<1>4. Cardinality(A) \in Nat /\ Cardinality(B) \in Nat
  BY <1>3, FS_CardinalityType
<1>5. /\ IsFiniteSet(A \cup B)
      /\ Cardinality(A \cup B) = Cardinality(A) + Cardinality(B) - Cardinality(A \cap B)
  BY <1>3, FS_Union
<1>6. Cardinality(A \cap B) = 0
  BY <1>1, FS_EmptySet
<1>7. Cardinality(A \cup B \cup {c}) = Cardinality(A \cup B) + 1
  BY <1>1, <1>5, FS_AddElement
<1>8. Cardinality(A \cup B \cup {c}) <= Cardinality(H)
  BY <1>1, <1>2, FS_Subset
<1>9. Cardinality(A) + Cardinality(B) + 1 <= Cardinality(Holding(t)) + Cardinality(Strays)
  BY <1>2, <1>4, <1>5, <1>6, <1>7, <1>8
<1> QED BY <1>9 DEF A, B, N

\* The steps of an instance keep the counts of every event.
LEMMA CountsKept ==
  ASSUME CountInv, NEW c \in Consumers, Works(c), NEW t \in Payloads
  PROVE  Counts(t)'
<1> DEFINE Here == msg[c] # NoMessage /\ Event(c) = t
           There == msg'[c] # NoMessage /\ Event(c)' = t
           In(L) == IF Here /\ pc[c] \in L THEN 1 ELSE 0
           Out(L) == IF There /\ pc'[c] \in L THEN 1 ELSE 0
           Kept(L) == /\ N(L, t) \in Nat /\ N(L, t)' \in Nat
                      /\ Here /\ pc[c] \in L => N(L, t) > 0
                      /\ N(L, t)' = N(L, t) - In(L) + Out(L)
<1>1. TypeOK /\ IsFiniteSet(Strays) /\ Cardinality(Strays) <= faults /\ Counts(t)
  BY DEF CountInv, StraysBounded
<1>2. \A L : Kept(L)
  <2> SUFFICES ASSUME NEW L PROVE Kept(L)
    OBVIOUS
  <2>1. /\ c \in At(L, t) <=> Here /\ pc[c] \in L
        /\ c \in At(L, t)' <=> There /\ pc'[c] \in L
    BY DEF At, Handling, Event
  <2> QED BY <1>1, <2>1, Tally
<1>3. /\ Kept({"daily"}) /\ Kept({"hourly"}) /\ Kept({"sender"}) /\ Kept({"receiver"})
      /\ Kept({"log"}) /\ Kept(Added)
  BY <1>2
<1>4. topic' = topic /\ Messages' = Messages /\ Holding(t)' = Holding(t)
  BY <1>1, WorkStep, GroupStepTypes DEF TypeOK, Holding, Payload
<1>5. /\ faults \in Nat /\ faults' \in {faults, faults + 1}
      /\ Cardinality(Holding(t)) \in Nat
      /\ Cardinality(Strays) \in Nat /\ Cardinality(Strays)' \in Nat
      /\ \A a \in Aggregates : counted[a][t] \in Nat
  <2>1. faults \in Nat /\ \A a \in Aggregates : counted[a][t] \in Nat
    BY <1>1 DEF TypeOK, ConsumerTypeOK
  <2>2. Cardinality(Holding(t)) \in Nat
    BY <1>1, HandlingBounded DEF TypeOK
  <2> QED BY <1>1, <2>1, <2>2, WorkStep, StraysStep, GroupStepTypes DEF TypeOK
<1>6. /\ Cardinality(Strays)' + faults <= Cardinality(Strays) + faults'
      /\ (\A p \in Partitions : ~Rebalance(p, c)) => Cardinality(Strays)' <= Cardinality(Strays)
  <2>1. \A p \in Partitions : Rebalance(p, c) => faults' = faults + 1
    BY DEF Rebalance, Fault
  <2>2. \/ Cardinality(Strays') <= Cardinality(Strays)
        \/ /\ Cardinality(Strays') <= Cardinality(Strays) + 1
           /\ \E p \in Partitions : Rebalance(p, c)
    BY <1>1, WorkStep, StraysStep DEF TypeOK
  <2> QED BY <1>5, <2>1, <2>2
<1>7. Here /\ msg'[c] = msg[c] => There
  BY <1>4 DEF Event, Payload
<1> DEFINE H == Cardinality(Holding(t))
           f == faults                         f1 == faults'
           s == Cardinality(Strays)            s1 == Cardinality(Strays)'
           d == N({"daily"}, t)                d1 == N({"daily"}, t)'
           h == N({"hourly"}, t)               h1 == N({"hourly"}, t)'
           e == N({"sender"}, t)               e1 == N({"sender"}, t)'
           r == N({"receiver"}, t)             r1 == N({"receiver"}, t)'
           l == N({"log"}, t)                  l1 == N({"log"}, t)'
           n == N(Added, t)                    n1 == N(Added, t)'
           cd == counted["daily"][t]           cd1 == counted'["daily"][t]
           ch == counted["hourly"][t]          ch1 == counted'["hourly"][t]
           ce == counted["sender"][t]          ce1 == counted'["sender"][t]
           cr == counted["receiver"][t]        cr1 == counted'["receiver"][t]
           Moved(x, x1, L) == x1 = x - In(L) + Out(L)
           Same == cd1 = cd /\ ch1 = ch /\ ce1 = ce /\ cr1 = cr
           Goal == /\ cd1 + d1 <= H + f1
                   /\ log'[t] = "none" => cd1 + s1 <= f1 + n1
                   /\ ch1 + h1 <= cd1 /\ ce1 + e1 <= ch1 /\ cr1 + r1 <= ce1
                   /\ log'[t] = "processed" \/ l1 > 0 => cr1 > 0
<1>8. /\ H \in Nat /\ s \in Nat /\ s1 \in Nat
      /\ f \in Nat /\ (f1 = f \/ f1 = f + 1) /\ s1 + f <= s + f1
      /\ (\A p \in Partitions : ~Rebalance(p, c)) => s1 <= s
  BY <1>5, <1>6
<1>9. /\ d \in Nat /\ h \in Nat /\ e \in Nat /\ r \in Nat /\ l \in Nat /\ n \in Nat
      /\ d1 \in Nat /\ h1 \in Nat /\ e1 \in Nat /\ r1 \in Nat /\ l1 \in Nat /\ n1 \in Nat
  BY <1>3
<1>m. /\ Moved(d, d1, {"daily"}) /\ Moved(h, h1, {"hourly"}) /\ Moved(e, e1, {"sender"})
      /\ Moved(r, r1, {"receiver"}) /\ Moved(l, l1, {"log"}) /\ Moved(n, n1, Added)
      /\ Here /\ pc[c] = "log" => l > 0
  BY <1>3
<1>10. cd \in Nat /\ ch \in Nat /\ ce \in Nat /\ cr \in Nat
  BY <1>5 DEF Aggregates
<1>11. /\ cd + d <= H + f
       /\ log[t] = "none" => cd + s <= f + n
       /\ ch + h <= cd /\ ce + e <= ch /\ cr + r <= ce
       /\ log[t] = "processed" \/ l > 0 => cr > 0
  BY <1>1 DEF Counts
<1>12. ASSUME Goal PROVE Counts(t)'
  BY <1>4, <1>12 DEF Counts
<1> HIDE DEF Here, There, H, f, f1, s, s1, d, d1, h, h1, e, e1, r, r1, l, l1, n, n1,
             cd, cd1, ch, ch1, ce, ce1, cr, cr1, N
<1>13. CASE ~Here /\ (There => pc'[c] = "check") /\ Same /\ log'[t] = log[t]
  <2>1. d1 = d /\ h1 = h /\ e1 = e /\ r1 = r /\ l1 = l /\ n1 = n
    BY <1>9, <1>m, <1>13 DEF Added
  <2>s. Same /\ log'[t] = log[t]
    BY <1>13
  <2>2. Goal
    BY SMTT(30), <1>8, <1>9, <1>10, <1>11, <2>s, <2>1
  <2> QED BY <1>12, <2>2
<1>14. CASE Here /\ There /\ pc'[c] = pc[c] /\ Same /\ log'[t] = log[t]
  <2>1. d1 = d /\ h1 = h /\ e1 = e /\ r1 = r /\ l1 = l /\ n1 = n
    BY <1>9, <1>m, <1>14
  <2>2. Goal
    BY <1>8, <1>9, <1>10, <1>11, <1>14, <2>1
  <2> QED BY <1>12, <2>2
<1>15. CASE /\ Here /\ Same
            /\ There => pc'[c] \notin {"daily", "hourly", "sender", "receiver", "log"}
            /\ log'[t] = log[t] \/ (log[t] = "none" /\ log'[t] = "failed")
            /\ pc[c] \in Added => f1 = f + 1 \/ log[t] # "none"
            /\ s1 <= s
  <2>1. /\ d1 <= d /\ h1 <= h /\ e1 <= e /\ r1 <= r /\ l1 <= l
    BY <1>9, <1>m, <1>15 DEF Added
  <2>n. n1 = n \/ (n1 = n - 1 /\ (f1 = f + 1 \/ log[t] # "none"))
    BY <1>9, <1>m, <1>15 DEF Added
  <2>s. Same /\ (log'[t] = log[t] \/ (log[t] = "none" /\ log'[t] = "failed"))
    BY <1>15
  <2>2. Goal
    <3>1. cd1 + d1 <= H + f1
      BY <1>8, <1>9, <1>10, <1>11, <2>1, <2>s
    <3>2. log'[t] = "none" => cd1 + s1 <= f1 + n1
      <4> SUFFICES ASSUME log'[t] = "none" PROVE cd1 + s1 <= f1 + n1
        OBVIOUS
      <4>1. log[t] = "none" /\ cd1 = cd
        BY <2>s
      <4>2. cd + s <= f + n /\ (n1 = n \/ (n1 = n - 1 /\ f1 = f + 1))
        BY <1>11, <2>n, <4>1
      <4>3. s1 <= s /\ f <= f1
        BY <1>8, <1>15
      <4> QED BY <1>8, <1>9, <1>10, <4>1, <4>2, <4>3
    <3>3. ch1 + h1 <= cd1 /\ ce1 + e1 <= ch1 /\ cr1 + r1 <= ce1
      BY SMTT(30), <1>9, <1>10, <1>11, <2>1, <2>s
    <3>4. log'[t] = "processed" \/ l1 > 0 => cr1 > 0
      BY <1>9, <1>10, <1>11, <2>1, <2>s
    <3> QED BY <3>1, <3>2, <3>3, <3>4
  <2> QED BY <1>12, <2>2
<1>p. pc[c] # "idle" => msg[c] # NoMessage /\ Event(c) \in Payloads
  BY <1>1, Active DEF TypeOK
<1>q. ~Fetch(c) => (There => Here) /\ (msg'[c] = msg[c] \/ ~There)
  <2>1. ~Fetch(c) => msg'[c] = msg[c] \/ msg'[c] = NoMessage
    <3>1. msg \in [Consumers -> Messages \cup {NoMessage}]
      BY <1>1 DEF TypeOK, ConsumerTypeOK
    <3> QED BY <3>1 DEF Works, Step, IsEventProcessed, Upsert, UpsertFails, CreateEventLog, Refuse,
              ReportFailure, QueryFails, InvalidateCacheForDate, Ack, Flush, Die, Reassign, consumer,
              HandlerFailed, CommitMessage, FlushCommits, Crash, Rebalance
  <2> QED BY <1>4, <2>1 DEF Here, There, Event, Payload
<1>r. counted' = counted => Same
  BY DEF cd, cd1, ch, ch1, ce, ce1, cr, cr1
<1>s. Here => Event(c) = t /\ msg[c] # NoMessage
  BY DEF Here
<1>u. pc \in [Consumers -> Aggregates \cup {"idle", "check", "log", "report", "invalidate", "ack"}]
      /\ log \in [Payloads -> {"none", "processed", "failed"}]
      /\ counted \in [Aggregates -> [Payloads -> Nat]]
  BY <1>1 DEF TypeOK
<1>v. HandlerFailed(c) \/ CommitMessage(c) \/ Crash(c) => ~There
  <2>1. msg \in [Consumers -> Messages \cup {NoMessage}]
    BY <1>1 DEF TypeOK, ConsumerTypeOK
  <2> QED BY <2>1 DEF There, HandlerFailed, CommitMessage, Crash
<1>16. CASE Fetch(c)
  <2>1. /\ ~Here /\ (There => pc'[c] = "check") /\ counted' = counted /\ log'[t] = log[t]
    BY <1>16, <1>u DEF Fetch, FetchMessage, Here, Goto
  <2> QED BY <1>13, <1>r, <2>1
<1>17. CASE Upsert(c)
  <2>1. /\ pc[c] \in Aggregates /\ counted' = [counted EXCEPT ![pc[c]][Event(c)] = @ + 1]
        /\ pc' = [pc EXCEPT ![c] = After[pc[c]]]
        /\ UNCHANGED <<consumer, log>> /\ f1 = f /\ pc[c] # "idle"
    BY <1>17 DEF Upsert, Count, Goto, Aggregates, f, f1
  <2>2. CASE ~Here
    <3>1. Event(c) # t
      BY <1>p, <2>1, <2>2 DEF Here
    <3>2. \A a \in Aggregates : counted'[a][t] = counted[a][t]
      BY <1>u, <2>1, <3>1
    <3>3. Same
      BY <3>2 DEF cd, cd1, ch, ch1, ce, ce1, cr, cr1, Aggregates
    <3>4. ~Fetch(c) /\ log'[t] = log[t]
      BY <2>1, <1>p DEF Fetch, FetchMessage
    <3> QED BY <1>13, <1>q, <2>2, <3>3, <3>4
  <2>3. CASE Here
    <3>1. There
      BY <1>7, <2>1, <2>3 DEF consumer
    <3>2. \A a \in Aggregates : counted'[a][t] = IF a = pc[c] THEN counted[a][t] + 1 ELSE counted[a][t]
      BY <1>s, <1>u, <2>1, <2>3
    <3>3. /\ cd1 = IF pc[c] = "daily" THEN cd + 1 ELSE cd
          /\ ch1 = IF pc[c] = "hourly" THEN ch + 1 ELSE ch
          /\ ce1 = IF pc[c] = "sender" THEN ce + 1 ELSE ce
          /\ cr1 = IF pc[c] = "receiver" THEN cr + 1 ELSE cr
      BY <3>2 DEF cd, cd1, ch, ch1, ce, ce1, cr, cr1, Aggregates
    <3>4. pc'[c] = After[pc[c]]
      BY <1>u, <2>1
    <3>9. f1 = f /\ log'[t] = log[t]
      BY <2>1
    <3>5. CASE pc[c] = "daily"
      <4>1. pc'[c] = "hourly"
        BY <3>4, <3>5 DEF After
      <4>2. d1 = d - 1 /\ h1 = h + 1 /\ e1 = e /\ r1 = r /\ l1 = l /\ n1 = n + 1
        BY <1>9, <1>m, <2>3, <3>1, <3>5, <4>1 DEF Added
      <4>3. cd1 = cd + 1 /\ ch1 = ch /\ ce1 = ce /\ cr1 = cr
        BY <3>3, <3>5
      <4>4. Goal
        BY <1>8, <1>9, <1>10, <1>11, <3>9, <4>2, <4>3
      <4> QED BY <1>12, <4>4
    <3>6. CASE pc[c] = "hourly"
      <4>1. pc'[c] = "sender"
        BY <3>4, <3>6 DEF After
      <4>2. d1 = d /\ h1 = h - 1 /\ e1 = e + 1 /\ r1 = r /\ l1 = l /\ n1 = n
        BY <1>9, <1>m, <2>3, <3>1, <3>6, <4>1 DEF Added
      <4>3. cd1 = cd /\ ch1 = ch + 1 /\ ce1 = ce /\ cr1 = cr
        BY <3>3, <3>6
      <4>4. Goal
        BY <1>8, <1>9, <1>10, <1>11, <3>9, <4>2, <4>3
      <4> QED BY <1>12, <4>4
    <3>7. CASE pc[c] = "sender"
      <4>1. pc'[c] = "receiver"
        BY <3>4, <3>7 DEF After
      <4>2. d1 = d /\ h1 = h /\ e1 = e - 1 /\ r1 = r + 1 /\ l1 = l /\ n1 = n
        BY <1>9, <1>m, <2>3, <3>1, <3>7, <4>1 DEF Added
      <4>3. cd1 = cd /\ ch1 = ch /\ ce1 = ce + 1 /\ cr1 = cr
        BY <3>3, <3>7
      <4>4. Goal
        BY <1>8, <1>9, <1>10, <1>11, <3>9, <4>2, <4>3
      <4> QED BY <1>12, <4>4
    <3>8. CASE pc[c] = "receiver"
      <4>1. pc'[c] = "log"
        BY <3>4, <3>8 DEF After
      <4>2. d1 = d /\ h1 = h /\ e1 = e /\ r1 = r - 1 /\ l1 = l + 1 /\ n1 = n
        BY <1>9, <1>m, <2>3, <3>1, <3>8, <4>1 DEF Added
      <4>3. cd1 = cd /\ ch1 = ch /\ ce1 = ce /\ cr1 = cr + 1
        BY <3>3, <3>8
      <4>4. Goal
        BY <1>8, <1>9, <1>10, <1>11, <3>9, <4>2, <4>3
      <4> QED BY <1>12, <4>4
    <3> QED BY <2>1, <3>5, <3>6, <3>7, <3>8 DEF Aggregates
  <2> QED BY <2>2, <2>3
<1>w. owner' = owner => s1 <= s
  <2>1. owner' = owner => \A p \in Partitions : ~Rebalance(p, c)
    BY <1>1 DEF Rebalance, TypeOK, ConsumerTypeOK
  <2> QED BY <1>8, <2>1
<1>18. CASE IsEventProcessed(c)
  <2>1. /\ pc[c] = "check" /\ pc'[c] = (IF log[Event(c)] = "none" THEN "daily" ELSE "ack")
        /\ UNCHANGED <<consumer, log>> /\ f1 = f /\ counted' = counted
    BY <1>18, <1>u DEF IsEventProcessed, Goto, f, f1
  <2>2. Same /\ ~Fetch(c) /\ s1 <= s /\ log'[t] = log[t]
    BY <1>p, <1>r, <1>w, <2>1 DEF Fetch, FetchMessage, consumer
  <2>3. CASE ~Here
    BY <1>13, <1>q, <2>2, <2>3
  <2>4. CASE Here /\ log[t] = "none"
    <3>1. There /\ pc'[c] = "daily"
      BY <1>7, <1>s, <2>1, <2>4 DEF consumer
    <3>2. d1 = d + 1 /\ h1 = h /\ e1 = e /\ r1 = r /\ l1 = l /\ n1 = n
      BY <1>9, <1>m, <2>1, <2>4, <3>1 DEF Added
    <3>3. d + n + 1 <= H + s
      <4>1. c \in Handling(t) /\ StraysBounded
        BY <2>4 DEF Here, Handling, Event, CountInv
      <4> QED BY <1>1, <2>1, <4>1, RoomForOne DEF d, n, H, s
    <3>4. cd1 + d1 <= H + f1
      <4>1. cd1 = cd /\ f1 = f /\ d1 = d + 1 /\ cd + s <= f + n
        BY <1>11, <2>1, <2>2, <2>4, <3>2
      <4>2. cd \in Nat /\ d \in Nat /\ n \in Nat /\ H \in Nat /\ s \in Nat /\ f \in Nat
        BY <1>8, <1>9, <1>10
      <4> QED BY <3>3, <4>1, <4>2
    <3>5. Goal
      BY <1>8, <1>9, <1>10, <1>11, <2>1, <2>2, <2>4, <3>2, <3>4
    <3> QED BY <1>12, <3>5
  <2>5. CASE Here /\ log[t] # "none"
    <3>1. pc'[c] = "ack"
      BY <1>s, <2>1, <2>5
    <3> QED BY <1>15, <2>1, <2>2, <2>5, <3>1 DEF Added
  <2> QED BY <2>3, <2>4, <2>5
<1>19. CASE UpsertFails(c)
  <2>1. /\ pc[c] \in Aggregates /\ pc'[c] = "report" /\ UNCHANGED <<consumer, log>>
        /\ f1 = f + 1 /\ pc[c] # "idle"
        /\ counted' = counted \/ counted' = [counted EXCEPT ![pc[c]][Event(c)] = @ + 1]
    BY <1>19, <1>u DEF UpsertFails, Count, Goto, Fault, Aggregates, f, f1
  <2>2. ~Fetch(c) /\ s1 <= s /\ log'[t] = log[t]
    BY <1>p, <1>w, <2>1 DEF Fetch, FetchMessage, consumer
  <2>3. CASE ~Here
    <3>1. Event(c) # t
      BY <1>p, <2>1, <2>3 DEF Here
    <3>2. \A a \in Aggregates : counted'[a][t] = counted[a][t]
      <4>1. CASE counted' = counted
        BY <4>1
      <4>2. CASE counted' = [counted EXCEPT ![pc[c]][Event(c)] = @ + 1]
        BY <1>u, <2>1, <3>1, <4>2
      <4> QED BY <2>1, <4>1, <4>2
    <3>3. Same
      BY <3>2 DEF cd, cd1, ch, ch1, ce, ce1, cr, cr1, Aggregates
    <3> QED BY <1>13, <1>q, <2>2, <2>3, <3>3
  <2>4. CASE Here /\ counted' = counted
    BY <1>15, <1>r, <2>1, <2>2, <2>4
  <2>5. CASE Here /\ counted' = [counted EXCEPT ![pc[c]][Event(c)] = @ + 1]
    <3>1. There
      BY <1>7, <2>1, <2>5 DEF consumer
    <3>2. \A a \in Aggregates : counted'[a][t] = IF a = pc[c] THEN counted[a][t] + 1 ELSE counted[a][t]
      BY <1>s, <1>u, <2>1, <2>5
    <3>3. /\ cd1 = IF pc[c] = "daily" THEN cd + 1 ELSE cd
          /\ ch1 = IF pc[c] = "hourly" THEN ch + 1 ELSE ch
          /\ ce1 = IF pc[c] = "sender" THEN ce + 1 ELSE ce
          /\ cr1 = IF pc[c] = "receiver" THEN cr + 1 ELSE cr
      BY <3>2 DEF cd, cd1, ch, ch1, ce, ce1, cr, cr1, Aggregates
    <3>9. f1 = f + 1 /\ s1 <= s /\ log'[t] = log[t]
      BY <2>1, <2>2
    <3>4. CASE pc[c] = "daily"
      <4>1. d1 = d - 1 /\ h1 = h /\ e1 = e /\ r1 = r /\ l1 = l /\ n1 = n
        BY <1>9, <1>m, <2>1, <2>5, <3>1, <3>4 DEF Added
      <4>2. cd1 = cd + 1 /\ ch1 = ch /\ ce1 = ce /\ cr1 = cr
        BY <3>3, <3>4
      <4>3. cd1 + d1 <= H + f1
        BY <1>8, <1>9, <1>10, <1>11, <3>9, <4>1, <4>2
      <4>4. log'[t] = "none" => cd1 + s1 <= f1 + n1
        <5>1. log[t] = "none" => cd + s <= f + n
          BY <1>11
        <5>2. cd1 <= cd + 1 /\ n1 >= n - 1 /\ (cd1 = cd \/ n1 = n)
          BY <1>9, <1>10, <4>1, <4>2
        <5>3. cd + s <= f + n => cd1 + s1 <= f1 + n1
          BY <1>8, <1>9, <1>10, <3>9, <4>1, <4>2, <5>2
        <5> QED BY <3>9, <5>1, <5>3
      <4>5. ch1 + h1 <= cd1 /\ ce1 + e1 <= ch1 /\ cr1 + r1 <= ce1
        BY <1>9, <1>10, <1>11, <4>1, <4>2
      <4>6. log'[t] = "processed" \/ l1 > 0 => cr1 > 0
        BY <1>9, <1>10, <1>11, <3>9, <4>1, <4>2
      <4> QED BY <1>12, <4>3, <4>4, <4>5, <4>6
    <3>5. CASE pc[c] = "hourly"
      <4>1. d1 = d /\ h1 = h - 1 /\ e1 = e /\ r1 = r /\ l1 = l /\ n1 = n - 1
        BY <1>9, <1>m, <2>1, <2>5, <3>1, <3>5 DEF Added
      <4>2. cd1 = cd /\ ch1 = ch + 1 /\ ce1 = ce /\ cr1 = cr
        BY <3>3, <3>5
      <4>3. cd1 + d1 <= H + f1
        BY <1>8, <1>9, <1>10, <1>11, <3>9, <4>1, <4>2
      <4>4. log'[t] = "none" => cd1 + s1 <= f1 + n1
        <5>1. log[t] = "none" => cd + s <= f + n
          BY <1>11
        <5>2. cd1 <= cd + 1 /\ n1 >= n - 1 /\ (cd1 = cd \/ n1 = n)
          BY <1>9, <1>10, <4>1, <4>2
        <5>3. cd + s <= f + n => cd1 + s1 <= f1 + n1
          BY <1>8, <1>9, <1>10, <3>9, <4>1, <4>2, <5>2
        <5> QED BY <3>9, <5>1, <5>3
      <4>5. ch1 + h1 <= cd1 /\ ce1 + e1 <= ch1 /\ cr1 + r1 <= ce1
        BY <1>9, <1>10, <1>11, <4>1, <4>2
      <4>6. log'[t] = "processed" \/ l1 > 0 => cr1 > 0
        BY <1>9, <1>10, <1>11, <3>9, <4>1, <4>2
      <4> QED BY <1>12, <4>3, <4>4, <4>5, <4>6
    <3>6. CASE pc[c] = "sender"
      <4>1. d1 = d /\ h1 = h /\ e1 = e - 1 /\ r1 = r /\ l1 = l /\ n1 = n - 1
        BY <1>9, <1>m, <2>1, <2>5, <3>1, <3>6 DEF Added
      <4>2. cd1 = cd /\ ch1 = ch /\ ce1 = ce + 1 /\ cr1 = cr
        BY <3>3, <3>6
      <4>3. cd1 + d1 <= H + f1
        BY <1>8, <1>9, <1>10, <1>11, <3>9, <4>1, <4>2
      <4>4. log'[t] = "none" => cd1 + s1 <= f1 + n1
        <5>1. log[t] = "none" => cd + s <= f + n
          BY <1>11
        <5>2. cd1 <= cd + 1 /\ n1 >= n - 1 /\ (cd1 = cd \/ n1 = n)
          BY <1>9, <1>10, <4>1, <4>2
        <5>3. cd + s <= f + n => cd1 + s1 <= f1 + n1
          BY <1>8, <1>9, <1>10, <3>9, <4>1, <4>2, <5>2
        <5> QED BY <3>9, <5>1, <5>3
      <4>5. ch1 + h1 <= cd1 /\ ce1 + e1 <= ch1 /\ cr1 + r1 <= ce1
        BY <1>9, <1>10, <1>11, <4>1, <4>2
      <4>6. log'[t] = "processed" \/ l1 > 0 => cr1 > 0
        BY <1>9, <1>10, <1>11, <3>9, <4>1, <4>2
      <4> QED BY <1>12, <4>3, <4>4, <4>5, <4>6
    <3>7. CASE pc[c] = "receiver"
      <4>1. d1 = d /\ h1 = h /\ e1 = e /\ r1 = r - 1 /\ l1 = l /\ n1 = n - 1
        BY <1>9, <1>m, <2>1, <2>5, <3>1, <3>7 DEF Added
      <4>2. cd1 = cd /\ ch1 = ch /\ ce1 = ce /\ cr1 = cr + 1
        BY <3>3, <3>7
      <4>3. cd1 + d1 <= H + f1
        BY <1>8, <1>9, <1>10, <1>11, <3>9, <4>1, <4>2
      <4>4. log'[t] = "none" => cd1 + s1 <= f1 + n1
        <5>1. log[t] = "none" => cd + s <= f + n
          BY <1>11
        <5>2. cd1 <= cd + 1 /\ n1 >= n - 1 /\ (cd1 = cd \/ n1 = n)
          BY <1>9, <1>10, <4>1, <4>2
        <5>3. cd + s <= f + n => cd1 + s1 <= f1 + n1
          BY <1>8, <1>9, <1>10, <3>9, <4>1, <4>2, <5>2
        <5> QED BY <3>9, <5>1, <5>3
      <4>5. ch1 + h1 <= cd1 /\ ce1 + e1 <= ch1 /\ cr1 + r1 <= ce1
        BY <1>9, <1>10, <1>11, <4>1, <4>2
      <4>6. log'[t] = "processed" \/ l1 > 0 => cr1 > 0
        BY <1>9, <1>10, <1>11, <3>9, <4>1, <4>2
      <4> QED BY <1>12, <4>3, <4>4, <4>5, <4>6
    <3> QED BY <2>1, <3>4, <3>5, <3>6, <3>7 DEF Aggregates
  <2> QED BY <2>1, <2>3, <2>4, <2>5
<1>20. CASE CreateEventLog(c) /\ ~Refuse(c)
  <2>1. /\ pc[c] = "log" /\ pc'[c] = "invalidate" /\ UNCHANGED consumer
        /\ f1 = f /\ counted' = counted
        /\ log[Event(c)] = "none" /\ log' = [log EXCEPT ![Event(c)] = "processed"]
    BY <1>20, <1>u DEF CreateEventLog, Goto, f, f1
  <2>2. Same /\ ~Fetch(c) /\ s1 <= s
    BY <1>p, <1>r, <1>w, <2>1 DEF Fetch, FetchMessage, consumer
  <2>3. CASE ~Here
    <3>1. log'[t] = log[t]
      BY <1>p, <1>u, <2>1, <2>3 DEF Here
    <3> QED BY <1>13, <1>q, <2>2, <2>3, <3>1
  <2>4. CASE Here
    <3>1. d1 = d /\ h1 = h /\ e1 = e /\ r1 = r /\ l1 = l - 1 /\ l > 0
      BY <1>9, <1>m, <2>1, <2>4
    <3>2. log'[t] = "processed"
      BY <1>s, <1>p, <1>u, <2>1, <2>4
    <3>3. Goal
      BY <1>8, <1>9, <1>10, <1>11, <2>1, <2>2, <3>1, <3>2
    <3> QED BY <1>12, <3>3
  <2> QED BY <2>3, <2>4
<1>21. CASE Refuse(c) /\ (CreateEventLog(c) \/ ReportFailure(c) \/ QueryFails(c))
  <2>1. /\ counted' = counted /\ owner' = owner /\ pc[c] # "idle" /\ ~There
    BY <1>21, <1>v DEF Refuse, HandlerFailed, CreateEventLog, ReportFailure, QueryFails
  <2>2. Same /\ s1 <= s
    BY <1>r, <1>w, <2>1
  <2>3. /\ log'[t] = log[t] \/ (log[t] = "none" /\ log'[t] = "failed")
           \/ (QueryFails(c) /\ pc[c] = "log" /\ log'[t] = "processed")
        /\ Event(c) # t => log'[t] = log[t]
    <3>1. CASE ReportFailure(c)
      <4> DEFINE x == Event(c)
      <4> HIDE DEF x
      <4>1. log' = [log EXCEPT ![x] = IF log[x] = "none" THEN "failed" ELSE log[x]]
        BY <3>1 DEF ReportFailure, x
      <4>2. log'[t] = IF x = t /\ log[t] = "none" THEN "failed" ELSE log[t]
        BY <1>u, <4>1
      <4> QED BY <4>2 DEF x
    <3>2. CASE ~ReportFailure(c)
      <4>1. \/ log' = log
            \/ /\ QueryFails(c) /\ pc[c] = "log"
               /\ log' = [log EXCEPT ![Event(c)] = "processed"]
        BY <1>21, <1>u, <2>1, <3>2 DEF CreateEventLog, QueryFails, Refuse, Goto
      <4> QED BY <1>p, <1>u, <2>1, <4>1
    <3> QED BY <3>1, <3>2
  <2>4. CASE ~Here
    <3>1. log'[t] = log[t]
      BY <1>p, <2>1, <2>3, <2>4 DEF Here
    <3> QED BY <1>13, <2>1, <2>2, <2>4, <3>1
  <2>6. CASE Here /\ QueryFails(c) /\ pc[c] = "log" /\ log'[t] = "processed"
    <3>1. d1 <= d /\ h1 <= h /\ e1 <= e /\ r1 <= r /\ l > 0
      BY <1>9, <1>m, <2>1, <2>6
    <3>2. Goal
      BY <1>8, <1>9, <1>10, <1>11, <2>2, <2>6, <3>1
    <3> QED BY <1>12, <3>2
  <2>5. CASE Here /\ ~(QueryFails(c) /\ pc[c] = "log" /\ log'[t] = "processed")
    <3>1. pc[c] \in Added => f1 = f + 1 \/ log[t] # "none"
      <4>1. CASE CreateEventLog(c)
        <5>1. log[Event(c)] # "none"
          BY <1>21, <1>u, <4>1 DEF CreateEventLog, Refuse, Goto
        <5> QED BY <1>s, <2>5, <5>1
      <4>2. CASE ReportFailure(c)
        BY <4>2 DEF ReportFailure, Added
      <4>3. CASE QueryFails(c)
        BY <4>3 DEF QueryFails, Fault, f, f1
      <4> QED BY <1>21, <4>1, <4>2, <4>3
    <3> QED BY <1>15, <2>1, <2>2, <2>3, <2>5, <3>1
  <2> QED BY <2>4, <2>5, <2>6
<1>22. CASE InvalidateCacheForDate(c) \/ Ack(c) \/ Die(c)
  <2>1. /\ counted' = counted /\ log' = log /\ owner' = owner
        /\ ~Fetch(c) \/ ~There
        /\ There => pc'[c] = "ack"
        /\ pc[c] \in Added => f1 = f + 1
    BY <1>22, <1>u, <1>v, <1>p DEF InvalidateCacheForDate, Ack, Die, Goto, CommitMessage, Crash, Fault,
         consumer, Added, Fetch, FetchMessage, f, f1
  <2>2. Same /\ s1 <= s /\ log'[t] = log[t]
    BY <1>r, <1>w, <2>1
  <2>3. CASE ~Here
    BY <1>13, <1>q, <2>1, <2>2, <2>3
  <2>4. CASE Here
    BY <1>15, <2>1, <2>2, <2>4
  <2> QED BY <2>3, <2>4
<1>23. CASE Flush(c) \/ \E p \in Partitions : Reassign(p, c)
  <2>1. counted' = counted /\ log' = log /\ pc' = pc /\ msg' = msg
    BY <1>23 DEF Flush, FlushCommits, Reassign, Rebalance
  <2>2. Same /\ log'[t] = log[t] /\ (There <=> Here)
    BY <1>4, <1>r, <2>1 DEF Here, There, Event, Payload
  <2> QED BY <1>13, <1>14, <2>1, <2>2
<1> QED BY <1>16, <1>17, <1>18, <1>19, <1>20, <1>21, <1>22, <1>23
        DEF Works, Step, ReportFailure, QueryFails

\* What the readers and Redis do is not counted.
LEMMA CountsUnchanged ==
  ASSUME CountInv, Looks, NEW t \in Payloads
  PROVE  Counts(t)'
<1>1. UNCHANGED <<consumer, faults, counted, log, pc>>
  BY LookStep DEF CountInv
<1>2. Counts(t)
  BY DEF CountInv
<1>3. \A L : N(L, t)' = N(L, t)
  BY <1>1 DEF N, At, Handling, Payload, consumer
<1>4. Cardinality(Holding(t))' = Cardinality(Holding(t)) /\ Cardinality(Strays)' = Cardinality(Strays)
  BY <1>1 DEF Holding, Strays, Messages, Offsets, Payload, consumer
<1> HIDE DEF N
<1> QED BY <1>1, <1>2, <1>3, <1>4 DEF Counts

\* The invariant is inductive.
LEMMA CountInvKept ==
  ASSUME CountInv, [Next]_vars
  PROVE  CountInv'
<1>1. TypeOK'
  BY TypesKept DEF CountInv
<1>2. CASE \E c \in Consumers : Works(c)
  <2> PICK c \in Consumers : Works(c)
    BY <1>2
  <2>1. \A t \in Payloads : Counts(t)'
    BY CountsKept
  <2>2. GroupStep(c) /\ Faulty /\ ConsumerTypeOK
    BY WorkStep DEF CountInv, TypeOK
  <2>3. IsFiniteSet(Strays) /\ Cardinality(Strays) <= faults /\ faults \in Nat
    BY DEF CountInv, StraysBounded, TypeOK, ConsumerTypeOK
  <2>4. /\ IsFiniteSet(Strays)' /\ Cardinality(Strays) \in Nat /\ Cardinality(Strays)' \in Nat
        /\ \/ Cardinality(Strays)' <= Cardinality(Strays)
           \/ /\ Cardinality(Strays)' <= Cardinality(Strays) + 1
              /\ \E p \in Partitions : Rebalance(p, c)
    BY <2>2, <2>3, StraysStep
  <2>5. /\ faults' \in {faults, faults + 1}
        /\ \A p \in Partitions : Rebalance(p, c) => faults' = faults + 1
    BY <2>2 DEF Faulty, Fault, Rebalance
  <2>6. Cardinality(Strays)' <= faults'
    BY <2>3, <2>4, <2>5
  <2> QED BY <1>1, <2>1, <2>4, <2>6 DEF CountInv, StraysBounded
<1>3. CASE Looks
  <2>1. UNCHANGED <<consumer, faults>>
    BY <1>3, LookStep DEF CountInv
  <2>2. StraysBounded'
    BY <2>1 DEF CountInv, StraysBounded, Strays, consumer
  <2> QED BY <1>1, <1>3, <2>2, CountsUnchanged DEF CountInv
<1> QED BY <1>2, <1>3 DEF Next, Works, Looks

\* An event is added once per partition that holds a copy of it and once per
\* fault at most, to the later aggregates no more often than to the earlier
\* ones, and one that is logged as processed is in all of them.
THEOREM AnalyticsCountsOnce == Spec => []CountedOnce
<1>1. Init => CountInv
  <2> SUFFICES ASSUME Init PROVE CountInv
    OBVIOUS
  <2>1. TypeOK
    BY InitialTypes
  <2>2. /\ \A c \in Consumers : msg[c] = NoMessage
        /\ faults = 0 /\ log = [t \in Payloads |-> "none"]
        /\ \A a \in Aggregates, t \in Payloads : counted[a][t] = 0
    BY DEF Init, ConsumerInit
  <2>3. Strays = {} /\ \A t : Handling(t) = {}
    BY <2>2 DEF Strays, Handling
  <2>4. StraysBounded /\ \A t, L : N(L, t) = 0
    <3>1. StraysBounded
      BY <2>2, <2>3, FS_EmptySet DEF StraysBounded
    <3>2. \A t, L : At(L, t) = {}
      BY <2>3 DEF At
    <3>3. Cardinality({}) = 0
      BY FS_EmptySet
    <3>4. ASSUME NEW t, NEW L PROVE N(L, t) = 0
      BY <3>2, <3>3 DEF N
    <3> QED BY <3>1, <3>4
  <2>5. ASSUME NEW t \in Payloads PROVE Counts(t)
    <3>1. Cardinality(Holding(t)) \in Nat
      BY <2>1, <2>4, HandlingBounded DEF TypeOK, StraysBounded
    <3>2. Cardinality(Strays) = 0
      BY <2>3, FS_EmptySet
    <3> HIDE DEF N
    <3> QED BY <2>2, <2>4, <3>1, <3>2 DEF Counts, Aggregates
  <2> QED BY <2>1, <2>4, <2>5 DEF CountInv
<1>2. CountInv /\ [Next]_vars => CountInv'
  BY CountInvKept
<1>3. CountInv => CountedOnce
  <2> SUFFICES ASSUME CountInv, NEW t \in Payloads
               PROVE  /\ counted["daily"][t] <= Cardinality(Holding(t)) + faults
                      /\ counted["hourly"][t] <= counted["daily"][t]
                      /\ counted["sender"][t] <= counted["hourly"][t]
                      /\ counted["receiver"][t] <= counted["sender"][t]
                      /\ log[t] = "processed" => counted["receiver"][t] > 0
    BY DEF CountedOnce
  <2>1. Counts(t)
    BY DEF CountInv
  <2>2. /\ counted["daily"][t] \in Nat /\ counted["hourly"][t] \in Nat
        /\ counted["sender"][t] \in Nat /\ counted["receiver"][t] \in Nat
        /\ faults \in Nat
    BY DEF CountInv, TypeOK, ConsumerTypeOK, Aggregates
  <2>3. /\ IsFiniteSet(Handling(t)) /\ Cardinality(Holding(t)) \in Nat
    BY HandlingBounded DEF CountInv, TypeOK, StraysBounded
  <2>m. \A S : S \in SUBSET Handling(t) => Cardinality(S) \in Nat
    BY <2>3, FS_Subset, FS_CardinalityType
  <2>4. \A L : N(L, t) \in Nat
    <3> SUFFICES ASSUME NEW L PROVE N(L, t) \in Nat
      OBVIOUS
    <3>1. At(L, t) \in SUBSET Handling(t)
      BY DEF At
    <3> QED BY <2>m, <3>1 DEF N
  <2>5. /\ N({"daily"}, t) \in Nat /\ N({"hourly"}, t) \in Nat
        /\ N({"sender"}, t) \in Nat /\ N({"receiver"}, t) \in Nat
    BY <2>4
  <2> DEFINE a == counted["daily"][t]  b == counted["hourly"][t]
             c == counted["sender"][t]  d == counted["receiver"][t]
             H == Cardinality(Holding(t))
             x == N({"daily"}, t)  y == N({"hourly"}, t)  z == N({"sender"}, t)  w == N({"receiver"}, t)
  <2>6. /\ a + x <= H + faults /\ b + y <= a /\ c + z <= b /\ d + w <= c
        /\ log[t] = "processed" => d > 0
    BY <2>1 DEF Counts
  <2>7. /\ a \in Nat /\ b \in Nat /\ c \in Nat /\ d \in Nat /\ H \in Nat /\ faults \in Nat
        /\ x \in Nat /\ y \in Nat /\ z \in Nat /\ w \in Nat
    BY <2>2, <2>3, <2>5
  <2> HIDE DEF a, b, c, d, H, x, y, z, w
  <2>8. a <= H + faults /\ b <= a /\ c <= b /\ d <= c /\ (log[t] = "processed" => d > 0)
    BY <2>6, <2>7
  <2> QED BY <2>8 DEF a, b, c, d, H
<1> QED BY <1>1, <1>2, <1>3, PTL DEF Spec

-----------------------------------------------------------------------------
(* Stale views.                                                            *)

\* The view shows what is counted of its first and its last date.
Current(v) == \A t \in InRange(v) : Matches(v, DateOf[t]) => cache[v][t] = counted[v.period][t]

\* An instance is between its first upsert and the invalidation of the view.
AboutToDrop(v, c) ==
  pc[c] \in Aggregates \cup {"log", "invalidate"} /\ Matches(v, DateOf[Event(c)])

\* Why a view may be stale.
Excused(v) ==
  \/ v \in raced
  \/ \E c \in Consumers : AboutToDrop(v, c)
  \/ \E m \in failed : Matches(v, DateOf[Payload(m)])
  \/ faults > 0

Presentable(v) == cache[v] = NoValue \/ Current(v) \/ Excused(v)

\* A step of an instance that leaves a cached view as it is leaves it presentable:
\* what it adds it is about to drop, and an excuse goes only with a fault, with a
\* failure of the handler, or with the view.
LEMMA WorkKeepsViews ==
  ASSUME TypeOK, NEW c \in Consumers, Works(c), NEW v \in Views, Presentable(v)
  PROVE  Presentable(v)'
<1>1. topic' = topic /\ Messages' = Messages /\ faults' \in {faults, faults + 1} /\ faults \in Nat
  BY WorkStep, GroupStepTypes DEF TypeOK, ConsumerTypeOK
<1>2. /\ \A d \in Consumers \ {c} : pc'[d] = pc[d] /\ msg'[d] = msg[d]
      /\ failed \subseteq failed'
  BY WorkStep
<1>3. \A m : Payload(m)' = Payload(m)
  BY <1>1 DEF Payload
<1>4. CASE faults' = faults + 1
  <2>1. faults' > 0
    BY <1>1, <1>4
  <2> QED BY <2>1 DEF Presentable, Excused
<1>5. CASE InvalidateCacheForDate(c) /\ faults' = faults
  <2>1. /\ pc[c] = "invalidate" /\ counted' = counted /\ failed' = failed /\ msg' = msg
        /\ \E S \in SUBSET Views : Drop(S) /\ (Matches(v, DateOf[Event(c)]) => v \in S)
    <3>1. \/ Drop({w \in Views : Matches(w, DateOf[Event(c)])})
          \/ Fault
      BY <1>5 DEF InvalidateCacheForDate
    <3>2. ~Fault
      BY <1>1, <1>5 DEF Fault
    <3>3. {w \in Views : Matches(w, DateOf[Event(c)])} \in SUBSET Views
      OBVIOUS
    <3>4. Matches(v, DateOf[Event(c)]) => v \in {w \in Views : Matches(w, DateOf[Event(c)])}
      OBVIOUS
    <3>5. pc[c] = "invalidate" /\ counted' = counted /\ failed' = failed /\ msg' = msg
      BY <1>5 DEF InvalidateCacheForDate, consumer
    <3> QED BY <3>1, <3>2, <3>3, <3>4, <3>5
  <2> PICK S \in SUBSET Views : Drop(S) /\ (Matches(v, DateOf[Event(c)]) => v \in S)
    BY <2>1
  <2>2. CASE v \in S
    BY <2>2 DEF Drop, Presentable
  <2>3. CASE v \notin S
    <3>1. cache'[v] = cache[v] /\ (v \in raced => v \in raced')
      BY <2>3 DEF Drop
    <3>2. Current(v) => Current(v)'
      BY <2>1, <3>1 DEF Current
    <3>3. \A d \in Consumers : AboutToDrop(v, d) => AboutToDrop(v, d)'
      <4>1. ~AboutToDrop(v, c)
        BY <2>3 DEF AboutToDrop
      <4>2. \A d \in Consumers \ {c} : AboutToDrop(v, d) => AboutToDrop(v, d)'
        BY <1>2, <1>3, <2>1 DEF AboutToDrop, Event
      <4> QED BY <4>1, <4>2
    <3>4. Excused(v) => Excused(v)'
      BY <1>1, <1>3, <2>1, <3>1, <3>3, <1>5 DEF Excused
    <3> QED BY <3>1, <3>2, <3>4 DEF Presentable
  <2> QED BY <2>2, <2>3
<1>6. CASE ~InvalidateCacheForDate(c) /\ faults' = faults
  <2>1. ~UpsertFails(c) /\ ~QueryFails(c) /\ ~Die(c) /\ \A p \in Partitions : ~Reassign(p, c)
    BY <1>1, <1>6 DEF UpsertFails, QueryFails, Die, Reassign, Crash, Rebalance, Fault
  <2>2. cache' = cache /\ raced' = raced
    BY <1>6, <2>1 DEF Works, Step, Fetch, IsEventProcessed, Upsert, CreateEventLog, Refuse,
                      ReportFailure, Ack, Flush
  <2>3. /\ pc \in [Consumers -> Aggregates \cup
                      {"idle", "check", "log", "report", "invalidate", "ack"}]
        /\ counted \in [Aggregates -> [Payloads -> Nat]] /\ v.period \in Aggregates
    BY DEF TypeOK, Aggregates
  <2>4. AboutToDrop(v, c) => AboutToDrop(v, c)' \/ \E m \in failed' : Matches(v, DateOf[Payload(m)'])
    <3> SUFFICES ASSUME AboutToDrop(v, c)
                 PROVE  AboutToDrop(v, c)' \/ \E m \in failed' : Matches(v, DateOf[Payload(m)'])
      OBVIOUS
    <3>1. pc[c] \in Aggregates \cup {"log", "invalidate"} /\ msg[c] # NoMessage
      BY DEF AboutToDrop, TypeOK, Aggregates
    <3>2. CASE Upsert(c)
      <4>1. pc'[c] = After[pc[c]] /\ msg' = msg
        BY <2>3, <3>2 DEF Upsert, Goto, consumer
      <4>2. pc'[c] \in Aggregates \cup {"log", "invalidate"}
        BY <3>2, <4>1 DEF Upsert, After, Aggregates
      <4> QED BY <1>3, <4>1, <4>2 DEF AboutToDrop, Event
    <3>3. CASE CreateEventLog(c) /\ ~Refuse(c)
      BY <1>3, <2>3, <3>3 DEF CreateEventLog, Goto, AboutToDrop, Event, consumer
    <3>4. CASE CreateEventLog(c) /\ Refuse(c)
      BY <1>3, <3>4 DEF Refuse, AboutToDrop, Event
    <3>5. CASE Flush(c)
      BY <1>3, <3>5 DEF Flush, FlushCommits, AboutToDrop, Event
    <3>6. ~Fetch(c) /\ ~IsEventProcessed(c) /\ ~ReportFailure(c) /\ ~Ack(c)
      BY <3>1 DEF Fetch, FetchMessage, IsEventProcessed, ReportFailure, Ack, Aggregates
    <3> QED BY <1>6, <2>1, <3>2, <3>3, <3>4, <3>5, <3>6 DEF Works, Step
  <2>5. Excused(v) => Excused(v)'
    <3>1. \A d \in Consumers \ {c} : AboutToDrop(v, d) => AboutToDrop(v, d)'
      BY <1>2, <1>3 DEF AboutToDrop, Event
    <3> QED BY <1>2, <1>3, <1>6, <2>2, <2>4, <3>1 DEF Excused
  <2>6. Current(v) => Current(v)' \/ Excused(v)'
    <3>1. CASE Upsert(c)
      <4>1. /\ pc[c] \in Aggregates /\ Event(c) \in Payloads /\ Event(c)' = Event(c)
            /\ counted' = [counted EXCEPT ![pc[c]][Event(c)] = @ + 1]
            /\ pc'[c] = After[pc[c]]
        BY <1>3, <2>3, <3>1, Active DEF Upsert, Count, Goto, Event, Aggregates, consumer
      <4>2. CASE Matches(v, DateOf[Event(c)])
        <5>1. pc'[c] \in Aggregates \cup {"log", "invalidate"}
          BY <4>1 DEF After, Aggregates
        <5> QED BY <4>1, <4>2, <5>1 DEF Excused, AboutToDrop
      <4>3. CASE ~Matches(v, DateOf[Event(c)])
        <5>1. \A t \in Payloads : t # Event(c) => counted'[v.period][t] = counted[v.period][t]
          BY <2>3, <4>1
        <5> QED BY <2>2, <4>3, <5>1 DEF Current, InRange
      <4> QED BY <4>2, <4>3
    <3>2. CASE ~Upsert(c)
      <4>1. counted' = counted
        BY <1>6, <2>1, <3>2 DEF Works, Step, Fetch, IsEventProcessed, CreateEventLog, Refuse,
                                ReportFailure, Ack, Flush
      <4> QED BY <2>2, <4>1 DEF Current
    <3> QED BY <3>1, <3>2
  <2> QED BY <2>2, <2>5, <2>6 DEF Presentable
<1> QED BY <1>1, <1>4, <1>5, <1>6

\* So do the steps of a reader and of Redis: a view that is cached is what is
\* counted, or it is noted as read too early.
LEMMA LooksKeepViews ==
  ASSUME TypeOK, Looks, NEW v \in Views, Presentable(v)
  PROVE  Presentable(v)'
<1>1. UNCHANGED <<consumer, faults, counted, log, pc, failed>>
  BY LookStep
<1>2. \A c : AboutToDrop(v, c)' <=> AboutToDrop(v, c)
  BY <1>1 DEF AboutToDrop, Event, Payload, consumer
<1>3. \A m : Payload(m)' = Payload(m)
  BY <1>1 DEF Payload, consumer
<1>4. ASSUME cache'[v] = cache[v], v \in raced => v \in raced'
      PROVE  Presentable(v)'
  BY <1>1, <1>2, <1>3, <1>4 DEF Presentable, Current, Excused
<1>5. ASSUME NEW g \in Readers, CacheView(g)
      PROVE  Presentable(v)'
  <2>1. CASE v = rpc[g]
    <3>1. cache'[v] = got[g]
      BY <1>5, <2>1 DEF CacheView, TypeOK
    <3>2. CASE got[g] = Shows(v)
      <4>1. \A t \in InRange(v) : cache'[v][t] = counted[v.period][t]
        BY <3>1, <3>2 DEF Shows
      <4> QED BY <1>1, <4>1 DEF Presentable, Current
    <3>3. CASE got[g] # Shows(v)
      BY <1>5, <2>1, <3>3 DEF CacheView, Presentable, Excused
    <3> QED BY <3>2, <3>3
  <2>2. CASE v # rpc[g]
    BY <1>4, <1>5, <2>2 DEF CacheView, TypeOK
  <2> QED BY <2>1, <2>2
<1>6. ASSUME NEW g \in Readers, NEW w \in Views, ReadMiss(g, w)
      PROVE  Presentable(v)'
  BY <1>4, <1>6 DEF ReadMiss
<1>7. ASSUME NEW w \in Views, ExpireCache(w)
      PROVE  Presentable(v)'
  <2>1. CASE v = w
    BY <1>7, <2>1 DEF ExpireCache, Drop, Presentable
  <2>2. CASE v # w
    BY <1>4, <1>7, <2>2 DEF ExpireCache, Drop
  <2> QED BY <2>1, <2>2
<1>8. CASE UNCHANGED vars
  BY <1>4, <1>8 DEF vars
<1> QED BY <1>5, <1>6, <1>7, <1>8 DEF Looks

\* Without a fault, a cached view shows what is counted of its first and its last
\* date, unless it is about to be dropped, was read before a change and cached
\* after it, or an event of the date was added again and refused by the log.
THEOREM AnalyticsStaleOnlyByRace == Spec => []StaleOnlyByRace
<1> DEFINE Inv == TypeOK /\ \A v \in Views : Presentable(v)
<1>1. Init => Inv
  BY InitialTypes DEF Init, Presentable
<1>2. Inv /\ [Next]_vars => Inv'
  <2> SUFFICES ASSUME Inv, [Next]_vars PROVE Inv'
    OBVIOUS
  <2>1. (\E c \in Consumers : Works(c)) \/ Looks
    BY DEF Next, Works, Looks
  <2>2. \A v \in Views : Presentable(v)'
    BY <2>1, WorkKeepsViews, LooksKeepViews
  <2> QED BY <2>2, TypesKept
<1>3. Inv => StaleOnlyByRace
  BY DEF StaleOnlyByRace, Presentable, Current, Excused, AboutToDrop
<1> QED BY <1>1, <1>2, <1>3, PTL DEF Spec
=============================================================================
