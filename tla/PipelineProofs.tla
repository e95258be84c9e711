----------------------------- MODULE PipelineProofs -----------------------------
(***************************************************************************)
(* Theorems about the ledger service behind the outbox and the topic, for   *)
(* any number of instances, partitions, transfers, copies and faults.       *)
(***************************************************************************)
EXTENDS Pipeline, ConsumerProofs

USE ConsumerConstants, LedgerConstants

\* The steps of an instance of the ledger service.
Works(c) ==
  \/ Step(c) \/ TxFails(c) \/ TxUnacknowledged(c) \/ Die(c)
  \/ \E p \in Partitions : Reassign(p, c)

\* The step that brings an event into the topic, as far as the ledger can tell.
Arrives(p, t) == Produce(p, t) /\ UNCHANGED <<faults, entries, clock, handler, history>>

\* What the ledger sees of a step of the pipeline.
LEMMA LedgerView ==
  ASSUME [PipelineNext]_pipeline
  PROVE  \/ \E c \in Consumers : Works(c)
         \/ \E p \in Partitions, t \in Payloads : Arrives(p, t)
         \/ UNCHANGED vars
<1>1. CASE CommitTransaction
  BY <1>1 DEF CommitTransaction
<1>2. ASSUME NEW t \in Payloads, Publish(t) \/ Settle(t)
      PROVE  (\E p \in Partitions : Arrives(p, t)) \/ UNCHANGED vars
  BY <1>2 DEF Publish, Settle, Arrives
<1>3. CASE Next
  BY <1>3 DEF Next, Works
<1>4. CASE UNCHANGED pipeline
  BY <1>4 DEF pipeline
<1> QED BY <1>1, <1>2, <1>3, <1>4 DEF PipelineNext

-----------------------------------------------------------------------------
(* The latest entry.                                                       *)

HasLatest(S) == S = {} \/ \E e \in S : \A f \in S : f.created <= e.created

\* GetLatestBalance of the entries in S.
LastBalance(S) ==
  IF S = {} THEN 0 ELSE (CHOOSE e \in S : \A f \in S : f.created <= e.created).balance

\* Each wallet's entries have a latest one: the types of the balances need it.
TypeInv == TypeOK /\ \A w \in Wallets : HasLatest(EntriesFor(w))

\* Entries of one transaction leave a set with a latest entry.
LEMMA LatestStays ==
  ASSUME NEW S \in SUBSET Entry, NEW T \in SUBSET Entry, NEW k \in Nat,
         \A e \in T : e.created = k, HasLatest(S)
  PROVE  HasLatest(S \cup T)
<1>1. CASE T = {}
  BY <1>1 DEF HasLatest
<1>2. CASE T # {} /\ S = {}
  BY <1>2 DEF HasLatest
<1>3. CASE T # {} /\ S # {}
  <2>1. PICK e \in S : \A f \in S : f.created <= e.created
    BY <1>3 DEF HasLatest
  <2>2. PICK x \in T : x.created = k
    BY <1>3
  <2>3. \A f \in S : f.created \in Nat
    BY DEF Entry
  <2>4. CASE e.created <= k
    <3>1. \A f \in S \cup T : f.created <= x.created
      BY <2>1, <2>2, <2>3, <2>4
    <3> QED BY <3>1 DEF HasLatest
  <2>5. CASE ~(e.created <= k)
    <3>1. \A f \in S \cup T : f.created <= e.created
      BY <2>1, <2>3, <2>5
    <3> QED BY <3>1 DEF HasLatest
  <2> QED BY <2>4, <2>5
<1> QED BY <1>1, <1>2, <1>3

\* The balance that is read is that of an entry, or zero.
LEMMA LatestIsInt ==
  ASSUME TypeInv, NEW w \in Wallets
  PROVE  GetLatestBalance(w) \in Int /\ GetLatestBalance(w) = LastBalance(EntriesFor(w))
<1> DEFINE S == EntriesFor(w)
<1>1. GetLatestBalance(w) = LastBalance(S)
  BY DEF GetLatestBalance, LastBalance
<1>2. S \in SUBSET Entry /\ HasLatest(S)
  BY DEF TypeInv, TypeOK, EntriesFor
<1> HIDE DEF S
<1>3. LastBalance(S) \in Int
  <2>1. CASE S = {}
    BY <2>1 DEF LastBalance
  <2>2. CASE S # {}
    <3> DEFINE e == CHOOSE x \in S : \A f \in S : f.created <= x.created
    <3>1. e \in S
      BY <1>2, <2>2 DEF HasLatest
    <3>2. LastBalance(S) = e.balance
      BY <2>2 DEF LastBalance
    <3> HIDE DEF e
    <3> QED BY <1>2, <3>1, <3>2 DEF Entry
  <2> QED BY <2>1, <2>2
<1> QED BY <1>1, <1>3 DEF S

-----------------------------------------------------------------------------
(* Types.                                                                  *)

Labels == {"idle", "check", "begin", "from", "to", "insert", "ack"}

\* An instance that is not idle is at a message, and its payload a transfer.
LEMMA Busy ==
  ASSUME TypeOK, NEW c \in Consumers, pc[c] # "idle"
  PROVE  /\ msg[c] \in Messages /\ msg[c] # NoMessage /\ Txn(c) \in Payloads
         /\ From[Txn(c)] \in Wallets /\ To[Txn(c)] \in Wallets
         /\ Amount[Txn(c)] \in Nat
<1>1. msg[c] \in Messages /\ msg[c] # NoMessage /\ Txn(c) \in Payloads
  BY MessageFacts DEF TypeOK, ConsumerTypeOK, Txn
<1> QED BY <1>1

\* What an instance does to itself when its handler has failed.
LEMMA RefuseStep ==
  ASSUME TypeOK, NEW c \in Consumers, pc[c] # "idle", Refuse(c)
  PROVE  /\ GroupStep(c) /\ HandlerFailed(c) /\ msg[c] \in Messages
         /\ pc' = [pc EXCEPT ![c] = "idle"] /\ msg' = [msg EXCEPT ![c] = NoMessage]
         /\ began' = [began EXCEPT ![c] = 0]
         /\ fromBalance' = [fromBalance EXCEPT ![c] = 0]
         /\ toBalance' = [toBalance EXCEPT ![c] = 0]
         /\ failed' = failed \cup {msg[c]} /\ UNCHANGED <<clock, blind, overlap>>
BY Busy DEF Refuse, HandlerFailed, Goto, GroupStep, Forget

\* The steps that insert, whether or not the handler hears of it.
Inserts(c) == CreateLedgerEntries(c) \/ TxUnacknowledged(c)

\* What they have in common.
LEMMA InsertStep ==
  ASSUME TypeOK, NEW c \in Consumers, Inserts(c)
  PROVE  /\ pc[c] = "insert" /\ \E l \in {"ack", "idle"} : pc' = [pc EXCEPT ![c] = l]
         /\ entries' = entries \cup {Debit(c), Credit(c)}
         /\ began' = [began EXCEPT ![c] = 0] /\ UNCHANGED <<clock, blind, overlap>>
<1>1. CASE CreateLedgerEntries(c)
  BY <1>1 DEF CreateLedgerEntries, Insert, Goto, Forget, history
<1>2. CASE TxUnacknowledged(c)
  BY <1>2 DEF TxUnacknowledged, Insert, Refuse, Goto, Forget
<1> QED BY <1>1, <1>2 DEF Inserts

\* A step of an instance is one of the group's and moves this instance only, and
\* the instance is idle exactly if it has no message.
LEMMA WorkMoves ==
  ASSUME TypeOK, NEW c \in Consumers, Works(c)
  PROVE  /\ GroupStep(c) /\ Faulty
         /\ \A d \in Consumers \ {c} : pc'[d] = pc[d] /\ msg'[d] = msg[d]
         /\ pc'[c] \in Labels /\ (pc'[c] = "idle" <=> msg'[c] = NoMessage)
         /\ pc' = [d \in Consumers |-> pc'[d]]
<1> USE DEF Goto, Labels
<1>1. /\ pc \in [Consumers -> Labels]
      /\ msg \in [Consumers -> Messages \cup {NoMessage}]
      /\ \A d \in Consumers : pc[d] = "idle" <=> msg[d] = NoMessage
      /\ next \in [Partitions -> Nat]
  BY DEF TypeOK, ConsumerTypeOK
<1>m. /\ NoMessage \notin Messages
      /\ \A p \in Partitions, i \in Nat : <<p, i>> # NoMessage
  BY MessageFacts DEF TypeOK
<1>2. CASE Fetch(c)
  <2> PICK p \in Partitions : msg' = [msg EXCEPT ![c] = <<p, next[p]>>]
    BY <1>2 DEF Fetch, FetchMessage
  <2> QED BY <1>1, <1>m, <1>2 DEF Fetch, GroupStep, Faulty, FetchMessage
<1>3. CASE RefuseBatch(c) \/ TxFails(c) \/ TxUnacknowledged(c)
  <2>1. Refuse(c) /\ pc[c] # "idle" /\ Faulty
    BY <1>3 DEF RefuseBatch, TxFails, TxUnacknowledged, Faulty
  <2> QED BY <1>1, <1>m, <2>1, RefuseStep
<1>4. CASE GetEntriesByTransaction(c) \/ BeginTx(c) \/ ReadFrom(c) \/ ReadTo(c)
  <2>1. /\ UNCHANGED consumer /\ Faulty /\ pc[c] # "idle"
        /\ \E l \in Labels \ {"idle"} : pc' = [pc EXCEPT ![c] = l]
    BY <1>4 DEF GetEntriesByTransaction, BeginTx, ReadFrom, ReadTo, Reads, Misreads, Faulty
  <2> QED BY <1>1, <1>m, <2>1 DEF GroupStep, consumer
<1>5. CASE CreateLedgerEntries(c)
  BY <1>1, <1>m, <1>5 DEF CreateLedgerEntries, GroupStep, Faulty, consumer
<1>6. CASE Ack(c)
  BY <1>1, <1>m, <1>6 DEF Ack, GroupStep, Faulty, CommitMessage
<1>7. CASE Flush(c)
  BY <1>1, <1>m, <1>7 DEF Flush, GroupStep, Faulty, FlushCommits, handler
<1>8. CASE Die(c)
  BY <1>1, <1>m, <1>8 DEF Die, GroupStep, Faulty, Crash
<1>9. CASE \E p \in Partitions : Reassign(p, c)
  BY ZenonT(60), <1>1, <1>m, <1>9 DEF Reassign, GroupStep, Faulty, Rebalance, handler
<1> QED BY <1>2, <1>3, <1>4, <1>5, <1>6, <1>7, <1>8, <1>9 DEF Works, Step

\* What it has read changes with its own steps only.
LEMMA WorkReads ==
  ASSUME TypeInv, NEW c \in Consumers, Works(c)
  PROVE  /\ began' \in [Consumers -> Nat] /\ clock' \in {clock, clock + 1}
         /\ fromBalance' \in [Consumers -> Int] /\ toBalance' \in [Consumers -> Int]
         /\ \A d \in Consumers \ {c} : /\ began'[d] = began[d]
                                      /\ fromBalance'[d] = fromBalance[d]
                                      /\ toBalance'[d] = toBalance[d]
<1>1. /\ began \in [Consumers -> Nat] /\ clock \in Nat
      /\ fromBalance \in [Consumers -> Int] /\ toBalance \in [Consumers -> Int]
      /\ TypeOK
  BY DEF TypeInv, TypeOK
<1>2. CASE RefuseBatch(c) \/ TxFails(c) \/ TxUnacknowledged(c)
  <2>1. Refuse(c)
    BY <1>2 DEF RefuseBatch, TxFails, TxUnacknowledged
  <2> QED BY <1>1, <2>1 DEF Refuse, Forget
<1>3. CASE BeginTx(c)
  <2>1. began' = [began EXCEPT ![c] = clock + 1] /\ clock' = clock + 1
    BY <1>3 DEF BeginTx
  <2> QED BY <1>1, <1>3, <2>1 DEF BeginTx
<1>4. CASE ReadFrom(c)
  <2>1. GetLatestBalance(From[Txn(c)]) \in Int
    BY <1>1, <1>4, Busy, LatestIsInt DEF ReadFrom
  <2>2. \E b \in Int : fromBalance' = [fromBalance EXCEPT ![c] = b]
    BY <1>4, <2>1 DEF ReadFrom
  <2> QED BY <1>1, <1>4, <2>2 DEF ReadFrom
<1>5. CASE ReadTo(c)
  <2>1. GetLatestBalance(To[Txn(c)]) \in Int
    BY <1>1, <1>5, Busy, LatestIsInt DEF ReadTo
  <2>2. \E b \in Int : toBalance' = [toBalance EXCEPT ![c] = b]
    BY <1>5, <2>1 DEF ReadTo
  <2> QED BY <1>1, <1>5, <2>2 DEF ReadTo
<1>6. CASE CreateLedgerEntries(c) \/ Die(c)
  <2>1. /\ began' = [began EXCEPT ![c] = 0] /\ clock' = clock
        /\ fromBalance' = [fromBalance EXCEPT ![c] = 0]
        /\ toBalance' = [toBalance EXCEPT ![c] = 0]
    BY <1>6 DEF CreateLedgerEntries, Die, Forget
  <2> QED BY <1>1, <2>1
<1>7. CASE \/ Fetch(c) \/ GetEntriesByTransaction(c) \/ Ack(c) \/ Flush(c)
           \/ \E p \in Partitions : Reassign(p, c)
  <2>1. UNCHANGED <<began, fromBalance, toBalance, clock>>
    BY <1>7 DEF Fetch, GetEntriesByTransaction, Ack, Flush, Reassign, handler
  <2> QED BY <1>1, <2>1
<1> QED BY <1>2, <1>3, <1>4, <1>5, <1>6, <1>7 DEF Works, Step

\* What has happened stays so, and only those steps insert.
LEMMA WorkHistory ==
  ASSUME TypeOK, NEW c \in Consumers, Works(c)
  PROVE  /\ blind' \in BOOLEAN /\ overlap' \in BOOLEAN /\ (overlap => overlap') /\ (blind => blind')
         /\ failed \subseteq failed' /\ failed' \subseteq failed \cup {msg[c]}
         /\ failed' # failed => msg[c] \in Messages
         /\ entries' = entries \/ Inserts(c)
<1>1. blind \in BOOLEAN /\ overlap \in BOOLEAN
  BY DEF TypeOK
<1>2. CASE RefuseBatch(c) \/ TxFails(c) \/ TxUnacknowledged(c)
  <2>1. Refuse(c) /\ pc[c] # "idle"
    BY <1>2 DEF RefuseBatch, TxFails, TxUnacknowledged
  <2>2. entries' = entries \/ Inserts(c)
    BY <1>2 DEF RefuseBatch, TxFails, Inserts
  <2> QED BY <1>1, <2>1, <2>2, RefuseStep
<1>3. CASE GetEntriesByTransaction(c) \/ ReadFrom(c) \/ ReadTo(c)
  BY <1>1, <1>3 DEF GetEntriesByTransaction, ReadFrom, ReadTo, Reads, Misreads
<1>4. CASE BeginTx(c)
  BY <1>1, <1>4 DEF BeginTx
<1>5. CASE \/ Fetch(c) \/ Ack(c) \/ Flush(c) \/ Die(c)
           \/ \E p \in Partitions : Reassign(p, c)
  BY <1>1, <1>5 DEF Fetch, Ack, Flush, Die, Reassign, history
<1>6. CASE CreateLedgerEntries(c)
  BY <1>1, <1>6 DEF CreateLedgerEntries, Inserts, history
<1> QED BY <1>2, <1>3, <1>4, <1>5, <1>6 DEF Works, Step

\* The two rows that are inserted are entries of the instance's transaction.
LEMMA RowsAreEntries ==
  ASSUME TypeOK, NEW c \in Consumers, pc[c] # "idle"
  PROVE  /\ Debit(c) \in Entry /\ Credit(c) \in Entry /\ began[c] \in Nat
         /\ Debit(c).created = began[c] /\ Credit(c).created = began[c]
         /\ Debit(c).txn = Txn(c) /\ Credit(c).txn = Txn(c)
         /\ Debit(c).type = "debit" /\ Credit(c).type = "credit"
<1>1. /\ Txn(c) \in Payloads /\ From[Txn(c)] \in Wallets /\ To[Txn(c)] \in Wallets
      /\ Amount[Txn(c)] \in Nat
  BY Busy
<1>2. began[c] \in Nat /\ fromBalance[c] \in Int /\ toBalance[c] \in Int
  BY DEF TypeOK
<1>3. fromBalance[c] - Amount[Txn(c)] \in Int /\ toBalance[c] + Amount[Txn(c)] \in Int
  BY <1>1, <1>2
<1> HIDE DEF Txn
<1> QED BY <1>1, <1>2, <1>3 DEF Debit, Credit, Entry

\* A step keeps the types and a latest entry of each wallet.
LEMMA TypesKept ==
  ASSUME TypeInv, [PipelineNext]_pipeline
  PROVE  TypeInv'
<1>1. TypeOK /\ ConsumerTypeOK
  BY DEF TypeInv, TypeOK
<1>2. ASSUME NEW c \in Consumers, Works(c) PROVE TypeInv'
  <2>1. ConsumerTypeOK' /\ Messages' = Messages
    BY <1>1, <1>2, WorkMoves, GroupStepTypes
  <2>2. /\ pc' \in [Consumers -> Labels]
        /\ \A d \in Consumers : pc'[d] = "idle" <=> msg'[d] = NoMessage
    <3>1. \A d \in Consumers : pc[d] \in Labels /\ (pc[d] = "idle" <=> msg[d] = NoMessage)
      BY <1>1 DEF TypeOK, Labels
    <3>2. \A d \in Consumers : pc'[d] \in Labels /\ (pc'[d] = "idle" <=> msg'[d] = NoMessage)
      BY <1>1, <1>2, <3>1, WorkMoves
    <3>3. pc' = [d \in Consumers |-> pc'[d]]
      BY <1>1, <1>2, WorkMoves
    <3>4. pc' \in [Consumers -> Labels]
      BY <3>2, <3>3
    <3> QED BY <3>2, <3>4
  <2>3. /\ began' \in [Consumers -> Nat] /\ fromBalance' \in [Consumers -> Int]
        /\ toBalance' \in [Consumers -> Int] /\ clock' \in Nat
    <3>1. clock \in Nat
      BY <1>1 DEF TypeOK
    <3>2. clock' \in {clock, clock + 1}
      BY <1>2, WorkReads
    <3> QED BY <1>2, <3>1, <3>2, WorkReads
  <2>4. blind' \in BOOLEAN /\ overlap' \in BOOLEAN /\ failed' \subseteq Messages
    <3>1. failed \subseteq Messages
      BY <1>1 DEF TypeOK
    <3> QED BY <1>1, <1>2, <3>1, WorkHistory
  <2>5. entries' \subseteq Entry /\ \A w \in Wallets : HasLatest(EntriesFor(w))'
    <3>1. entries \subseteq Entry /\ \A w \in Wallets : HasLatest(EntriesFor(w))
      BY DEF TypeInv, TypeOK
    <3>2. CASE entries' = entries
      BY <3>1, <3>2 DEF EntriesFor
    <3>3. CASE Inserts(c)
      <4>1. entries' = entries \cup {Debit(c), Credit(c)} /\ pc[c] # "idle"
        BY <1>1, <3>3, InsertStep
      <4>2. /\ Debit(c) \in Entry /\ Credit(c) \in Entry /\ began[c] \in Nat
            /\ Debit(c).created = began[c] /\ Credit(c).created = began[c]
        BY <1>1, <4>1, RowsAreEntries
      <4>3. ASSUME NEW w \in Wallets PROVE HasLatest(EntriesFor(w))'
        <5> DEFINE S == EntriesFor(w)  T == {x \in {Debit(c), Credit(c)} : x.wallet = w}
        <5>1. EntriesFor(w)' = S \cup T
          BY <4>1 DEF EntriesFor
        <5>2. /\ S \in SUBSET Entry /\ T \in SUBSET Entry /\ HasLatest(S)
              /\ \A e \in T : e.created = began[c]
          BY <3>1, <4>2 DEF EntriesFor
        <5> HIDE DEF S, T
        <5>3. HasLatest(S \cup T)
          BY <4>2, <5>2, LatestStays
        <5>4. HasLatest(EntriesFor(w))' <=> HasLatest(S \cup T)
          BY <5>1 DEF HasLatest
        <5> QED BY <5>3, <5>4
      <4> QED BY <3>1, <4>1, <4>2, <4>3
    <3> QED BY <1>1, <1>2, <3>2, <3>3, WorkHistory
  <2> QED BY <2>1, <2>2, <2>3, <2>4, <2>5 DEF TypeInv, TypeOK, Labels
<1>3. ASSUME NEW p \in Partitions, NEW t \in Payloads, Arrives(p, t) PROVE TypeInv'
  <2>1. /\ UNCHANGED <<faults, entries, clock, handler, history>> /\ Produce(p, t)
        /\ msg' = msg
    BY <1>3 DEF Arrives, Produce
  <2>2. ConsumerTypeOK' /\ Messages \subseteq Messages'
    BY <1>1, <2>1, ProduceTypes
  <2>3. TypeOK'
    BY <1>1, <2>1, <2>2 DEF TypeOK, handler, history
  <2>4. \A w \in Wallets : HasLatest(EntriesFor(w))'
    BY <2>1 DEF TypeInv, EntriesFor
  <2> QED BY <2>3, <2>4 DEF TypeInv
<1>4. CASE UNCHANGED vars
  <2>1. /\ UNCHANGED <<faults, entries, clock, handler, history>> /\ UNCHANGED consumer
    BY <1>4 DEF vars
  <2>2. ConsumerTypeOK' /\ Messages' = Messages
    <3>1. GroupStep(CHOOSE c \in Consumers : TRUE) /\ Faulty
      BY <2>1 DEF GroupStep, Faulty
    <3>2. (CHOOSE c \in Consumers : TRUE) \in Consumers
      OBVIOUS
    <3> QED BY <1>1, <3>1, <3>2, GroupStepTypes
  <2>3. TypeOK'
    BY <1>1, <2>1, <2>2 DEF TypeOK, handler, history, consumer
  <2>4. \A w \in Wallets : HasLatest(EntriesFor(w))'
    BY <2>1 DEF TypeInv, EntriesFor
  <2> QED BY <2>3, <2>4 DEF TypeInv
<1> QED BY <1>2, <1>3, <1>4, LedgerView

\* The types hold at the start.
LEMMA InitialTypes ==
  ASSUME PipelineInit
  PROVE  TypeInv
<1>1. ConsumerTypeOK
  BY ConsumerInitTypes DEF PipelineInit, Init
<1>2. \A c \in Consumers : pc[c] = "idle" /\ msg[c] = NoMessage
  BY DEF PipelineInit, Init, ConsumerInit
<1>3. \A w : EntriesFor(w) = {}
  BY DEF PipelineInit, Init, EntriesFor
<1>4. /\ entries = {} /\ clock = 0 /\ failed = {} /\ blind = FALSE /\ overlap = FALSE
      /\ pc \in [Consumers -> Labels] /\ began \in [Consumers -> Nat]
      /\ fromBalance \in [Consumers -> Int] /\ toBalance \in [Consumers -> Int]
  BY DEF PipelineInit, Init, Labels
<1>5. TypeOK
  BY <1>1, <1>2, <1>4 DEF TypeOK, Labels
<1> QED BY <1>3, <1>5 DEF TypeInv, HasLatest

\* Every reachable state has the types of the group, the ledger and its handlers.
THEOREM LedgerTypeCorrect == PipelineSpec => []TypeOK
<1>1. PipelineInit => TypeInv
  BY InitialTypes
<1>2. TypeInv /\ [PipelineNext]_pipeline => TypeInv'
  BY TypesKept
<1>3. TypeInv => TypeOK
  BY DEF TypeInv
<1> QED BY <1>1, <1>2, <1>3, PTL DEF PipelineSpec

-----------------------------------------------------------------------------
(* No message is skipped.                                                  *)

\* The messages whose transaction is in the ledger, or whose handler failed.
Dealt == {m \in Messages : Recorded(m) \/ m \in failed}

\* What Kafka's offset has passed has been dealt with, since what is asked to be
\* committed has, and what lies behind the position of an owner, but for the
\* message it is at; and a handler that succeeds has found entries or made them.
SkipInv ==
  /\ TypeInv
  /\ Passed(Dealt)
  /\ \A c \in Consumers : pc[c] = "ack" => Recorded(msg[c])

\* A step of an instance asks only for the commit of a message that is dealt with.
LEMMA DoneIsDealt ==
  ASSUME SkipInv, NEW c \in Consumers, Works(c)
  PROVE  /\ Dealt \subseteq Dealt'
         /\ CommitMessage(c) \/ HandlerFailed(c) => msg[c] \in Dealt' \cup {NoMessage} \/ Crash(c)
         /\ \A d \in Consumers : pc'[d] = "ack" => Recorded(msg[d])'
<1>1. TypeInv /\ TypeOK /\ ConsumerTypeOK
  BY DEF SkipInv, TypeInv, TypeOK
<1>2. topic' = topic /\ Messages' = Messages
  BY <1>1, WorkMoves, GroupStepTypes
<1>3. entries \subseteq entries' /\ failed \subseteq failed'
  BY <1>1, WorkHistory, InsertStep
<1>4. \A m : Recorded(m) => Recorded(m)'
  BY <1>2, <1>3 DEF Recorded, EntriesOf, Payload
<1>5. Dealt \subseteq Dealt'
  BY <1>2, <1>3, <1>4 DEF Dealt
<1>6. /\ pc \in [Consumers -> Labels]
      /\ msg \in [Consumers -> Messages \cup {NoMessage}]
      /\ \A d \in Consumers : pc[d] = "ack" => Recorded(msg[d])
  BY <1>1 DEF SkipInv, TypeOK, Labels, ConsumerTypeOK
<1>7. CommitMessage(c) \/ HandlerFailed(c) => msg[c] \in Dealt' \cup {NoMessage} \/ Crash(c)
  <2>1. CASE RefuseBatch(c) \/ TxFails(c) \/ TxUnacknowledged(c)
    <3>1. Refuse(c) /\ pc[c] # "idle"
      BY <2>1 DEF RefuseBatch, TxFails, TxUnacknowledged
    <3>2. msg[c] \in failed' /\ msg[c] \in Messages
      BY <1>1, <3>1, RefuseStep
    <3> QED BY <1>2, <3>2 DEF Dealt
  <2>2. CASE Ack(c)
    <3>1. msg[c] \in Messages /\ Recorded(msg[c])
      BY <1>1, <1>6, <2>2, Busy DEF Ack
    <3> QED BY <1>5, <3>1 DEF Dealt
  <2>3. CASE Die(c)
    BY <2>3 DEF Die
  <2>4. CASE Fetch(c)
    BY <2>4 DEF Fetch, FetchMessage
  <2>5. CASE ~RefuseBatch(c) /\ ~TxFails(c) /\ ~TxUnacknowledged(c) /\ ~Ack(c) /\ ~Die(c) /\ ~Fetch(c)
    <3>1. msg' = msg
      BY <2>5 DEF Works, Step, GetEntriesByTransaction, BeginTx, ReadFrom, ReadTo,
                  CreateLedgerEntries, Flush, FlushCommits, Reassign, Rebalance, consumer
    <3>2. CommitMessage(c) \/ HandlerFailed(c) => msg[c] = NoMessage
      BY <1>6, <3>1 DEF CommitMessage, HandlerFailed
    <3> QED BY <3>2
  <2> QED BY <2>1, <2>2, <2>3, <2>4, <2>5
<1>8. ASSUME NEW d \in Consumers, pc'[d] = "ack" PROVE Recorded(msg[d])'
  <2>1. CASE pc[d] = "ack" /\ msg'[d] = msg[d]
    BY <1>4, <1>6, <2>1 DEF Recorded, Payload
  <2>2. CASE d # c
    BY <1>1, <1>8, <2>1, <2>2, WorkMoves
  <2>3. CASE d = c /\ GetEntriesByTransaction(c)
    <3>1. EntriesOf(Txn(c)) # {} /\ msg' = msg
      BY <1>6, <1>8, <2>3 DEF GetEntriesByTransaction, Goto, consumer
    <3> QED BY <1>4, <2>3, <3>1 DEF Recorded, Txn, Payload
  <2>4. CASE d = c /\ CreateLedgerEntries(c)
    <3>1. Debit(c) \in entries' /\ Debit(c).txn = Txn(c) /\ msg' = msg
      BY <2>4 DEF CreateLedgerEntries, Insert, Debit, consumer
    <3> QED BY <1>2, <2>4, <3>1 DEF Recorded, EntriesOf, Txn, Payload
  <2>5. CASE d = c /\ ~GetEntriesByTransaction(c) /\ ~CreateLedgerEntries(c)
    <3>1. pc'[c] = pc[c] /\ msg'[c] = msg[c]
      BY <1>6, <1>8, <2>5 DEF Works, Step, TxFails, TxUnacknowledged, Die, Fetch, RefuseBatch, Refuse, BeginTx, ReadFrom,
         ReadTo, Ack, Flush, FlushCommits, Reassign, Rebalance, Goto, handler
    <3> QED BY <1>8, <2>1, <2>5, <3>1
  <2> QED BY <2>2, <2>3, <2>4, <2>5
<1> QED BY <1>5, <1>7, <1>8

\* The invariant is inductive.
LEMMA SkipInvKept ==
  ASSUME SkipInv, [PipelineNext]_pipeline
  PROVE  SkipInv'
<1>1. TypeInv /\ ConsumerTypeOK /\ TypeInv'
  BY TypesKept DEF SkipInv, TypeInv, TypeOK
<1>2. ASSUME NEW c \in Consumers, Works(c) PROVE SkipInv'
  <2> PICK S : S = Dealt
    OBVIOUS
  <2> PICK T : T = Dealt'
    OBVIOUS
  <2>1. Passed(S) /\ S \subseteq T /\ DoneOnlyIn(T, c)
    BY <1>2, DoneIsDealt DEF SkipInv, DoneOnlyIn
  <2>2. GroupStep(c)
    BY <1>1, <1>2, WorkMoves DEF TypeInv
  <2>3. Passed(T)'
    BY <1>1, <2>1, <2>2, PassedKept
  <2>4. Passed(Dealt)'
    BY <2>3 DEF Passed
  <2> QED BY <1>1, <1>2, <2>4, DoneIsDealt DEF SkipInv
<1>3. ASSUME UNCHANGED <<owner, next, asked, committed, msg, entries, handler, history>>,
             Messages \subseteq Messages', \A m \in Messages : Payload(m)' = Payload(m)
      PROVE  SkipInv'
  <2>1. \A m \in Messages : Recorded(m) => Recorded(m)'
    BY <1>3 DEF Recorded, EntriesOf
  <2>2. Dealt \subseteq Dealt'
    BY <1>3, <2>1 DEF Dealt, history
  <2>3. Passed(Dealt)'
    BY <1>3, <2>2 DEF SkipInv, Passed
  <2>4. \A c \in Consumers : pc'[c] = "ack" => Recorded(msg[c])'
    <3> SUFFICES ASSUME NEW c \in Consumers, pc'[c] = "ack" PROVE Recorded(msg[c])'
      OBVIOUS
    <3>1. pc[c] = "ack" /\ msg'[c] = msg[c]
      BY <1>3 DEF handler
    <3>2. msg[c] \in Messages /\ Recorded(msg[c])
      BY <1>1, <3>1, Busy DEF SkipInv, TypeInv
    <3>3. Payload(msg[c])' = Payload(msg[c])
      BY <1>3, <3>2 DEF Payload
    <3> QED BY <1>3, <3>2, <3>3 DEF Recorded, EntriesOf
  <2> QED BY <1>1, <2>3, <2>4 DEF SkipInv
<1>4. ASSUME NEW p \in Partitions, NEW t \in Payloads, Arrives(p, t) PROVE SkipInv'
  BY <1>1, <1>3, <1>4, ProduceTypes DEF Arrives, Produce
<1>5. CASE UNCHANGED vars
  BY <1>3, <1>5 DEF vars, consumer, Messages, Offsets, Payload
<1> QED BY <1>2, <1>4, <1>5, LedgerView

\* Kafka's offset passes a message only if its transaction is in the ledger or its
\* handler failed, whatever crashes, rebalances and is delivered again.
THEOREM LedgerSkipsOnlyFailed == PipelineSpec => []SkippedOnlyIfFailed
<1>1. PipelineInit => SkipInv
  <2> SUFFICES ASSUME PipelineInit PROVE SkipInv
    OBVIOUS
  <2>1. /\ next = [p \in Partitions |-> 1] /\ committed = [p \in Partitions |-> 0]
        /\ asked = [c \in Consumers |-> [p \in Partitions |-> 0]]
        /\ \A c \in Consumers : msg[c] = NoMessage /\ pc[c] = "idle"
    BY DEF PipelineInit, Init, ConsumerInit
  <2>2. Passed(Dealt)
    BY <2>1 DEF Passed
  <2> QED BY <2>1, <2>2, InitialTypes DEF SkipInv
<1>2. SkipInv /\ [PipelineNext]_pipeline => SkipInv'
  BY SkipInvKept
<1>3. SkipInv => SkippedOnlyIfFailed
  <2> SUFFICES ASSUME SkipInv, NEW m \in Messages, m[2] <= committed[m[1]]
               PROVE  Recorded(m) \/ m \in failed
    BY DEF SkippedOnlyIfFailed
  <2>1. m[1] \in Partitions /\ m[2] \in Nat \ {0} /\ m = <<m[1], m[2]>>
    BY MessageFacts DEF SkipInv, TypeInv, TypeOK
  <2>2. <<m[1], m[2]>> \in Dealt
    BY <2>1 DEF SkipInv, Passed
  <2> QED BY <2>1, <2>2 DEF Dealt
<1> QED BY <1>1, <1>2, <1>3, PTL DEF PipelineSpec

-----------------------------------------------------------------------------
(* When the transactions begin.                                            *)

\* Every transaction of the ledger has a begin of its own, and none is ahead of
\* the clock.
BeginsApart ==
  /\ \A e \in entries : e.created <= clock
  /\ \A c \in Consumers : pc[c] \in InTx =>
       /\ began[c] <= clock
       /\ \A e \in entries : e.created # began[c]
  /\ \A c, d \in Consumers : pc[c] \in InTx /\ pc[d] \in InTx /\ began[c] = began[d] => c = d

\* As long as no two were open at once, an open one is alone and the latest.
AloneInTx ==
  ~overlap => /\ \A c, d \in Consumers : pc[c] \in InTx /\ pc[d] \in InTx => c = d
              /\ \A c \in Consumers : pc[c] \in InTx =>
                   began[c] = clock /\ \A e \in entries : e.created < clock

BeginInv == TypeInv /\ BeginsApart /\ AloneInTx

\* Both stay so when nothing is inserted and no transaction begins.
LEMMA NoBegin ==
  ASSUME BeginInv, UNCHANGED <<entries, clock, overlap>>,
         \A d \in Consumers : pc'[d] \in InTx => pc[d] \in InTx /\ began'[d] = began[d]
  PROVE  BeginsApart' /\ AloneInTx'
BY DEF BeginInv, BeginsApart, AloneInTx

\* A step of an instance that is neither a begin nor an insertion.
LEMMA NeitherBeginNorInsert ==
  ASSUME TypeInv, NEW c \in Consumers, Works(c), ~BeginTx(c), ~Inserts(c)
  PROVE  /\ UNCHANGED <<entries, clock, overlap>>
         /\ \A d \in Consumers : pc'[d] \in InTx =>
              /\ pc[d] \in InTx /\ began'[d] = began[d] /\ msg'[d] = msg[d]
<1>1. /\ pc \in [Consumers -> Labels] /\ TypeOK
  BY DEF TypeInv, TypeOK, Labels
<1>2. UNCHANGED <<entries, clock, overlap>>
  BY DEF Works, Step, TxFails, Die, Fetch, RefuseBatch, Refuse, GetEntriesByTransaction, ReadFrom,
         ReadTo, Ack, Flush, Reassign, Inserts, history
<1>3. pc'[c] \in InTx => pc[c] \in InTx /\ began'[c] = began[c] /\ msg'[c] = msg[c]
  <2>1. CASE \/ Fetch(c) \/ RefuseBatch(c) \/ TxFails(c) \/ GetEntriesByTransaction(c)
             \/ Ack(c) \/ Die(c)
    <3>1. \E l \in {"check", "idle", "begin", "ack"} : pc' = [pc EXCEPT ![c] = l]
      BY <2>1 DEF Fetch, RefuseBatch, TxFails, Refuse, GetEntriesByTransaction, Ack, Die, Goto
    <3> QED BY <1>1, <3>1 DEF InTx
  <2>2. CASE ReadFrom(c) \/ ReadTo(c)
    BY <2>2 DEF ReadFrom, ReadTo, InTx, consumer
  <2>3. CASE Flush(c) \/ \E p \in Partitions : Reassign(p, c)
    BY <2>3 DEF Flush, FlushCommits, Reassign, Rebalance, handler
  <2> QED BY <2>1, <2>2, <2>3 DEF Works, Step, Inserts
<1>4. \A d \in Consumers \ {c} : pc'[d] = pc[d] /\ began'[d] = began[d] /\ msg'[d] = msg[d]
  BY <1>1, WorkMoves, WorkReads
<1> QED BY <1>2, <1>3, <1>4

\* A step keeps the begins apart.
LEMMA BeginInvKept ==
  ASSUME BeginInv, [PipelineNext]_pipeline
  PROVE  BeginInv'
<1>1. TypeInv /\ TypeOK /\ TypeInv'
  BY TypesKept DEF BeginInv, TypeInv
<1>2. /\ pc \in [Consumers -> Labels] /\ began \in [Consumers -> Nat] /\ clock \in Nat
      /\ \A e \in entries : e.created \in Nat
  BY <1>1 DEF TypeOK, Labels, Entry
<1>3. ASSUME NEW c \in Consumers, BeginTx(c) PROVE BeginsApart' /\ AloneInTx'
  <2>1. /\ clock' = clock + 1 /\ began' = [began EXCEPT ![c] = clock + 1] /\ entries' = entries
        /\ overlap' = (overlap \/ \E d \in Consumers : pc[d] \in InTx)
        /\ pc' = [pc EXCEPT ![c] = "from"]
    BY <1>3 DEF BeginTx, Goto
  <2>2. /\ pc'[c] \in InTx /\ began'[c] = clock + 1
        /\ \A d \in Consumers \ {c} : pc'[d] = pc[d] /\ began'[d] = began[d]
    BY <1>2, <2>1 DEF InTx
  <2>3. /\ \A e \in entries : e.created <= clock
        /\ \A d \in Consumers : pc[d] \in InTx =>
             began[d] <= clock /\ \A e \in entries : e.created # began[d]
        /\ \A d, f \in Consumers : pc[d] \in InTx /\ pc[f] \in InTx /\ began[d] = began[f] => d = f
    BY DEF BeginInv, BeginsApart
  <2>4. \A e \in entries : e.created <= clock + 1 /\ e.created # clock + 1 /\ e.created < clock + 1
    BY <1>2, <2>3
  <2>5. \A d \in Consumers \ {c} : pc'[d] \in InTx =>
          /\ began'[d] <= clock + 1 /\ began'[d] # clock + 1
          /\ \A e \in entries : e.created # began'[d]
    <3> SUFFICES ASSUME NEW d \in Consumers \ {c}, pc'[d] \in InTx
                 PROVE  /\ began'[d] <= clock + 1 /\ began'[d] # clock + 1
                        /\ \A e \in entries : e.created # began'[d]
      OBVIOUS
    <3>1. /\ began'[d] \in Nat /\ began'[d] <= clock /\ \A e \in entries : e.created # began'[d]
      BY <1>2, <2>2, <2>3
    <3> QED BY <1>2, <3>1
  <2>6. BeginsApart'
    BY <1>2, <2>1, <2>2, <2>3, <2>4, <2>5 DEF BeginsApart
  <2>7. AloneInTx'
    BY <2>1, <2>2, <2>4 DEF AloneInTx
  <2> QED BY <2>6, <2>7
<1>4. ASSUME NEW c \in Consumers, Inserts(c) PROVE BeginsApart' /\ AloneInTx'
  <2>1. /\ entries' = entries \cup {Debit(c), Credit(c)} /\ pc[c] = "insert"
        /\ \E l \in {"ack", "idle"} : pc' = [pc EXCEPT ![c] = l]
        /\ began' = [began EXCEPT ![c] = 0]
        /\ clock' = clock /\ overlap' = overlap
    BY <1>1, <1>4, InsertStep
  <2>2. /\ pc[c] \in InTx /\ pc'[c] \notin InTx
        /\ \A d \in Consumers \ {c} : pc'[d] = pc[d] /\ began'[d] = began[d]
    BY <1>2, <2>1 DEF InTx
  <2>3. Debit(c).created = began[c] /\ Credit(c).created = began[c]
    BY DEF Debit, Credit
  <2>4. \A e \in entries' : e \in entries \/ e.created = began[c]
    BY <2>1, <2>3
  <2>5. BeginsApart'
    <3>1. \A e \in entries' : e.created <= clock'
      BY <2>1, <2>2, <2>4 DEF BeginInv, BeginsApart
    <3>2. \A d \in Consumers : pc'[d] \in InTx =>
            began'[d] <= clock' /\ \A e \in entries' : e.created # began'[d]
      BY <2>1, <2>2, <2>4 DEF BeginInv, BeginsApart
    <3>3. \A d, f \in Consumers : pc'[d] \in InTx /\ pc'[f] \in InTx /\ began'[d] = began'[f] => d = f
      BY <2>2 DEF BeginInv, BeginsApart
    <3> QED BY <3>1, <3>2, <3>3 DEF BeginsApart
  <2>6. AloneInTx'
    BY <2>1, <2>2 DEF BeginInv, AloneInTx
  <2> QED BY <2>5, <2>6
<1>5. ASSUME NEW c \in Consumers, Works(c) PROVE BeginsApart' /\ AloneInTx'
  BY <1>1, <1>3, <1>4, <1>5, NeitherBeginNorInsert, NoBegin
<1>6. ASSUME UNCHANGED <<entries, clock, handler, history>> PROVE BeginsApart' /\ AloneInTx'
  BY <1>6, NoBegin DEF handler, history
<1>7. ASSUME NEW p \in Partitions, NEW t \in Payloads, Arrives(p, t) PROVE BeginsApart' /\ AloneInTx'
  BY <1>6, <1>7 DEF Arrives
<1>8. ASSUME UNCHANGED vars PROVE BeginsApart' /\ AloneInTx'
  BY <1>6, <1>8 DEF vars
<1> QED BY <1>1, <1>5, <1>7, <1>8, LedgerView DEF BeginInv

\* It holds at the start.
LEMMA BeginInvInit ==
  ASSUME PipelineInit
  PROVE  BeginInv
<1>1. entries = {} /\ \A c \in Consumers : pc[c] \notin InTx
  BY DEF PipelineInit, Init, InTx
<1> QED BY <1>1, InitialTypes DEF BeginInv, BeginsApart, AloneInTx

-----------------------------------------------------------------------------
(* The running balance.                                                    *)

\* The entries of the wallet that come before this one.
Prior(e) == {f \in EntriesFor(e.wallet) : f.created < e.created}

\* A transaction that is alone has read what is still the latest balance.
ReadsLatest ==
  ~overlap /\ ~blind =>
    \A c \in Consumers :
      /\ pc[c] \in {"to", "insert"} => fromBalance[c] = GetLatestBalance(From[Txn(c)])
      /\ pc[c] = "insert" => toBalance[c] = GetLatestBalance(To[Txn(c)])

BalanceInv == BeginInv /\ ReadsLatest /\ RunningBalance

\* A chain, said with LastBalance.
LEMMA ChainFacts ==
  BalancesChain <=> \A e \in entries : e.balance = Moves(e) + LastBalance(Prior(e))
BY DEF BalancesChain, LastBalance, Prior

\* An insertion carries the chains on.
LEMMA InsertChains ==
  ASSUME BalanceInv, NEW c \in Consumers, Inserts(c)
  PROVE  RunningBalance'
<1>1. /\ entries' = entries \cup {Debit(c), Credit(c)} /\ pc[c] = "insert" /\ pc[c] \in InTx
      /\ overlap' = overlap /\ blind' = blind
  BY InsertStep DEF InTx, BalanceInv, BeginInv, TypeInv
<1> SUFFICES ASSUME ~overlap, ~blind PROVE BalancesChain'
  BY <1>1 DEF RunningBalance
<1>2. TypeOK /\ TypeInv
  BY DEF BalanceInv, BeginInv, TypeInv
<1> DEFINE t == Txn(c)
<1>3. t \in Payloads /\ From[t] \in Wallets /\ To[t] \in Wallets /\ Amount[t] \in Nat
  BY <1>1, <1>2, Busy
<1>4. /\ Debit(c).wallet = From[t] /\ Debit(c).created = began[c]
      /\ Debit(c).balance = fromBalance[c] - Amount[t] /\ Moves(Debit(c)) = -Amount[t]
      /\ Credit(c).wallet = To[t] /\ Credit(c).created = began[c]
      /\ Credit(c).balance = toBalance[c] + Amount[t] /\ Moves(Credit(c)) = Amount[t]
  BY DEF Debit, Credit, Moves
<1> HIDE DEF t
<1>5. /\ began[c] = clock /\ \A e \in entries : e.created < clock /\ e.created \in Nat
      /\ clock \in Nat
  BY <1>1, <1>2 DEF BalanceInv, BeginInv, AloneInTx, TypeOK, Entry
<1>6. /\ fromBalance[c] = LastBalance(EntriesFor(From[t])) /\ fromBalance[c] \in Int
      /\ toBalance[c] = LastBalance(EntriesFor(To[t])) /\ toBalance[c] \in Int
  <2>1. fromBalance[c] = GetLatestBalance(From[t]) /\ toBalance[c] = GetLatestBalance(To[t])
    BY <1>1 DEF BalanceInv, ReadsLatest, t
  <2> QED BY <1>2, <1>3, <2>1, LatestIsInt
<1>7. \A e \in entries : e.balance = Moves(e) + LastBalance(Prior(e))
  BY ChainFacts DEF BalanceInv, RunningBalance
<1>8. ~(clock < clock) /\ \A e \in entries : ~(clock < e.created)
  BY <1>5
<1>9. \A e \in entries : Prior(e)' = Prior(e)
  BY <1>1, <1>4, <1>5, <1>8 DEF Prior, EntriesFor
<1>10. ASSUME NEW e, e.created = clock PROVE Prior(e)' = EntriesFor(e.wallet)
  BY <1>1, <1>4, <1>5, <1>8, <1>10 DEF Prior, EntriesFor
<1>11. ASSUME NEW e \in entries' PROVE e.balance = Moves(e) + LastBalance(Prior(e)')
  <2>1. CASE e \in entries
    BY <1>7, <1>9, <2>1
  <2>2. CASE e = Debit(c)
    <3>1. Prior(e)' = EntriesFor(From[t])
      BY <1>4, <1>5, <1>10, <2>2
    <3>2. fromBalance[c] - Amount[t] = -Amount[t] + fromBalance[c]
      BY <1>3, <1>6
    <3> QED BY <1>4, <1>6, <2>2, <3>1, <3>2
  <2>3. CASE e = Credit(c)
    <3>1. Prior(e)' = EntriesFor(To[t])
      BY <1>4, <1>5, <1>10, <2>3
    <3>2. toBalance[c] + Amount[t] = Amount[t] + toBalance[c]
      BY <1>3, <1>6
    <3> QED BY <1>4, <1>6, <2>3, <3>1, <3>2
  <2> QED BY <1>1, <2>1, <2>2, <2>3
<1> QED BY <1>11 DEF BalancesChain, LastBalance, Prior, Moves

\* What a transaction has read stays right while it is open and alone.
LEMMA ReadsStayLatest ==
  ASSUME BalanceInv, BeginInv', NEW c \in Consumers, Works(c)
  PROVE  ReadsLatest'
<1>1. TypeOK /\ TypeInv /\ TypeOK' /\ ConsumerTypeOK
  BY DEF BalanceInv, BeginInv, TypeInv, TypeOK
<1>2. /\ pc \in [Consumers -> Labels] /\ fromBalance \in [Consumers -> Int]
      /\ toBalance \in [Consumers -> Int]
  BY <1>1 DEF TypeOK, Labels
<1>3. topic' = topic
  BY <1>1, WorkMoves, GroupStepTypes
<1> SUFFICES ASSUME ~overlap', ~blind', NEW d \in Consumers, pc'[d] \in {"to", "insert"}
             PROVE  /\ fromBalance'[d] = GetLatestBalance(From[Txn(d)])'
                    /\ pc'[d] = "insert" => toBalance'[d] = GetLatestBalance(To[Txn(d)])'
  BY DEF ReadsLatest
<1>4. ~overlap /\ ~blind /\ pc'[d] \in InTx
  BY <1>1, WorkHistory DEF InTx
<1>5. ~Inserts(c)
  <2> SUFFICES ASSUME Inserts(c) PROVE FALSE
    OBVIOUS
  <2>1. pc[c] \in InTx /\ pc'[c] \notin InTx
    BY <1>1, <1>2, InsertStep DEF InTx
  <2>2. d # c /\ pc[d] \in InTx
    BY <1>1, <1>4, <2>1, WorkMoves
  <2> QED BY <1>4, <2>1, <2>2 DEF BalanceInv, BeginInv, AloneInTx
<1>6. entries' = entries /\ \A w : GetLatestBalance(w)' = GetLatestBalance(w)
  <2>1. entries' = entries
    BY <1>1, <1>5, WorkHistory
  <2> QED BY ONLY <2>1 DEF GetLatestBalance, EntriesFor
<1>7. msg'[d] = msg[d] => Txn(d)' = Txn(d)
  BY <1>3 DEF Txn, Payload
<1>8. CASE pc'[d] = pc[d] /\ msg'[d] = msg[d] /\ fromBalance'[d] = fromBalance[d] /\ toBalance'[d] = toBalance[d]
  BY <1>4, <1>6, <1>7, <1>8 DEF BalanceInv, ReadsLatest
<1>9. CASE d # c
  BY <1>1, <1>8, <1>9, WorkMoves, WorkReads
<1>10. CASE d = c /\ ReadFrom(c)
  <2>1. /\ fromBalance' = [fromBalance EXCEPT ![c] = GetLatestBalance(From[Txn(c)])]
        /\ msg' = msg /\ pc' = [pc EXCEPT ![c] = "to"]
    BY <1>4, <1>10 DEF ReadFrom, Misreads, Goto, consumer
  <2>2. fromBalance'[c] = GetLatestBalance(From[Txn(c)]) /\ pc'[c] = "to"
    BY <1>2, <2>1
  <2> QED BY <1>6, <1>7, <1>10, <2>1, <2>2
<1>11. CASE d = c /\ ReadTo(c)
  <2>1. /\ toBalance' = [toBalance EXCEPT ![c] = GetLatestBalance(To[Txn(c)])]
        /\ msg' = msg /\ pc[c] = "to" /\ fromBalance' = fromBalance
    BY <1>4, <1>11 DEF ReadTo, Misreads, Goto, consumer
  <2>2. toBalance'[c] = GetLatestBalance(To[Txn(c)])
    BY <1>2, <2>1
  <2>3. fromBalance[c] = GetLatestBalance(From[Txn(c)])
    BY <1>4, <2>1 DEF BalanceInv, ReadsLatest
  <2> QED BY <1>6, <1>7, <1>11, <2>1, <2>2, <2>3
<1>12. CASE d = c /\ ~ReadFrom(c) /\ ~ReadTo(c)
  <2>1. /\ pc'[c] = pc[c] /\ msg'[c] = msg[c]
        /\ fromBalance'[c] = fromBalance[c] /\ toBalance'[c] = toBalance[c]
    <3>1. CASE \/ Fetch(c) \/ RefuseBatch(c) \/ TxFails(c) \/ GetEntriesByTransaction(c)
               \/ Ack(c) \/ Die(c) \/ BeginTx(c)
      <4>1. \E l \in {"check", "idle", "begin", "ack", "from"} : pc' = [pc EXCEPT ![c] = l]
        BY <3>1 DEF Fetch, RefuseBatch, TxFails, Refuse, GetEntriesByTransaction, Ack, Die, BeginTx, Goto
      <4> QED BY <1>2, <1>12, <4>1
    <3>2. CASE Flush(c) \/ \E p \in Partitions : Reassign(p, c)
      BY <3>2 DEF Flush, FlushCommits, Reassign, Rebalance, handler
    <3> QED BY <1>5, <1>12, <3>1, <3>2 DEF Works, Step, Inserts
  <2> QED BY <1>8, <1>12, <2>1
<1> QED BY <1>9, <1>10, <1>11, <1>12

\* The invariant is inductive.
LEMMA BalanceInvKept ==
  ASSUME BalanceInv, [PipelineNext]_pipeline
  PROVE  BalanceInv'
<1>1. BeginInv' /\ BeginInv /\ TypeOK /\ ConsumerTypeOK
  BY BeginInvKept DEF BalanceInv, BeginInv, TypeInv, TypeOK
<1>2. ASSUME NEW c \in Consumers, Works(c) PROVE BalanceInv'
  <2>1. RunningBalance'
    <3>1. CASE Inserts(c)
      BY <3>1, InsertChains
    <3>2. CASE ~Inserts(c)
      <4>1. entries' = entries /\ (overlap => overlap') /\ (blind => blind')
        BY <1>1, <1>2, <3>2, WorkHistory
      <4>2. BalancesChain' <=> BalancesChain
        <5>1. entries' = entries
          BY <4>1
        <5> QED BY ONLY <5>1 DEF BalancesChain, EntriesFor
      <4> QED BY <4>1, <4>2 DEF BalanceInv, RunningBalance
    <3> QED BY <3>1, <3>2
  <2> QED BY <1>1, <1>2, <2>1, ReadsStayLatest DEF BalanceInv
<1>3. ASSUME UNCHANGED <<msg, entries, handler, history>>,
             \A m \in Messages : Payload(m)' = Payload(m)
      PROVE  BalanceInv'
  <2>1. RunningBalance'
    BY SMTT(30), <1>3 DEF BalanceInv, RunningBalance, BalancesChain, EntriesFor, Moves, history
  <2>2. \A c \in Consumers : pc[c] # "idle" => Txn(c)' = Txn(c)
    <3> SUFFICES ASSUME NEW c \in Consumers, pc[c] # "idle" PROVE Txn(c)' = Txn(c)
      OBVIOUS
    <3>1. msg[c] \in Messages /\ msg' = msg
      BY <1>1, <1>3, Busy
    <3>2. Payload(msg[c])' = Payload(msg[c])
      BY <1>3, <3>1 DEF Payload
    <3> QED BY <3>2 DEF Txn
  <2>3. \A w : GetLatestBalance(w)' = GetLatestBalance(w)
    BY <1>3 DEF GetLatestBalance, EntriesFor
  <2>4. ReadsLatest'
    BY <1>3, <2>2, <2>3 DEF BalanceInv, ReadsLatest, handler, history
  <2> QED BY <1>1, <2>1, <2>4 DEF BalanceInv
<1>4. ASSUME NEW p \in Partitions, NEW t \in Payloads, Arrives(p, t) PROVE BalanceInv'
  BY <1>1, <1>3, <1>4, ProduceTypes DEF Arrives, Produce
<1>5. CASE UNCHANGED vars
  BY <1>3, <1>5 DEF vars, consumer, Payload
<1> QED BY <1>2, <1>4, <1>5, LedgerView

\* The running balances of every wallet are right through crashes, rebalances,
\* failed transactions and second copies, unless a read of a balance failed or two
\* transactions of the ledger were open at once.
THEOREM LedgerRunningBalance == PipelineSpec => []RunningBalance
<1>1. PipelineInit => BalanceInv
  <2> SUFFICES ASSUME PipelineInit PROVE BalanceInv
    OBVIOUS
  <2>1. entries = {} /\ \A c \in Consumers : pc[c] = "idle"
    BY DEF PipelineInit, Init
  <2> QED BY <2>1, BeginInvInit DEF BalanceInv, ReadsLatest, RunningBalance, BalancesChain
<1>2. BalanceInv /\ [PipelineNext]_pipeline => BalanceInv'
  BY BalanceInvKept
<1> QED BY <1>1, <1>2, PTL DEF PipelineSpec, BalanceInv

-----------------------------------------------------------------------------
(* How often a transfer is recorded.                                       *)

\* The instances at a copy of t that have found no entries and are to insert.
AtWork(t)  == {c \in Handling(t) : pc[c] \in InTx \cup {"begin"}}
Debits(t)  == {e \in EntriesOf(t) : e.type = "debit"}
Credits(t) == {e \in EntriesOf(t) : e.type = "credit"}

\* An instance that is to insert two entries counts as if it had inserted them.
Records(t) ==
  /\ IsFiniteSet(EntriesOf(t))
  /\ Cardinality(EntriesOf(t)) + 2 * Cardinality(AtWork(t)) <= 2 * (Cardinality(Holding(t)) + faults)
  /\ Cardinality(Debits(t)) = Cardinality(Credits(t))

RecordInv == BeginInv /\ StraysBounded /\ \A t \in Payloads : Records(t)

\* The numbers of a state.
LEMMA RecordFacts ==
  ASSUME RecordInv, NEW t \in Payloads
  PROVE  /\ TypeOK /\ ConsumerTypeOK /\ TypeInv /\ faults \in Nat
         /\ IsFiniteSet(Handling(t)) /\ IsFiniteSet(AtWork(t)) /\ IsFiniteSet(EntriesOf(t))
         /\ Cardinality(EntriesOf(t)) \in Nat /\ Cardinality(AtWork(t)) \in Nat
         /\ Cardinality(Holding(t)) \in Nat /\ Cardinality(Handling(t)) \in Nat
         /\ Cardinality(Handling(t)) <= Cardinality(Holding(t)) + faults
<1>1. TypeOK /\ ConsumerTypeOK /\ TypeInv /\ faults \in Nat
  BY DEF RecordInv, BeginInv, TypeInv, TypeOK, ConsumerTypeOK
<1>2. IsFiniteSet(Strays) /\ Cardinality(Strays) <= faults
  BY DEF RecordInv, StraysBounded
<1>3. /\ IsFiniteSet(Handling(t))
      /\ Cardinality(Handling(t)) \in Nat /\ Cardinality(Holding(t)) \in Nat
      /\ Cardinality(Handling(t)) <= Cardinality(Holding(t)) + Cardinality(Strays)
  BY <1>1, <1>2, HandlingBounded
<1>4. Cardinality(Strays) \in Nat
  BY <1>2, FS_CardinalityType
<1>5. Cardinality(Handling(t)) <= Cardinality(Holding(t)) + faults
  BY <1>1, <1>2, <1>3, <1>4
<1>6. AtWork(t) \in SUBSET Handling(t)
  BY DEF AtWork
<1>7. IsFiniteSet(AtWork(t))
  BY <1>3, <1>6, FS_Subset
<1>8. IsFiniteSet(EntriesOf(t))
  BY DEF RecordInv, Records
<1> QED BY <1>1, <1>3, <1>5, <1>7, <1>8, FS_CardinalityType

\* An insertion for another transaction, or none, leaves the entries of t.
LEMMA EntriesStay ==
  ASSUME TypeOK, NEW c \in Consumers, NEW t, entries' = entries \/ Inserts(c),
         Inserts(c) => Txn(c) # t
  PROVE  EntriesOf(t)' = EntriesOf(t)
<1>1. CASE entries' = entries
  BY <1>1 DEF EntriesOf
<1>2. CASE Inserts(c)
  <2>1. /\ entries' = entries \cup {Debit(c), Credit(c)}
        /\ Debit(c).txn # t /\ Credit(c).txn # t
    BY <1>2, InsertStep DEF Debit, Credit
  <2> QED BY <2>1 DEF EntriesOf
<1> QED BY <1>1, <1>2

\* What is inserted is new: one debit, one credit.
LEMMA InsertRecords ==
  ASSUME RecordInv, NEW c \in Consumers, Inserts(c), NEW t \in Payloads, Txn(c) = t
  PROVE  /\ IsFiniteSet(EntriesOf(t)')
         /\ Cardinality(EntriesOf(t)') \in Nat
         /\ Cardinality(EntriesOf(t)') <= Cardinality(EntriesOf(t)) + 2
         /\ Cardinality(Debits(t)') = Cardinality(Credits(t)')
<1>1. /\ entries' = entries \cup {Debit(c), Credit(c)} /\ pc[c] \in InTx
      /\ Debit(c).txn = t /\ Credit(c).txn = t
      /\ Debit(c).type = "debit" /\ Credit(c).type = "credit"
      /\ Debit(c).created = began[c] /\ Credit(c).created = began[c]
  BY RecordFacts, InsertStep DEF Debit, Credit, InTx
<1>2. Debit(c) \notin entries /\ Credit(c) \notin entries
  BY <1>1 DEF RecordInv, BeginInv, BeginsApart
<1> PICK x : x = Debit(c)
  OBVIOUS
<1> PICK y : y = Credit(c)
  OBVIOUS
<1> DEFINE E == EntriesOf(t)  D == Debits(t)  C == Credits(t)
           E1 == EntriesOf(t)'  D1 == Debits(t)'  C1 == Credits(t)'
<1>3. /\ E1 = E \cup {x} \cup {y} /\ D1 = D \cup {x} /\ C1 = C \cup {y}
      /\ x \notin D /\ y \notin C
      /\ D \in SUBSET E /\ C \in SUBSET E
  <2>1. E1 = E \cup {x} \cup {y}
    BY <1>1 DEF EntriesOf
  <2>2. D1 = {e \in E1 : e.type = "debit"} /\ C1 = {e \in E1 : e.type = "credit"}
    BY DEF Debits, Credits
  <2>3. D = {e \in E : e.type = "debit"} /\ C = {e \in E : e.type = "credit"}
    BY DEF Debits, Credits
  <2>4. x \notin E /\ y \notin E
    BY <1>2 DEF EntriesOf
  <2>5. x.type = "debit" /\ y.type = "credit"
    BY <1>1
  <2> HIDE DEF E, D, C, E1, D1, C1
  <2> QED BY <2>1, <2>2, <2>3, <2>4, <2>5
<1>4. IsFiniteSet(E) /\ Cardinality(D) = Cardinality(C)
  BY DEF RecordInv, Records
<1> HIDE DEF E, D, C, E1, D1, C1
<1>5. IsFiniteSet(D) /\ IsFiniteSet(C)
  BY <1>3, <1>4, FS_Subset
<1>6. Cardinality(D1) = Cardinality(D) + 1
  BY <1>3, <1>5, FS_AddElement
<1>7. Cardinality(C1) = Cardinality(C) + 1
  BY <1>3, <1>5, FS_AddElement
<1>8. /\ IsFiniteSet(E \cup {x}) /\ Cardinality(E) \in Nat
      /\ Cardinality(E \cup {x}) \in Nat
      /\ Cardinality(E \cup {x}) = Cardinality(E) \/ Cardinality(E \cup {x}) = Cardinality(E) + 1
  <2>1. /\ IsFiniteSet(E \cup {x})
        /\ Cardinality(E \cup {x}) = IF x \in E THEN Cardinality(E) ELSE Cardinality(E) + 1
    BY <1>4, FS_AddElement
  <2> QED BY <1>4, <2>1, FS_CardinalityType
<1>9. /\ IsFiniteSet(E1) /\ Cardinality(E1) \in Nat
      /\ \/ Cardinality(E1) = Cardinality(E \cup {x})
         \/ Cardinality(E1) = Cardinality(E \cup {x}) + 1
  <2>1. /\ IsFiniteSet(E1)
        /\ Cardinality(E1) = IF y \in E \cup {x} THEN Cardinality(E \cup {x})
                                            ELSE Cardinality(E \cup {x}) + 1
    BY <1>3, <1>8, FS_AddElement
  <2> QED BY <2>1, FS_CardinalityType
<1>10. Cardinality(E1) <= Cardinality(E) + 2
  BY <1>8, <1>9
<1> QED BY <1>4, <1>6, <1>7, <1>9, <1>10 DEF E, D, C, E1, D1, C1

\* A step of an instance keeps the count of every transfer.
LEMMA RecordsKept ==
  ASSUME RecordInv, NEW c \in Consumers, Works(c), NEW t \in Payloads
  PROVE  Records(t)'
<1>1. /\ TypeOK /\ ConsumerTypeOK /\ TypeInv /\ faults \in Nat
      /\ IsFiniteSet(Handling(t)) /\ IsFiniteSet(AtWork(t)) /\ IsFiniteSet(EntriesOf(t))
      /\ Cardinality(EntriesOf(t)) \in Nat /\ Cardinality(AtWork(t)) \in Nat
      /\ Cardinality(Holding(t)) \in Nat /\ Cardinality(Handling(t)) \in Nat
      /\ Cardinality(Handling(t)) <= Cardinality(Holding(t)) + faults
  BY RecordFacts
<1>2. Records(t)
  BY DEF RecordInv
<1>3. topic' = topic /\ Messages' = Messages /\ Holding(t)' = Holding(t)
  BY <1>1, WorkMoves, GroupStepTypes DEF Holding, Payload
<1>4. /\ pc \in [Consumers -> Labels] /\ (faults' = faults \/ faults' = faults + 1)
      /\ msg \in [Consumers -> Messages \cup {NoMessage}]
  BY <1>1, WorkMoves, GroupStepTypes DEF TypeOK, Labels, ConsumerTypeOK
<1> DEFINE S == AtWork(t)  T == AtWork(t)'
<1>5. T \ {c} = S \ {c}
  BY ZenonT(60), <1>1, <1>3, WorkMoves DEF AtWork, Handling, Payload
<1> HIDE DEF S, T
<1>6. /\ Cardinality(S) \in Nat /\ Cardinality(T) \in Nat /\ IsFiniteSet(T)
      /\ c \in S /\ c \in T => Cardinality(T) = Cardinality(S)
      /\ c \notin S /\ c \notin T => Cardinality(T) = Cardinality(S)
      /\ c \in S /\ c \notin T => Cardinality(T) = Cardinality(S) - 1
      /\ c \notin S /\ c \in T => Cardinality(T) = Cardinality(S) + 1
  <2>1. IsFiniteSet(S)
    BY <1>1 DEF S
  <2> QED BY <1>5, <2>1, OneChanged
<1> DEFINE n == Cardinality(EntriesOf(t))  n1 == Cardinality(EntriesOf(t)')
           a == Cardinality(S)  a1 == Cardinality(T)
           h == Cardinality(Holding(t))  f == faults  f1 == faults'
<1>7. n + 2 * a <= 2 * (h + f) /\ Cardinality(Debits(t)) = Cardinality(Credits(t))
  BY <1>2 DEF Records, S
<1>8. ASSUME IsFiniteSet(EntriesOf(t)'), n1 + 2 * a1 <= 2 * (h + f1),
             Cardinality(Debits(t)') = Cardinality(Credits(t)')
      PROVE  Records(t)'
  BY <1>3, <1>8 DEF Records, T
<1>9. n \in Nat /\ a \in Nat /\ a1 \in Nat /\ h \in Nat /\ f \in Nat /\ (f1 = f \/ f1 = f + 1)
  BY <1>1, <1>4, <1>6
<1> HIDE DEF n, n1, a, a1, h, f, f1
<1>10. CASE Inserts(c) /\ Txn(c) = t
  <2>1. /\ IsFiniteSet(EntriesOf(t)') /\ n1 \in Nat /\ n1 <= n + 2
        /\ Cardinality(Debits(t)') = Cardinality(Credits(t)')
    BY <1>10, InsertRecords DEF n, n1
  <2>2. c \in S /\ c \notin T
    <3>1. pc[c] = "insert" /\ pc'[c] \in {"ack", "idle"} /\ msg[c] # NoMessage
      BY <1>1, <1>4, <1>10, Busy, InsertStep
    <3> QED BY <1>10, <3>1 DEF S, T, AtWork, Handling, Txn, InTx
  <2>3. a1 = a - 1
    BY <1>6, <2>2 DEF a, a1
  <2>4. n1 + 2 * a1 <= 2 * (h + f1)
    BY <1>7, <1>9, <2>1, <2>3
  <2> QED BY <1>8, <2>1, <2>4
<1>11. CASE ~(Inserts(c) /\ Txn(c) = t)
  <2>1. EntriesOf(t)' = EntriesOf(t)
    BY <1>1, <1>11, WorkHistory, EntriesStay
  <2>2. /\ IsFiniteSet(EntriesOf(t)') /\ n1 = n
        /\ Cardinality(Debits(t)') = Cardinality(Credits(t)')
    BY <1>1, <1>7, <2>1 DEF n, n1, Debits, Credits
  <2>3. CASE c \in S \/ c \notin T
    <3>1. a1 <= a
      BY <1>6, <1>9, <2>3 DEF a, a1
    <3>2. n1 + 2 * a1 <= 2 * (h + f1)
      BY <1>7, <1>9, <2>2, <3>1
    <3> QED BY <1>8, <2>2, <3>2
  <2>4. CASE c \notin S /\ c \in T
    <3>1. pc'[c] \in InTx \cup {"begin"} /\ c \in Handling(t)'
      BY <2>4 DEF T, AtWork
    <3>m. msg' = msg => c \in Handling(t)
      BY <1>3, <3>1 DEF Handling, Payload
    <3>2. GetEntriesByTransaction(c)
      <4>1. CASE \/ Fetch(c) \/ RefuseBatch(c) \/ TxFails(c) \/ TxUnacknowledged(c) \/ CreateLedgerEntries(c)
                 \/ Ack(c) \/ Die(c)
        <5>1. \E l \in {"check", "idle", "ack"} : pc' = [pc EXCEPT ![c] = l]
          BY <4>1 DEF Fetch, RefuseBatch, TxFails, TxUnacknowledged, Refuse, Ack, Die, CreateLedgerEntries, Goto
        <5> QED BY <1>4, <3>1, <5>1 DEF InTx
      <4>2. CASE \/ BeginTx(c) \/ ReadFrom(c) \/ ReadTo(c) \/ Flush(c)
                 \/ \E p \in Partitions : Reassign(p, c)
        <5>1. msg' = msg /\ pc[c] \in InTx \cup {"begin"}
          BY <3>1, <4>2 DEF BeginTx, ReadFrom, ReadTo, Flush, FlushCommits, Reassign, Rebalance, InTx,
                            handler, consumer
        <5> QED BY <2>4, <3>m, <5>1 DEF S, AtWork
      <4> QED BY <4>1, <4>2 DEF Works, Step
    <3>3. msg' = msg /\ Txn(c) = t
      BY <3>m, <3>2 DEF GetEntriesByTransaction, consumer, Txn, Handling
    <3>4. EntriesOf(t) = {} \/ f1 = f + 1
      <4>1. CASE Misreads
        BY <4>1 DEF Misreads, Fault, f, f1
      <4>2. CASE ~Misreads
        BY <1>4, <3>1, <3>2, <3>3, <4>2 DEF GetEntriesByTransaction, Goto, InTx
      <4> QED BY <4>1, <4>2
    <3>5. CASE f1 = f + 1
      <4>1. a1 = a + 1
        BY <1>6, <2>4 DEF a, a1
      <4>2. n1 + 2 * a1 <= 2 * (h + f1)
        BY <1>7, <1>9, <2>2, <3>5, <4>1
      <4> QED BY <1>8, <2>2, <4>2
    <3>6. CASE EntriesOf(t) = {}
      <4>1. n1 = 0
        BY <2>2, <3>6, FS_EmptySet DEF n
      <4>2. T \in SUBSET Handling(t)
        BY <1>3, <3>3 DEF T, AtWork, Handling, Payload
      <4>3. Cardinality(T) <= Cardinality(Handling(t))
        BY <1>1, <4>2, FS_Subset
      <4>4. a1 <= h + f
        BY <1>1, <1>6, <4>3 DEF a1, h, f
      <4>5. n1 + 2 * a1 <= 2 * (h + f1)
        BY <1>9, <4>1, <4>4
      <4> QED BY <1>8, <2>2, <4>5
    <3> QED BY <3>4, <3>5, <3>6
  <2> QED BY <2>3, <2>4
<1> QED BY <1>10, <1>11

\* A copy that arrives in another partition makes room, and takes none.
LEMMA RecordsUndisturbed ==
  ASSUME RecordInv, UNCHANGED <<msg, owner, faults, entries, pc>>, NEW t \in Payloads,
         ConsumerTypeOK', Messages \subseteq Messages', \A m \in Messages : Payload(m)' = Payload(m)
  PROVE  Records(t)' /\ StraysBounded'
<1>1. /\ Records(t) /\ StraysBounded /\ ConsumerTypeOK /\ faults \in Nat
  BY RecordFacts DEF RecordInv
<1>2. StraysBounded'
  BY <1>1 DEF StraysBounded, Strays
<1>3. EntriesOf(t)' = EntriesOf(t) /\ Debits(t)' = Debits(t) /\ Credits(t)' = Credits(t)
  BY DEF EntriesOf, Debits, Credits
<1>4. AtWork(t)' = AtWork(t)
  <2>1. \A c \in Consumers : msg[c] # NoMessage =>
          topic'[msg[c][1]][msg[c][2]] = topic[msg[c][1]][msg[c][2]]
    BY <1>1 DEF ConsumerTypeOK, Payload
  <2>2. Handling(t)' = Handling(t)
    BY <2>1 DEF Handling, Payload
  <2> QED BY <2>2 DEF AtWork
<1>5. Holding(t) \subseteq Holding(t)' /\ Holding(t)' \subseteq Partitions
  <2>1. Holding(t) \subseteq Holding(t)'
    BY DEF Holding
  <2>2. \A m \in Messages' : m[1] \in Partitions
    BY DEF Messages
  <2> QED BY <2>1, <2>2 DEF Holding
<1> DEFINE H == Holding(t)  H1 == Holding(t)'
<1> HIDE DEF H, H1
<1>6. Cardinality(H) <= Cardinality(H1) /\ Cardinality(H) \in Nat /\ Cardinality(H1) \in Nat
  <2>1. H \in SUBSET H1 /\ H1 \in SUBSET Partitions
    BY <1>5 DEF H, H1
  <2>2. IsFiniteSet(H1)
    BY <2>1, FS_Subset
  <2>3. IsFiniteSet(H) /\ Cardinality(H) <= Cardinality(H1)
    BY <2>1, <2>2, FS_Subset
  <2> QED BY <2>2, <2>3, FS_CardinalityType
<1> DEFINE n == Cardinality(EntriesOf(t))  a == Cardinality(AtWork(t))
<1>7. n \in Nat /\ a \in Nat /\ n + 2 * a <= 2 * (Cardinality(H) + faults)
  BY <1>1, RecordFacts DEF Records, H
<1> HIDE DEF n, a
<1>8. n + 2 * a <= 2 * (Cardinality(H1) + faults)
  BY <1>1, <1>6, <1>7
<1>9. Records(t)'
  BY <1>1, <1>3, <1>4, <1>8 DEF Records, n, a, H1
<1> QED BY <1>2, <1>9

\* The invariant is inductive.
LEMMA RecordInvKept ==
  ASSUME RecordInv, [PipelineNext]_pipeline
  PROVE  RecordInv'
<1>1. BeginInv' /\ TypeInv /\ TypeOK /\ ConsumerTypeOK /\ ConsumerTypeOK'
  BY BeginInvKept DEF RecordInv, BeginInv, TypeInv, TypeOK
<1>2. ASSUME NEW c \in Consumers, Works(c) PROVE RecordInv'
  <2>1. \A t \in Payloads : Records(t)'
    BY <1>2, RecordsKept
  <2>2. GroupStep(c) /\ Faulty
    BY <1>1, <1>2, WorkMoves
  <2>3. IsFiniteSet(Strays) /\ Cardinality(Strays) <= faults /\ faults \in Nat
    BY <1>1 DEF RecordInv, StraysBounded, ConsumerTypeOK
  <2>4. /\ IsFiniteSet(Strays)' /\ Cardinality(Strays) \in Nat /\ Cardinality(Strays)' \in Nat
        /\ \/ Cardinality(Strays)' <= Cardinality(Strays)
           \/ /\ Cardinality(Strays)' <= Cardinality(Strays) + 1
              /\ \E p \in Partitions : Rebalance(p, c)
    BY <1>1, <2>2, <2>3, StraysStep
  <2>5. /\ faults' \in {faults, faults + 1}
        /\ \A p \in Partitions : Rebalance(p, c) => faults' = faults + 1
    BY <2>2 DEF Faulty, Fault, Rebalance
  <2>6. Cardinality(Strays)' <= faults'
    BY <2>3, <2>4, <2>5
  <2> QED BY <1>1, <2>1, <2>4, <2>6 DEF RecordInv, StraysBounded
<1>3. ASSUME UNCHANGED <<msg, owner, faults, entries, pc>>,
             Messages \subseteq Messages', \A m \in Messages : Payload(m)' = Payload(m)
      PROVE  RecordInv'
  <2>1. \A t \in Payloads : Records(t)'
    BY <1>1, <1>3, RecordsUndisturbed
  <2>2. StraysBounded'
    BY <1>3 DEF RecordInv, StraysBounded, Strays
  <2> QED BY <1>1, <2>1, <2>2 DEF RecordInv
<1>4. ASSUME NEW p \in Partitions, NEW t \in Payloads, Arrives(p, t) PROVE RecordInv'
  <2>1. /\ UNCHANGED <<msg, owner, faults, entries, pc>> /\ Produce(p, t)
    BY <1>4 DEF Arrives, Produce, handler
  <2> QED BY <1>1, <1>3, <2>1, ProduceTypes
<1>5. ASSUME UNCHANGED vars PROVE RecordInv'
  <2>1. UNCHANGED <<msg, owner, faults, entries, pc, topic>>
    BY <1>5 DEF vars, consumer, handler
  <2>2. Messages' = Messages /\ \A m : Payload(m)' = Payload(m)
    BY <2>1 DEF Messages, Offsets, Payload
  <2> QED BY <1>3, <2>1, <2>2
<1> QED BY <1>2, <1>4, <1>5, LedgerView

\* A transfer has one debit and one credit per partition that holds a copy of its
\* event, and one more of each per fault at most, and as many debits as credits.
THEOREM LedgerRecordsOnce == PipelineSpec => []RecordedOnce
<1>1. PipelineInit => RecordInv
  <2> SUFFICES ASSUME PipelineInit PROVE RecordInv
    OBVIOUS
  <2>1. BeginInv /\ TypeOK
    BY BeginInvInit DEF BeginInv, TypeInv
  <2>2. entries = {} /\ faults = 0 /\ \A c \in Consumers : msg[c] = NoMessage
    BY DEF PipelineInit, Init, ConsumerInit
  <2>3. Strays = {} /\ \A t : AtWork(t) = {} /\ EntriesOf(t) = {} /\ Debits(t) = {} /\ Credits(t) = {}
    BY <2>2 DEF Strays, AtWork, Handling, EntriesOf, Debits, Credits
  <2>4. IsFiniteSet({}) /\ Cardinality({}) = 0
    BY FS_EmptySet
  <2>5. StraysBounded
    BY <2>2, <2>3, <2>4 DEF StraysBounded
  <2>6. ASSUME NEW t \in Payloads PROVE Records(t)
    <3>1. Cardinality(Holding(t)) \in Nat
      BY <2>1, <2>5, HandlingBounded DEF TypeOK, StraysBounded
    <3>2. 0 + 2 * 0 <= 2 * (Cardinality(Holding(t)) + faults)
      BY <2>2, <3>1
    <3>3. /\ IsFiniteSet(EntriesOf(t)) /\ Cardinality(EntriesOf(t)) = 0
          /\ Cardinality(AtWork(t)) = 0 /\ Cardinality(Debits(t)) = 0 /\ Cardinality(Credits(t)) = 0
      BY <2>3, <2>4
    <3> QED BY <3>2, <3>3 DEF Records
  <2> QED BY <2>1, <2>5, <2>6 DEF RecordInv
<1>2. RecordInv /\ [PipelineNext]_pipeline => RecordInv'
  BY RecordInvKept
<1>3. RecordInv => RecordedOnce
  <2> SUFFICES ASSUME RecordInv, NEW t \in Payloads
               PROVE  /\ Cardinality(EntriesOf(t)) <= 2 * (Cardinality(Holding(t)) + faults)
                      /\ Cardinality(Debits(t)) = Cardinality(Credits(t))
    BY DEF RecordedOnce, Debits, Credits
  <2> DEFINE n == Cardinality(EntriesOf(t))  a == Cardinality(AtWork(t))
             h == Cardinality(Holding(t))
  <2>1. /\ n + 2 * a <= 2 * (h + faults)
        /\ Cardinality(Debits(t)) = Cardinality(Credits(t))
    BY DEF RecordInv, Records
  <2>2. n \in Nat /\ a \in Nat /\ h \in Nat /\ faults \in Nat
    BY RecordFacts
  <2> HIDE DEF n, a, h
  <2>3. n <= 2 * (h + faults)
    BY <2>1, <2>2
  <2> QED BY <2>1, <2>3 DEF n, h
<1> QED BY <1>1, <1>2, <1>3, PTL DEF PipelineSpec
=================================================================================
