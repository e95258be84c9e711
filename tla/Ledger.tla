--------------------------------- MODULE Ledger ---------------------------------
(***************************************************************************)
(* internal/ledger: ProcessTransactionEvent turns each transaction.completed *)
(* event into a debit and a credit entry, with the running balances of the *)
(* two wallets, and saves one ledger.entry_created event per entry.        *)
(*                                                                         *)
(* The look for existing entries and the two reads of the latest balance   *)
(* go through the pool, not through the transaction that inserts, so each  *)
(* sees what is committed at its own instant.  The entries carry the time  *)
(* their transaction began, and the latest balance is the one with the     *)
(* latest such time.                                                       *)
(*                                                                         *)
(* Amounts are whole numbers of the 0.0001 units of NUMERIC(20,4).  A       *)
(* fault is also a read or a write of the database that fails, or a COMMIT  *)
(* that takes effect although the handler sees an error.                   *)
(***************************************************************************)
EXTENDS Consumer, Integers

CONSTANTS Wallets,
          From, To, Amount,  \* of each transaction, the payload of an event
          Batches            \* payloads of batch.completed: no transaction_id

ASSUME LedgerConstants ==
  /\ Batches \subseteq Payloads
  /\ From \in [Payloads -> Wallets]
  /\ To \in [Payloads -> Wallets]
  /\ \A t \in Payloads : From[t] # To[t]
  /\ Amount \in [Payloads -> Nat \ {0}]

VARIABLES entries,    \* the table ledger_entries
          clock,      \* orders the begins of the transactions
          pc,         \* where each instance's handler is
          began,      \* when its transaction began
          fromBalance, toBalance,   \* the balances it has read
          blind,      \* history: a read failed and the handler went on
          overlap,    \* history: two transactions were open at once
          failed      \* history: messages whose handler failed

handler == <<pc, began, fromBalance, toBalance>>
history == <<blind, overlap, failed>>
vars    == <<consumer, faults, entries, clock, handler, history>>

Entry == [txn : Payloads, wallet : Wallets, type : {"debit", "credit"},
          balance : Int, created : Nat]

TypeOK ==
  /\ ConsumerTypeOK
  /\ entries \subseteq Entry
  /\ clock \in Nat
  /\ pc \in [Consumers -> {"idle", "check", "begin", "from", "to", "insert", "ack"}]
  /\ \A c \in Consumers : pc[c] = "idle" <=> msg[c] = NoMessage
  /\ began \in [Consumers -> Nat]
  /\ fromBalance \in [Consumers -> Int]
  /\ toBalance \in [Consumers -> Int]
  /\ blind \in BOOLEAN /\ overlap \in BOOLEAN
  /\ failed \subseteq Messages

Init ==
  /\ ConsumerInit
  /\ entries = {}
  /\ clock = 0
  /\ pc = [c \in Consumers |-> "idle"]
  /\ began = [c \in Consumers |-> 0]
  /\ fromBalance = [c \in Consumers |-> 0]
  /\ toBalance = [c \in Consumers |-> 0]
  /\ blind = FALSE /\ overlap = FALSE
  /\ failed = {}

Goto(c, l) == pc' = [pc EXCEPT ![c] = l]

\* The handler is over: what it read does not matter any more.
Forget(c) ==
  /\ began' = [began EXCEPT ![c] = 0]
  /\ fromBalance' = [fromBalance EXCEPT ![c] = 0]
  /\ toBalance' = [toBalance EXCEPT ![c] = 0]

Txn(c) == Payload(msg[c])

\* A read either succeeds, or fails and is answered as if nothing were there.
Reads == UNCHANGED <<blind, faults>>
Misreads == blind' = TRUE /\ Fault

-----------------------------------------------------------------------------
Fetch(c) ==
  /\ FetchMessage(c)
  /\ Goto(c, "check")
  /\ UNCHANGED <<faults, entries, clock, began, fromBalance, toBalance, history>>

\* An event without its transaction_id is an error, and so is a failed
\* transaction.
Refuse(c) ==
  /\ HandlerFailed(c)
  /\ Goto(c, "idle")
  /\ Forget(c)
  /\ failed' = failed \cup {msg[c]}
  /\ UNCHANGED <<clock, blind, overlap>>

RefuseBatch(c) ==
  /\ pc[c] = "check" /\ Txn(c) \in Batches
  /\ Refuse(c)
  /\ UNCHANGED <<faults, entries>>

EntriesOf(t) == {e \in entries : e.txn = t}

\* No look for existing entries.
GetEntriesByTransactionBug(c) ==
  /\ pc[c] = "check" /\ Txn(c) \notin Batches
  /\ Goto(c, "begin")
  /\ UNCHANGED <<consumer, faults, entries, clock, began, fromBalance, toBalance, history>>

GetEntriesByTransaction(c) ==
  /\ pc[c] = "check" /\ Txn(c) \notin Batches
  /\ \/ Goto(c, IF EntriesOf(Txn(c)) = {} THEN "begin" ELSE "ack") /\ Reads
     \/ Goto(c, "begin") /\ Misreads
  /\ UNCHANGED <<consumer, entries, clock, began, fromBalance, toBalance, overlap, failed>>

InTx == {"from", "to", "insert"}

BeginTx(c) ==
  /\ pc[c] = "begin"
  /\ Goto(c, "from")
  /\ clock' = clock + 1
  /\ began' = [began EXCEPT ![c] = clock']
  /\ overlap' = (overlap \/ \E d \in Consumers : pc[d] \in InTx)
  /\ UNCHANGED <<consumer, faults, entries, fromBalance, toBalance, blind, failed>>

EntriesFor(w) == {e \in entries : e.wallet = w}

\* ORDER BY created_at ASC.
GetLatestBalanceBug(w) ==
  IF EntriesFor(w) = {} THEN 0
  ELSE (CHOOSE e \in EntriesFor(w) : \A f \in EntriesFor(w) : e.created <= f.created).balance

GetLatestBalance(w) ==
  IF EntriesFor(w) = {} THEN 0
  ELSE (CHOOSE e \in EntriesFor(w) : \A f \in EntriesFor(w) : f.created <= e.created).balance

ReadFrom(c) ==
  /\ pc[c] = "from"
  /\ \/ fromBalance' = [fromBalance EXCEPT ![c] = GetLatestBalance(From[Txn(c)])] /\ Reads
     \/ fromBalance' = [fromBalance EXCEPT ![c] = 0] /\ Misreads
  /\ Goto(c, "to")
  /\ UNCHANGED <<consumer, entries, clock, began, toBalance, overlap, failed>>

ReadTo(c) ==
  /\ pc[c] = "to"
  /\ \/ toBalance' = [toBalance EXCEPT ![c] = GetLatestBalance(To[Txn(c)])] /\ Reads
     \/ toBalance' = [toBalance EXCEPT ![c] = 0] /\ Misreads
  /\ Goto(c, "insert")
  /\ UNCHANGED <<consumer, entries, clock, began, fromBalance, overlap, failed>>

\* The two rows of table ledger_entries.
Debit(c)  == [txn |-> Txn(c), wallet |-> From[Txn(c)], type |-> "debit",
              balance |-> fromBalance[c] - Amount[Txn(c)], created |-> began[c]]
Credit(c) == [txn |-> Txn(c), wallet |-> To[Txn(c)], type |-> "credit",
              balance |-> toBalance[c] + Amount[Txn(c)], created |-> began[c]]

Insert(c) == entries' = entries \cup {Debit(c), Credit(c)}

CreateLedgerEntries(c) ==
  /\ pc[c] = "insert"
  /\ Insert(c)
  /\ Goto(c, "ack")
  /\ Forget(c)
  /\ UNCHANGED <<consumer, faults, clock, history>>

TxFails(c) ==
  /\ pc[c] \in {"begin", "from", "to", "insert"}
  /\ Refuse(c)
  /\ Fault
  /\ UNCHANGED entries

\* It committed, but the handler has an error for an answer.
TxUnacknowledged(c) ==
  /\ pc[c] = "insert"
  /\ Insert(c)
  /\ Refuse(c)
  /\ Fault

Ack(c) ==
  /\ pc[c] = "ack"
  /\ CommitMessage(c)
  /\ Goto(c, "idle")
  /\ UNCHANGED <<faults, entries, clock, began, fromBalance, toBalance, history>>

Flush(c) ==
  /\ FlushCommits(c)
  /\ UNCHANGED <<entries, clock, handler, history>>

\* The open transaction is rolled back.
Die(c) ==
  /\ Crash(c)
  /\ Goto(c, "idle")
  /\ Forget(c)
  /\ UNCHANGED <<entries, clock, history>>

Reassign(p, c) ==
  /\ Rebalance(p, c)
  /\ UNCHANGED <<entries, clock, handler, history>>

-----------------------------------------------------------------------------
Step(c) ==
  \/ Fetch(c) \/ RefuseBatch(c) \/ GetEntriesByTransaction(c)
  \/ BeginTx(c) \/ ReadFrom(c) \/ ReadTo(c) \/ CreateLedgerEntries(c)
  \/ Ack(c) \/ Flush(c)

Next ==
  \/ \E c \in Consumers : Step(c) \/ TxFails(c) \/ TxUnacknowledged(c) \/ Die(c)
  \/ \E p \in Partitions, c \in Consumers : Reassign(p, c)

Spec == Init /\ [][Next]_vars

-----------------------------------------------------------------------------
(* Safety.                                                                 *)

Moves(e) == IF e.type = "debit" THEN -Amount[e.txn] ELSE Amount[e.txn]

\* The entries of a wallet, in the order of created_at, carry its running
\* balance: each one adds its amount to the one before.
BalancesChain ==
  \A e \in entries :
    LET before == {f \in EntriesFor(e.wallet) : f.created < e.created} IN
    e.balance = Moves(e) + IF before = {} THEN 0
                           ELSE (CHOOSE f \in before : \A g \in before : g.created <= f.created).balance

\* The running balances are right, through crashes, failed transactions and
\* messages delivered again, unless a read of a balance failed or two instances
\* had transactions open at once: nothing else can spoil them.
RunningBalance == blind \/ overlap \/ BalancesChain

\* However often an event is delivered, its transaction has one debit and one
\* credit per partition that holds a copy of it, and once more per fault: two
\* instances may look for entries at once, each with a copy, or with the same
\* one after a rebalance; and the look may fail.
RecordedOnce ==
  \A t \in Payloads :
    /\ Cardinality(EntriesOf(t)) <= 2 * (Cardinality(Holding(t)) + faults)
    /\ Cardinality({e \in EntriesOf(t) : e.type = "debit"})
         = Cardinality({e \in EntriesOf(t) : e.type = "credit"})

Recorded(m) == EntriesOf(Payload(m)) # {}

\* Kafka's offset has passed a message only if its transaction is in the
\* ledger or its handler failed: no crash and no rebalance skips one.
SkippedOnlyIfFailed ==
  \A m \in Messages : m[2] <= committed[m[1]] => Recorded(m) \/ m \in failed

\* What the consumer's comment promises for a message whose handler failed:
\* it "will be retried", so the offset does not pass it.
FailedIsRetried ==
  \A m \in failed : ~Recorded(m) => committed[m[1]] < m[2]

=============================================================================
