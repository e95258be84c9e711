------------------------------ MODULE Transaction ------------------------------
(***************************************************************************)
(* The transfers of internal/transaction.  The service moves no money       *)
(* itself: it calls the wallet service over HTTP, one call per transfer,    *)
(* and then records the outcome in its own database.  Nothing ties the two  *)
(* together but the order of the steps and the idempotency keys.            *)
(*                                                                         *)
(* Both services keep their idempotency keys in the same Redis.  A key is   *)
(* <<k, 0>> when it is the client's own, and <<k, i>> when it is derived    *)
(* from it: "k-i" for the transfers of a batch (counted from 1 here) and,   *)
(* with the number after these, "scheduled-id" for a scheduled transfer.    *)
(*                                                                         *)
(* The wallet service appears as what module Wallet shows of a Transfer:    *)
(* it admits a call whose key is not used, then moves the money or refuses, *)
(* and uses the key once the money has moved.  Calls under one key that are *)
(* admitted together may both move it.                                      *)
(*                                                                         *)
(* A fault is an answer that does not arrive, the wallet service's or that  *)
(* of a COMMIT that took effect, a query or a Redis call that               *)
(* fails, a key that expires, or a caller that stops: a process that dies,  *)
(* a client that hangs up, the 25 seconds of a worker's round.              *)
(***************************************************************************)
EXTENDS Naturals, FiniteSets

CONSTANTS Requests,     \* calls of the three Create...Transfer
          Workers,      \* running instances of the scheduled transfer worker
          Keys,
          Kind,         \* "p2p", "batch" or "scheduled", of each request
          Key,
          Items,        \* transfers in a request
          After,        \* the client sends a request once this one is over
          NoRequest, NoKey,
          MaxItems, MaxFaults

Callers == Requests \cup Workers
Ids     == Keys \X (0..(MaxItems + 1))

ASSUME TransactionConstants ==
  /\ Requests \cap Workers = {}
  /\ NoRequest \notin Requests
  /\ NoKey \notin Keys
  /\ Kind \in [Requests -> {"p2p", "batch", "scheduled"}]
  /\ Key \in [Requests -> Keys]
  /\ MaxItems \in Nat \ {0}
  /\ Items \in [Requests -> 1..MaxItems]
  /\ After \in [Requests -> Requests \cup {NoRequest}]
  /\ MaxFaults \in Nat

VARIABLES row,        \* status of the row of table transactions with each key
          batch,      \* the keys in table batch_transactions
          inserting,  \* the open transaction that inserted a batch's key
          saved,      \* transaction.completed events saved in the outbox
          used,       \* idempotency keys in Redis
          moved,      \* how often the wallet service moved the money
          stray,      \* calls it still runs although the caller gave up
          pc, item, outcome,   \* the callers
          lapsed,     \* history: keys lost or expired, or left with a stray call
          due,        \* scheduled transfers whose time has come
          todo, job,  \* the rest of a worker's round, and what it works on
          faults

tables  == <<row, batch, inserting, saved>>
wallet  == <<moved, stray, lapsed>>
rounds  == <<due, todo, job>>
vars    == <<tables, used, wallet, pc, item, outcome, rounds, faults>>

TypeOK ==
  /\ row \in [Ids -> {"none", "scheduled", "completed", "failed"}]
  /\ batch \subseteq Keys
  /\ inserting \in [Keys -> Requests \cup {NoRequest}]
  /\ saved \in [Ids -> Nat]
  /\ used \subseteq Ids
  /\ moved \in [Ids -> Nat] /\ stray \in [Ids -> Nat] /\ lapsed \subseteq Ids
  /\ pc \in [Callers -> {"check", "insert", "call", "admitted", "record", "mark", "fail", "idle", "done"}]
  /\ item \in [Requests -> 1..MaxItems]
  /\ outcome \in [Requests -> {"none", "ok", "error"}]
  /\ due \subseteq Keys
  /\ todo \in [Workers -> SUBSET Keys]
  /\ job \in [Workers -> Keys \cup {NoKey}]
  /\ faults \in 0..MaxFaults

Init ==
  /\ row = [i \in Ids |-> "none"]
  /\ batch = {} /\ inserting = [k \in Keys |-> NoRequest]
  /\ saved = [i \in Ids |-> 0]
  /\ used = {}
  /\ moved = [i \in Ids |-> 0] /\ stray = [i \in Ids |-> 0] /\ lapsed = {}
  /\ pc = [c \in Callers |-> IF c \in Requests THEN "check" ELSE "idle"]
  /\ item = [r \in Requests |-> 1]
  /\ outcome = [r \in Requests |-> "none"]
  /\ due = {} /\ todo = [w \in Workers |-> {}] /\ job = [w \in Workers |-> NoKey]
  /\ faults = 0

Fault == faults < MaxFaults /\ faults' = faults + 1
NoFault == UNCHANGED faults

\* Variants named ...Bug are plausible mistakes in the definition that follows
\* them; nothing uses them, they serve to show what a property depends on.

Goto(c, l) == pc' = [pc EXCEPT ![c] = l]

Own(r) == <<Key[r], 0>>
Scheduled(k) == <<k, MaxItems + 1>>

\* The idempotency key of the call a caller makes.
WalletKey(c) ==
  IF c \in Workers THEN Scheduled(job[c])
  ELSE <<Key[c], IF Kind[c] = "batch" THEN item[c] ELSE 0>>

\* The transaction of a failed batch is left open.
EndBug(r, o) ==
  /\ Goto(r, "done")
  /\ outcome' = [outcome EXCEPT ![r] = o]
  /\ UNCHANGED inserting

\* A request ends; the transaction of a batch is rolled back or committed.
End(r, o) ==
  /\ Goto(r, "done")
  /\ outcome' = [outcome EXCEPT ![r] = o]
  /\ inserting' = [k \in Keys |-> IF inserting[k] = r THEN NoRequest ELSE inserting[k]]

\* An error: a request returns it, a worker records it on the row.
Fail(c) ==
  \/ c \in Requests /\ End(c, "error")
  \/ c \in Workers /\ Goto(c, "fail") /\ UNCHANGED <<inserting, outcome>>

-----------------------------------------------------------------------------
(* The start of a request.                                                 *)

CheckIdempotency(r) ==
  /\ pc[r] = "check"
  /\ \A s \in {After[r]} \ {NoRequest} : pc[s] = "done"
  /\ \/ /\ Own(r) \in used \/ Kind[r] = "batch"   \* or a lookup refuses the batch
        /\ End(r, "error") /\ NoFault
     \/ /\ Own(r) \notin used
        /\ Goto(r, CASE Kind[r] = "p2p" -> "call"
                     [] Kind[r] = "batch" -> "insert"
                     [] Kind[r] = "scheduled" -> "record")
        /\ UNCHANGED <<inserting, outcome>> /\ NoFault
     \/ End(r, "error") /\ Fault
  /\ UNCHANGED <<row, batch, saved, used, wallet, item, rounds>>

\* INSERT of the batch, first in its transaction: a second one under the key
\* waits for that transaction to end, then violates UNIQUE if it committed.
CreateBatchTransactionTx(r) ==
  /\ pc[r] = "insert"
  /\ inserting[Key[r]] = NoRequest
  /\ \/ /\ Key[r] \notin batch
        /\ inserting' = [inserting EXCEPT ![Key[r]] = r]
        /\ Goto(r, "call") /\ UNCHANGED outcome
     \/ Key[r] \in batch /\ End(r, "error")
  /\ UNCHANGED <<row, batch, saved, used, wallet, item, rounds, faults>>

-----------------------------------------------------------------------------
(* A call of the wallet service.                                           *)

\* The wallet service does not look at the key.
AdmitBug(c) ==
  /\ pc[c] = "call"
  /\ Goto(c, "admitted")
  /\ UNCHANGED <<tables, used, wallet, item, outcome, rounds, faults>>

\* The wallet service checks the key.
Admit(c) ==
  /\ pc[c] = "call"
  /\ IF WalletKey(c) \in used
     THEN Fail(c)
     ELSE Goto(c, "admitted") /\ UNCHANGED <<inserting, outcome>>
  /\ UNCHANGED <<row, batch, saved, used, wallet, item, rounds, faults>>

MoveMoney(i) ==
  /\ moved' = [moved EXCEPT ![i] = @ + 1]
  /\ \/ used' = used \cup {i} /\ UNCHANGED lapsed /\ NoFault
     \/ UNCHANGED used /\ lapsed' = lapsed \cup {i} /\ Fault

\* The client takes the answer of a transfer for an error.
WalletTransferBug(c) ==
  /\ pc[c] = "admitted"
  /\ MoveMoney(WalletKey(c))
  /\ Fail(c)
  /\ UNCHANGED <<row, batch, saved, stray, item, rounds>>

WalletTransfer(c) ==
  /\ pc[c] = "admitted"
  /\ MoveMoney(WalletKey(c))
  /\ Goto(c, "record")
  /\ UNCHANGED <<tables, stray, item, outcome, rounds>>

\* An error of the wallet service counts as a success.
WalletRefusesBug(c) ==
  /\ pc[c] \in {"call", "admitted"}
  /\ Goto(c, "record")
  /\ UNCHANGED <<tables, used, wallet, item, outcome, rounds, faults>>

\* The wallets are looked up before anything else is asked of them or written;
\* a batch's payer even before its transaction begins.
LooksUp(c) == pc[c] = "call" \/ (pc[c] = "record" /\ c \in Requests /\ Kind[c] = "scheduled")

\* No such wallet, another currency, too little money, a wallet that is locked,
\* or a wallet service that was not reached.
WalletRefuses(c) ==
  /\ LooksUp(c) \/ pc[c] = "admitted"
  /\ Fail(c)
  /\ UNCHANGED <<row, batch, saved, used, wallet, item, rounds, faults>>

LeaveCall(c) ==
  /\ stray' = [stray EXCEPT ![WalletKey(c)] = @ + 1]
  /\ lapsed' = lapsed \cup {WalletKey(c)}

\* The client's 10 seconds are over, or the connection is lost.  The wallet
\* service goes on with the call.
CallTimesOut(c) ==
  /\ pc[c] = "admitted"
  /\ LeaveCall(c)
  /\ Fail(c)
  /\ Fault
  /\ UNCHANGED <<row, batch, saved, used, moved, item, rounds>>

StrayCall(i) ==
  /\ stray[i] > 0
  /\ stray' = [stray EXCEPT ![i] = @ - 1]
  /\ \/ MoveMoney(i)
     \/ UNCHANGED <<moved, used, lapsed, faults>>
  /\ UNCHANGED <<tables, pc, item, outcome, rounds>>

-----------------------------------------------------------------------------
(* What the service records.                                               *)

Complete(S) == row' = [i \in Ids |-> IF i \in S THEN "completed" ELSE row[i]]
Announce(i) == saved' = [saved EXCEPT ![i] = @ + 1]

CreateP2PTransaction(r) ==
  /\ pc[r] = "record" /\ Kind[r] = "p2p"
  /\ \/ /\ row[Own(r)] = "none"
        /\ Complete({Own(r)}) /\ Announce(Own(r))
        /\ Goto(r, "mark") /\ UNCHANGED <<inserting, outcome>>
     \/ row[Own(r)] # "none" /\ End(r, "error") /\ UNCHANGED <<row, saved>>
  /\ UNCHANGED <<batch, used, wallet, item, rounds, faults>>

CreateScheduledTransaction(r) ==
  /\ pc[r] = "record" /\ Kind[r] = "scheduled"
  /\ \/ /\ row[Own(r)] = "none"
        /\ row' = [row EXCEPT ![Own(r)] = "scheduled"]
        /\ Goto(r, "mark") /\ UNCHANGED <<inserting, outcome>>
     \/ row[Own(r)] # "none" /\ End(r, "error") /\ UNCHANGED row
  /\ UNCHANGED <<batch, saved, used, wallet, item, rounds, faults>>

\* One transfer too many.
NextBatchItemBug(r) ==
  /\ pc[r] = "record" /\ Kind[r] = "batch" /\ item[r] <= Items[r]
  /\ Goto(r, "call")
  /\ item' = [item EXCEPT ![r] = @ + 1]
  /\ UNCHANGED <<tables, used, wallet, outcome, rounds, faults>>

NextBatchItem(r) ==
  /\ pc[r] = "record" /\ Kind[r] = "batch" /\ item[r] < Items[r]
  /\ Goto(r, "call")
  /\ item' = [item EXCEPT ![r] = @ + 1]
  /\ UNCHANGED <<tables, used, wallet, outcome, rounds, faults>>

\* The rows of the transfers, the batch and its event become visible at once.
CommitBatch(r) ==
  /\ pc[r] = "record" /\ Kind[r] = "batch" /\ item[r] = Items[r]
  /\ Complete({Key[r]} \X (1..Items[r]))
  /\ Announce(Own(r))
  /\ batch' = batch \cup {Key[r]}
  /\ inserting' = [inserting EXCEPT ![Key[r]] = NoRequest]
  /\ Goto(r, "mark")
  /\ UNCHANGED <<used, wallet, item, outcome, rounds, faults>>

SetIdempotency(r) ==
  /\ pc[r] = "mark"
  /\ \/ used' = used \cup {Own(r)} /\ NoFault
     \/ UNCHANGED used /\ Fault                 \* a warning is logged
  /\ End(r, "ok")
  /\ UNCHANGED <<row, batch, saved, wallet, item, rounds>>

\* The database refuses what a caller wants to record.
RecordFails(c) ==
  /\ pc[c] \in {"insert", "record"}
  /\ Fail(c)
  /\ Fault
  /\ UNCHANGED <<row, batch, saved, used, wallet, item, rounds>>

\* What the transaction of a caller writes in the end.
Written(c) ==
  \/ /\ c \in Requests /\ Kind[c] = "p2p" /\ row[Own(c)] = "none"
     /\ Complete({Own(c)}) /\ Announce(Own(c)) /\ UNCHANGED batch
  \/ /\ c \in Requests /\ Kind[c] = "scheduled" /\ row[Own(c)] = "none"
     /\ row' = [row EXCEPT ![Own(c)] = "scheduled"] /\ UNCHANGED <<saved, batch>>
  \/ /\ c \in Requests /\ Kind[c] = "batch" /\ item[c] = Items[c]
     /\ Complete({Key[c]} \X (1..Items[c])) /\ Announce(Own(c))
     /\ batch' = batch \cup {Key[c]}
  \/ /\ c \in Workers
     /\ row' = [row EXCEPT ![<<job[c], 0>>] = "completed"]
     /\ Announce(<<job[c], 0>>) /\ UNCHANGED batch

\* It committed, but the connection broke before the database said so: an error
\* to the caller.  A worker then marks the transfer it has completed as failed.
RecordUnacknowledged(c) ==
  /\ pc[c] = "record"
  /\ Written(c)
  /\ Fail(c)
  /\ Fault
  /\ UNCHANGED <<used, wallet, item, rounds>>

-----------------------------------------------------------------------------
(* The worker: a round selects what is due, without a lock, and takes the   *)
(* transfers one by one.                                                    *)

BecomeDue(k) ==
  /\ row[<<k, 0>>] = "scheduled" /\ k \notin due
  /\ due' = due \cup {k}
  /\ UNCHANGED <<tables, used, wallet, pc, item, outcome, todo, job, faults>>

\* The status is not looked at.
GetScheduledTransactionsBug(w) ==
  /\ pc[w] = "idle" /\ todo[w] = {}
  /\ todo' = [todo EXCEPT ![w] = {k \in due : row[<<k, 0>>] \in {"scheduled", "failed"}}]
  /\ todo'[w] # {}
  /\ UNCHANGED <<tables, used, wallet, pc, item, outcome, due, job, faults>>

GetScheduledTransactions(w) ==
  /\ pc[w] = "idle" /\ todo[w] = {}
  /\ todo' = [todo EXCEPT ![w] = {k \in due : row[<<k, 0>>] = "scheduled"}]
  /\ todo'[w] # {}
  /\ UNCHANGED <<tables, used, wallet, pc, item, outcome, due, job, faults>>

ExecuteScheduledTransfer(w) ==
  /\ pc[w] = "idle"
  /\ \E k \in todo[w] :
       /\ job' = [job EXCEPT ![w] = k]
       /\ todo' = [todo EXCEPT ![w] = @ \ {k}]
  /\ Goto(w, "call")
  /\ UNCHANGED <<tables, used, wallet, item, outcome, due, faults>>

Settle(w, status) ==
  /\ row' = [row EXCEPT ![<<job[w], 0>>] = status]
  /\ job' = [job EXCEPT ![w] = NoKey]
  /\ Goto(w, "idle")

\* The row is completed whatever its status is by now.
UpdateTransactionStatusTx(w) ==
  /\ pc[w] = "record"
  /\ Settle(w, "completed") /\ Announce(<<job[w], 0>>)
  /\ UNCHANGED <<batch, inserting, used, wallet, item, outcome, due, todo, faults>>

\* The row keeps its status; the error is logged only.
MarkTransactionAsFailedBug(w) ==
  /\ pc[w] = "fail"
  /\ job' = [job EXCEPT ![w] = NoKey]
  /\ Goto(w, "idle")
  /\ UNCHANGED <<tables, used, wallet, item, outcome, due, todo, faults>>

\* Failed, whatever its status is by now.
MarkTransactionAsFailed(w) ==
  /\ pc[w] = "fail"
  /\ Settle(w, "failed")
  /\ UNCHANGED <<batch, inserting, saved, used, wallet, item, outcome, due, todo, faults>>

\* The error of that UPDATE is not looked at; the round goes on.
MarkLost(w) ==
  /\ pc[w] = "fail"
  /\ job' = [job EXCEPT ![w] = NoKey]
  /\ Goto(w, "idle")
  /\ Fault
  /\ UNCHANGED <<tables, used, wallet, item, outcome, due, todo>>

-----------------------------------------------------------------------------
(* A caller stops; a key expires.                                          *)

\* The rows locked by the transaction are freed and nothing more is written.
Abandon(c) ==
  /\ pc[c] \notin {"check", "done"}
  /\ pc[c] = "idle" => todo[c] # {}
  /\ IF pc[c] = "admitted" THEN LeaveCall(c) ELSE UNCHANGED <<stray, lapsed>>
  /\ \/ c \in Requests /\ End(c, "error") /\ UNCHANGED <<todo, job>>
     \/ /\ c \in Workers
        /\ Goto(c, "idle")
        /\ todo' = [todo EXCEPT ![c] = {}]
        /\ job' = [job EXCEPT ![c] = NoKey]
        /\ UNCHANGED <<inserting, outcome>>
  /\ Fault
  /\ UNCHANGED <<row, batch, saved, used, moved, item, due>>

ExpireKey(i) ==
  /\ i \in used
  /\ used' = used \ {i}
  /\ lapsed' = lapsed \cup {i}
  /\ Fault
  /\ UNCHANGED <<tables, moved, stray, pc, item, outcome, rounds>>

-----------------------------------------------------------------------------
Call(c) == Admit(c) \/ WalletTransfer(c) \/ WalletRefuses(c)

Request(r) ==
  \/ CheckIdempotency(r) \/ CreateBatchTransactionTx(r) \/ Call(r)
  \/ CreateP2PTransaction(r) \/ CreateScheduledTransaction(r)
  \/ NextBatchItem(r) \/ CommitBatch(r) \/ SetIdempotency(r)

Worker(w) ==
  \/ GetScheduledTransactions(w) \/ ExecuteScheduledTransfer(w) \/ Call(w)
  \/ UpdateTransactionStatusTx(w) \/ MarkTransactionAsFailed(w)

Next ==
  \/ \E r \in Requests : Request(r)
  \/ \E w \in Workers : Worker(w) \/ MarkLost(w)
  \/ \E c \in Callers : CallTimesOut(c) \/ RecordFails(c) \/ RecordUnacknowledged(c) \/ Abandon(c)
  \/ \E i \in Ids : StrayCall(i) \/ ExpireKey(i)
  \/ \E k \in Keys : BecomeDue(k)

Spec == Init /\ [][Next]_vars

\* Handlers run on, the tickers fire for as long as a process runs, one that
\* died is started again, and time passes.
FairSpec ==
  /\ Spec
  /\ \A r \in Requests : WF_vars(Request(r))
  /\ \A w \in Workers : WF_vars(Worker(w))
  /\ \A k \in Keys : WF_vars(BecomeDue(k))

-----------------------------------------------------------------------------
(* Safety.                                                                 *)

\* The transfer a row stands for.
Paid(i) ==
  \/ moved[i] > 0
  \/ \E k \in Keys : i = <<k, 0>> /\ moved[Scheduled(k)] > 0

\* A completed row has been paid; what is announced has been paid or is a
\* batch that is recorded; a batch is recorded and announced with all the
\* transfers of a request for it, and none of them without it.
CompletedIsPaid ==
  /\ \A i \in Ids : row[i] = "completed" => Paid(i)
  /\ \A k \in Keys :
       /\ saved[<<k, 0>>] > 0 => Paid(<<k, 0>>) \/ k \in batch
       /\ k \in batch =>
            /\ saved[<<k, 0>>] > 0
            /\ \E r \in Requests :
                 /\ Key[r] = k /\ Kind[r] = "batch"
                 /\ \A i \in 1..Items[r] : row[<<k, i>>] = "completed"
       /\ \A i \in 1..MaxItems : row[<<k, i>>] = "completed" => k \in batch

\* Without a fault no payment goes unrecorded: once the requests under a key
\* are over, a P2P transfer that moved money has its row and its event.
PaidIsRecorded ==
  \A k \in Keys :
    LET R == {r \in Requests : Key[r] = k} IN
    (/\ \A r \in R : Kind[r] = "p2p" /\ pc[r] = "done"
     /\ moved[<<k, 0>>] > 0)
    => (row[<<k, 0>>] = "completed" /\ saved[<<k, 0>>] = 1) \/ faults > 0

\* Whatever is tried again, by a client after the last answer, by a worker
\* after a crash between the payment and the record of it, is paid once, as
\* long as its key does not lapse.
RetryPaysOnce == \A i \in Ids \ lapsed : moved[i] <= 1

\* The keys of the calls that requests and workers make of the wallet service.
CallIds ==
  UNION {CASE Kind[r] = "p2p"       -> {Own(r)}
           [] Kind[r] = "batch"     -> {Key[r]} \X (1..Items[r])
           [] Kind[r] = "scheduled" -> {Scheduled(Key[r])} : r \in Requests}

\* What this module says of the wallet service, and of the keys the two share,
\* is what module Wallet implements: no call is admitted under a used key, no key
\* is used but for money that moved, no money moves without an admitted call.
Calls == INSTANCE KeyedCalls WITH
  Ids   <- CallIds,
  used  <- used \cap CallIds,
  moved <- [i \in CallIds |-> moved[i]],
  open  <- [i \in CallIds |-> stray[i] + Cardinality({c \in Callers : pc[c] = "admitted" /\ WalletKey(c) = i})]

KeyDiscipline == Calls!Spec

\* A scheduled transfer that failed has not been paid, unless a fault hid the payment or more
\* than one instance of the worker runs.
FailedIsUnpaid ==
  (\A v, w \in Workers : v = w) /\ faults = 0 =>
    \A k \in Keys : row[<<k, 0>>] = "failed" => moved[Scheduled(k)] = 0

\* What BatchTransaction's comment says: all transfers of a batch or none.
BatchAtomic ==
  \A r \in Requests :
    Kind[r] = "batch" /\ pc[r] = "done" =>
      \A i, j \in 1..Items[r] : moved[<<Key[r], i>>] > 0 <=> moved[<<Key[r], j>>] > 0

-----------------------------------------------------------------------------
(* Liveness.                                                               *)

\* Every request is answered: none waits for ever for the key of a batch.
AllAnswered == \A r \in Requests : <>(pc[r] = "done")

\* A scheduled transfer is completed or marked as failed in the end.
ScheduledSettles ==
  \A k \in Keys : row[<<k, 0>>] = "scheduled" ~> row[<<k, 0>>] \in {"completed", "failed"}
=============================================================================
