--------------------------- MODULE TransactionProofs ---------------------------
(***************************************************************************)
(* Theorems about the transaction service and the wallet service it calls,  *)
(* for any number of requests, keys, workers, transfers and faults.         *)
(***************************************************************************)
EXTENDS Transaction, FiniteSetTheorems, TLAPS

USE TransactionConstants

-----------------------------------------------------------------------------
(* Keys.                                                                   *)

\* The keys of the rows and of the calls are all different.
LEMMA KeysDiffer ==
  /\ \A k \in Keys : <<k, 0>> \in Ids /\ Scheduled(k) \in Ids
  /\ \A k \in Keys, i \in 1..MaxItems : <<k, i>> \in Ids
  /\ \A k, l \in Keys : <<k, 0>> # Scheduled(l) /\ (Scheduled(k) = Scheduled(l) => k = l)
  /\ \A k, l \in Keys, i \in 1..MaxItems : <<k, i>> # <<l, 0>> /\ <<k, i>> # Scheduled(l)
  /\ \A r \in Requests : Own(r) \in Ids /\ Own(r) = <<Key[r], 0>> /\ Key[r] \in Keys
BY DEF Ids, Scheduled, Own

\* The keys of scheduled transfers.
Dated == {Key[r] : r \in {q \in Requests : Kind[q] = "scheduled"}}

\* Which steps the callers take, and that a worker only has scheduled transfers.
Control ==
  /\ \A r \in Requests :
       /\ pc[r] \notin {"idle", "fail"}
       /\ pc[r] = "insert" => Kind[r] = "batch"
       /\ pc[r] \in {"call", "admitted"} => Kind[r] # "scheduled"
       /\ item[r] <= Items[r]
  /\ \A w \in Workers :
       /\ pc[w] \in {"idle", "call", "admitted", "record", "fail"}
       /\ pc[w] # "idle" => job[w] \in Dated
       /\ todo[w] \subseteq Dated
  /\ due \subseteq Dated
  /\ \A k \in Keys : row[<<k, 0>>] = "scheduled" => k \in Dated

TypeInv == TypeOK /\ Control

\* The key of a call that is being made is one of the keys.
LEMMA CallKey ==
  ASSUME TypeInv, NEW c \in Callers, pc[c] \in {"call", "admitted", "record"}
  PROVE  /\ WalletKey(c) \in Ids
         /\ c \in Requests /\ Kind[c] = "batch" => WalletKey(c) = <<Key[c], item[c]>> /\ item[c] \in 1..MaxItems
         /\ c \in Requests /\ Kind[c] # "batch" => WalletKey(c) = <<Key[c], 0>>
         /\ c \in Workers => WalletKey(c) = Scheduled(job[c]) /\ job[c] \in Dated
<1>1. CASE c \in Workers
  <2>1. job[c] \in Dated /\ Dated \subseteq Keys
    BY <1>1 DEF TypeInv, Control, Dated
  <2> QED BY <1>1, <2>1, KeysDiffer DEF WalletKey
<1>2. CASE c \in Requests
  <2>1. item[c] \in 1..MaxItems /\ Key[c] \in Keys /\ c \notin Workers
    BY <1>2 DEF TypeInv, TypeOK
  <2> QED BY <1>2, <2>1, KeysDiffer DEF WalletKey
<1> QED BY <1>1, <1>2 DEF Callers

\* An error ends a request and sends a worker to record it.
LEMMA FailMoves ==
  ASSUME TypeOK, NEW c \in Callers, Fail(c)
  PROVE  /\ \E l \in {"done", "fail"} : pc' = [pc EXCEPT ![c] = l] /\ (l = "done" <=> c \in Requests)
         /\ inserting' \in [Keys -> Requests \cup {NoRequest}]
         /\ outcome' \in [Requests -> {"none", "ok", "error"}]
BY DEF Fail, End, Goto, TypeOK, Callers

-----------------------------------------------------------------------------
(* Types.                                                                  *)

\* One more of something leaves a number, and the others as they are.
LEMMA Increment ==
  ASSUME NEW f \in [Ids -> Nat], NEW i
  PROVE  /\ [f EXCEPT ![i] = @ + 1] \in [Ids -> Nat]
         /\ \A j \in Ids : [f EXCEPT ![i] = @ + 1][j] = IF j = i THEN f[j] + 1 ELSE f[j]
<1> DEFINE g == [j \in Ids |-> IF j = i THEN f[j] + 1 ELSE f[j]]
<1>1. [f EXCEPT ![i] = @ + 1] = g
  OBVIOUS
<1>2. g \in [Ids -> Nat]
  OBVIOUS
<1> QED BY <1>1, <1>2

\* What a transaction writes has the types of the tables, and schedules only
\* what the request is for.
LEMMA WrittenTypes ==
  ASSUME TypeInv, NEW c \in Callers, pc[c] = "record", Written(c)
  PROVE  /\ row' \in [Ids -> {"none", "scheduled", "completed", "failed"}] /\ saved' \in [Ids -> Nat]
         /\ batch' \subseteq Keys
         /\ \A k \in Keys : row'[<<k, 0>>] = "scheduled" => k \in Dated
<1> DEFINE Goal == /\ row' \in [Ids -> {"none", "scheduled", "completed", "failed"}] /\ saved' \in [Ids -> Nat]
                   /\ batch' \subseteq Keys
                   /\ \A k \in Keys : row'[<<k, 0>>] = "scheduled" => k \in Dated
<1>0. /\ row \in [Ids -> {"none", "scheduled", "completed", "failed"}] /\ saved \in [Ids -> Nat]
      /\ batch \subseteq Keys
      /\ \A k \in Keys : row[<<k, 0>>] = "scheduled" => k \in Dated
      /\ \A k \in Keys : <<k, 0>> \in Ids
  BY KeysDiffer DEF TypeInv, TypeOK, Control
<1>1. ASSUME NEW S, Complete(S)
      PROVE  /\ row' \in [Ids -> {"none", "scheduled", "completed", "failed"}]
             /\ \A k \in Keys : row'[<<k, 0>>] = "scheduled" => k \in Dated
  BY <1>0, <1>1 DEF Complete
<1>2. ASSUME NEW i, Announce(i) PROVE saved' \in [Ids -> Nat]
  BY <1>0, <1>2, Increment DEF Announce
<1>3. CASE c \in Requests /\ Complete({Own(c)}) /\ Announce(Own(c)) /\ UNCHANGED batch
  BY <1>0, <1>1, <1>2, <1>3
<1>4. CASE /\ c \in Requests /\ Kind[c] = "scheduled"
           /\ row' = [row EXCEPT ![Own(c)] = "scheduled"] /\ UNCHANGED <<saved, batch>>
  <2>1. \A k \in Keys : <<k, 0>> = Own(c) => k \in Dated
    BY <1>4, KeysDiffer DEF Dated
  <2>2. \A k \in Keys : row'[<<k, 0>>] = row[<<k, 0>>] \/ <<k, 0>> = Own(c)
    BY <1>0, <1>4
  <2> QED BY <1>0, <1>4, <2>1, <2>2
<1>5. CASE /\ c \in Requests /\ Complete({Key[c]} \X (1..Items[c])) /\ Announce(Own(c))
           /\ batch' = batch \cup {Key[c]}
  BY <1>0, <1>1, <1>2, <1>5
<1>6. CASE row' = [row EXCEPT ![<<job[c], 0>>] = "completed"] /\ Announce(<<job[c], 0>>) /\ UNCHANGED batch
  BY <1>0, <1>2, <1>6
<1> HIDE DEF Goal
<1>7. Goal
  BY <1>3, <1>4, <1>5, <1>6 DEF Written, Goal
<1> QED BY <1>7 DEF Goal

\* The actions of requests and workers, one by one.
LEMMA TypesKept == TypeInv /\ [Next]_vars => TypeInv'
<1> SUFFICES ASSUME TypeInv, [Next]_vars PROVE TypeInv'
  OBVIOUS
<1> USE DEF TypeInv, TypeOK, Control, Goto, End, NoFault, Fault, wallet, tables, rounds
<1>1. ASSUME NEW r \in Requests, CheckIdempotency(r) PROVE TypeInv'
  BY <1>1 DEF CheckIdempotency, Callers
<1>2. ASSUME NEW r \in Requests, CreateBatchTransactionTx(r) PROVE TypeInv'
  BY <1>2 DEF CreateBatchTransactionTx, Callers
<1>3. ASSUME NEW c \in Callers, Admit(c) PROVE TypeInv'
  BY <1>3 DEF Admit, Callers, Fail
<1>4. ASSUME NEW c \in Callers, WalletTransfer(c) PROVE TypeInv'
  BY <1>4, CallKey DEF WalletTransfer, MoveMoney, Callers
<1>5. ASSUME NEW c \in Callers, WalletRefuses(c) PROVE TypeInv'
  BY <1>5 DEF WalletRefuses, LooksUp, Callers, Fail
<1>6. ASSUME NEW r \in Requests, CreateP2PTransaction(r) PROVE TypeInv'
  <2>1. row' \in [Ids -> {"none", "scheduled", "completed", "failed"}] /\ saved' \in [Ids -> Nat]
    BY <1>6, KeysDiffer DEF CreateP2PTransaction, Complete, Announce
  <2>2. \A k \in Keys : row'[<<k, 0>>] = "scheduled" => row[<<k, 0>>] = "scheduled"
    BY <1>6, KeysDiffer DEF CreateP2PTransaction, Complete
  <2> QED BY <1>6, <2>1, <2>2 DEF CreateP2PTransaction, Callers
<1>7. ASSUME NEW r \in Requests, CreateScheduledTransaction(r) PROVE TypeInv'
  <2>4. row' = row \/ row' = [row EXCEPT ![Own(r)] = "scheduled"]
    BY <1>7 DEF CreateScheduledTransaction
  <2>1. row' \in [Ids -> {"none", "scheduled", "completed", "failed"}]
    BY <2>4
  <2>2. Key[r] \in Dated
    BY <1>7 DEF CreateScheduledTransaction, Dated
  <2>3. \A k \in Keys : row'[<<k, 0>>] = "scheduled" => k \in Dated
    <3>1. \A k \in Keys : <<k, 0>> = Own(r) => k \in Dated
      BY <2>2, KeysDiffer
    <3>2. \A k \in Keys : row'[<<k, 0>>] = row[<<k, 0>>] \/ <<k, 0>> = Own(r)
      BY <2>4, KeysDiffer
    <3> QED BY <3>1, <3>2
  <2> QED BY <1>7, <2>1, <2>3 DEF CreateScheduledTransaction, Callers
<1>8. ASSUME NEW r \in Requests, NextBatchItem(r) PROVE TypeInv'
  BY <1>8 DEF NextBatchItem, Callers
<1>9. ASSUME NEW r \in Requests, CommitBatch(r) PROVE TypeInv'
  <2>1. row' \in [Ids -> {"none", "scheduled", "completed", "failed"}] /\ saved' \in [Ids -> Nat]
    BY <1>9, KeysDiffer DEF CommitBatch, Complete, Announce
  <2>2. \A k \in Keys : row'[<<k, 0>>] = "scheduled" => row[<<k, 0>>] = "scheduled"
    BY <1>9, KeysDiffer DEF CommitBatch, Complete
  <2> QED BY <1>9, <2>1, <2>2 DEF CommitBatch, Callers
<1>10. ASSUME NEW r \in Requests, SetIdempotency(r) PROVE TypeInv'
  BY <1>10, KeysDiffer DEF SetIdempotency, Callers
<1>11. ASSUME NEW w \in Workers, GetScheduledTransactions(w) PROVE TypeInv'
  BY <1>11 DEF GetScheduledTransactions, Callers
<1>12. ASSUME NEW w \in Workers, ExecuteScheduledTransfer(w) PROVE TypeInv'
  BY <1>12 DEF ExecuteScheduledTransfer, Callers, Dated
<1>13. ASSUME NEW w \in Workers, UpdateTransactionStatusTx(w) PROVE TypeInv'
  <2>1. row' \in [Ids -> {"none", "scheduled", "completed", "failed"}]
    BY <1>13, KeysDiffer DEF UpdateTransactionStatusTx, Settle
  <2>3. saved' \in [Ids -> Nat]
    BY <1>13, Increment DEF UpdateTransactionStatusTx, Announce
  <2>2. \A k \in Keys : row'[<<k, 0>>] = "scheduled" => row[<<k, 0>>] = "scheduled"
    BY <1>13, KeysDiffer DEF UpdateTransactionStatusTx, Settle
  <2> QED BY <1>13, <2>1, <2>2, <2>3 DEF UpdateTransactionStatusTx, Settle, Callers
<1>14. ASSUME NEW w \in Workers, MarkTransactionAsFailed(w) PROVE TypeInv'
  <2>1. row' \in [Ids -> {"none", "scheduled", "completed", "failed"}] /\ saved' \in [Ids -> Nat]
    BY <1>14, KeysDiffer DEF MarkTransactionAsFailed, Settle
  <2>2. \A k \in Keys : row'[<<k, 0>>] = "scheduled" => row[<<k, 0>>] = "scheduled"
    BY <1>14, KeysDiffer DEF MarkTransactionAsFailed, Settle
  <2> QED BY <1>14, <2>1, <2>2 DEF MarkTransactionAsFailed, Settle, Callers
<1>15. ASSUME NEW w \in Workers, MarkLost(w) PROVE TypeInv'
  BY <1>15 DEF MarkLost, Callers
<1>16. ASSUME NEW c \in Callers, CallTimesOut(c) PROVE TypeInv'
  BY SMTT(30), <1>16, CallKey DEF CallTimesOut, LeaveCall, Callers, Fail
<1>17. ASSUME NEW c \in Callers, RecordFails(c) PROVE TypeInv'
  BY <1>17 DEF RecordFails, Callers, Fail
<1>18. ASSUME NEW c \in Callers, Abandon(c) PROVE TypeInv'
  BY SMTT(30), <1>18, CallKey DEF Abandon, LeaveCall, Callers
<1>19. ASSUME NEW i \in Ids, StrayCall(i) PROVE TypeInv'
  BY <1>19 DEF StrayCall, MoveMoney
<1>20. ASSUME NEW i \in Ids, ExpireKey(i) PROVE TypeInv'
  BY <1>20 DEF ExpireKey
<1>21. ASSUME NEW k \in Keys, BecomeDue(k) PROVE TypeInv'
  BY <1>21 DEF BecomeDue
<1>22. CASE UNCHANGED vars
  BY <1>22 DEF vars
<1>23. ASSUME NEW c \in Callers, RecordUnacknowledged(c) PROVE TypeInv'
  <2>1. /\ row' \in [Ids -> {"none", "scheduled", "completed", "failed"}] /\ saved' \in [Ids -> Nat]
        /\ batch' \subseteq Keys
        /\ \A k \in Keys : row'[<<k, 0>>] = "scheduled" => k \in Dated
    <3> HIDE DEF TypeInv
    <3> QED BY <1>23, WrittenTypes DEF RecordUnacknowledged
  <2> QED BY <1>23, <2>1 DEF RecordUnacknowledged, Callers, Fail
<1> HIDE DEF TypeInv
<1> QED
  BY <1>1, <1>2, <1>3, <1>4, <1>5, <1>6, <1>7, <1>8, <1>9, <1>10, <1>11, <1>12, <1>13, <1>14,
     <1>15, <1>16, <1>17, <1>18, <1>19, <1>20, <1>21, <1>22, <1>23 DEF Next, Request, Worker, Call, Callers

\* The invariant behind the types.
LEMMA TypeInvariant == Spec => []TypeInv
<1>1. Init => TypeInv
  BY KeysDiffer DEF Init, TypeInv, TypeOK, Control, Callers, Dated
<1> QED BY <1>1, TypesKept, PTL DEF Spec

\* Every variable of the two services keeps its type.
THEOREM TransactionTypeCorrect == Spec => []TypeOK
<1>1. TypeInv => TypeOK
  BY DEF TypeInv
<1> QED BY <1>1, TypeInvariant, PTL

-----------------------------------------------------------------------------
(* Money.                                                                  *)

\* The ways a step changes what the wallet service has: it leaves the money
\* alone, the calls that a caller gives up set aside; or it moves some.
Leaves(c) ==
  /\ pc[c] = "admitted" /\ LeaveCall(c) /\ UNCHANGED <<used, moved>>
  /\ pc'[c] # "admitted" /\ pc'[c] # "record" /\ Fault

Moves(i) ==
  \/ \E c \in Callers : i = WalletKey(c) /\ WalletTransfer(c)
  \/ StrayCall(i) /\ MoveMoney(i)

Still ==
  \/ UNCHANGED <<moved, stray, lapsed, used>>
  \/ \E i \in Ids : StrayCall(i) /\ UNCHANGED <<moved, used, lapsed>>
  \/ \E i \in Ids : ExpireKey(i)
  \/ \E r \in Requests : SetIdempotency(r)
  \/ \E c \in Callers : Leaves(c)

\* Every step is one or the other.
LEMMA MoneyStep ==
  ASSUME TypeInv, [Next]_vars
  PROVE  Still \/ \E i \in Ids : Moves(i)
<1> USE DEF wallet, tables, rounds, Still
<1>1. ASSUME NEW r \in Requests, Request(r) PROVE Still \/ \E i \in Ids : Moves(i)
  <2>1. CASE WalletTransfer(r)
    BY <2>1, CallKey DEF Moves, WalletTransfer, Callers
  <2> QED BY <1>1, <2>1 DEF Request, CheckIdempotency, CreateBatchTransactionTx, Call, Admit, WalletRefuses,
        CreateP2PTransaction, CreateScheduledTransaction, NextBatchItem, CommitBatch
<1>2. ASSUME NEW w \in Workers, Worker(w) \/ MarkLost(w) PROVE Still \/ \E i \in Ids : Moves(i)
  <2>1. CASE WalletTransfer(w)
    BY <2>1, CallKey DEF Moves, WalletTransfer, Callers
  <2> QED BY <1>2, <2>1 DEF Worker, Call, Admit, WalletRefuses, GetScheduledTransactions, MarkLost,
        ExecuteScheduledTransfer, UpdateTransactionStatusTx, MarkTransactionAsFailed
<1>3. ASSUME NEW c \in Callers, CallTimesOut(c) \/ RecordFails(c) \/ RecordUnacknowledged(c) \/ Abandon(c)
      PROVE  Still
  <2>1. CASE CallTimesOut(c)
    <3>1. Leaves(c)
      BY <2>1, FailMoves DEF CallTimesOut, Leaves, TypeInv, TypeOK
    <3> QED BY <3>1
  <2>2. CASE Abandon(c) /\ pc[c] = "admitted"
    <3>1. Leaves(c)
      BY <2>2 DEF Abandon, Leaves, TypeInv, TypeOK, Callers, End, Goto
    <3> QED BY <3>1
  <2> QED BY <1>3, <2>1, <2>2 DEF RecordFails, RecordUnacknowledged, Abandon
<1>4. ASSUME NEW i \in Ids, StrayCall(i) PROVE Still \/ Moves(i)
  BY <1>4 DEF StrayCall, Moves
<1>5. ASSUME NEW k \in Keys, BecomeDue(k) PROVE Still
  BY <1>5 DEF BecomeDue
<1>6. CASE UNCHANGED vars
  BY <1>6 DEF vars
<1> HIDE DEF Still
<1>7. (\E i \in Ids : ExpireKey(i)) => Still
  BY DEF Still
<1> QED BY <1>1, <1>2, <1>3, <1>4, <1>5, <1>6, <1>7 DEF Next

\* How a caller comes to have a call admitted, or a payment to record; the key
\* it called under is the same throughout.
LEMMA CallSteps ==
  ASSUME TypeInv, [Next]_vars, NEW c \in Callers, pc'[c] \in {"admitted", "record"}
  PROVE  /\ WalletKey(c)' = WalletKey(c)
         /\ \/ pc'[c] = pc[c]
            \/ pc'[c] = "admitted" /\ Admit(c) /\ WalletKey(c) \notin used
            \/ pc'[c] = "record" /\ WalletTransfer(c)
            \/ pc'[c] = "record" /\ c \in Requests /\ Kind[c] = "scheduled"
<1> DEFINE Comes ==
      \/ pc'[c] = pc[c]
      \/ pc'[c] = "admitted" /\ Admit(c) /\ WalletKey(c) \notin used
      \/ pc'[c] = "record" /\ WalletTransfer(c)
      \/ pc'[c] = "record" /\ c \in Requests /\ Kind[c] = "scheduled"
<1> DEFINE Keeps == (c \in Requests => item'[c] = item[c]) /\ (c \in Workers => job'[c] = job[c])
<1> USE DEF TypeInv, TypeOK, Control, Goto, End, wallet, tables, rounds, Callers
<1>1. ASSUME NEW r \in Requests, CheckIdempotency(r) \/ CreateBatchTransactionTx(r) PROVE Keeps /\ Comes
  BY <1>1 DEF CheckIdempotency, CreateBatchTransactionTx
<1>2. ASSUME NEW d \in Callers, Admit(d) PROVE Keeps /\ Comes
  BY <1>2 DEF Admit, Fail
<1>3. ASSUME NEW d \in Callers, WalletTransfer(d) PROVE Keeps /\ Comes
  BY <1>3 DEF WalletTransfer
<1>4. ASSUME NEW d \in Callers, WalletRefuses(d) \/ CallTimesOut(d) \/ RecordFails(d) \/ RecordUnacknowledged(d)
      PROVE  Keeps /\ Comes
  BY <1>4 DEF WalletRefuses, CallTimesOut, RecordFails, RecordUnacknowledged, Fail
<1>5. ASSUME NEW r \in Requests, CreateP2PTransaction(r) \/ CreateScheduledTransaction(r) PROVE Keeps /\ Comes
  BY <1>5 DEF CreateP2PTransaction, CreateScheduledTransaction
<1>6. ASSUME NEW r \in Requests, NextBatchItem(r) \/ CommitBatch(r) \/ SetIdempotency(r) PROVE Keeps /\ Comes
  BY <1>6 DEF NextBatchItem, CommitBatch, SetIdempotency
<1>7. ASSUME NEW w \in Workers,
             \/ GetScheduledTransactions(w) \/ ExecuteScheduledTransfer(w) \/ UpdateTransactionStatusTx(w)
             \/ MarkTransactionAsFailed(w) \/ MarkLost(w)
      PROVE  Keeps /\ Comes
  BY <1>7 DEF GetScheduledTransactions, ExecuteScheduledTransfer, UpdateTransactionStatusTx,
        MarkTransactionAsFailed, MarkLost, Settle
<1>8. ASSUME NEW d \in Callers, Abandon(d) PROVE Keeps /\ Comes
  BY <1>8 DEF Abandon
<1>9. ASSUME \/ \E i \in Ids : StrayCall(i) \/ ExpireKey(i)
             \/ \E k \in Keys : BecomeDue(k)
             \/ UNCHANGED vars
      PROVE  Keeps /\ Comes
  BY <1>9 DEF StrayCall, ExpireKey, BecomeDue, vars
<1>10. Keeps /\ Comes
  BY <1>1, <1>2, <1>3, <1>4, <1>5, <1>6, <1>7, <1>8, <1>9 DEF Next, Request, Worker, Call
<1>11. WalletKey(c)' = WalletKey(c)
  BY <1>10 DEF WalletKey
<1> QED BY <1>10, <1>11

-----------------------------------------------------------------------------
(* What is tried again is paid once.                                       *)

\* No two calls under one key are admitted at a time.
AdmittedAlone ==
  \A c, d \in Callers :
    c # d /\ pc[c] = "admitted" /\ pc[d] = "admitted" => WalletKey(c) # WalletKey(d)

\* Under a key that has not lapsed, money that moved has used the key, and a
\* call that is admitted has moved none yet.
OncePerKey ==
  /\ \A i \in Ids \ lapsed : stray[i] = 0 /\ moved[i] \in {0, 1} /\ (moved[i] = 1 => i \in used)
  /\ \A c \in Callers : pc[c] = "admitted" /\ WalletKey(c) \notin lapsed => moved[WalletKey(c)] = 0

\* The keys after a step that moves no money.
LEMMA StillOnce ==
  ASSUME TypeInv, OncePerKey, Still
  PROVE  /\ lapsed \subseteq lapsed' /\ moved' = moved
         /\ \A i \in Ids \ lapsed' : stray'[i] = 0 /\ (moved[i] = 1 => i \in used')
<1> USE DEF OncePerKey, TypeInv, TypeOK, wallet
<1>1. CASE UNCHANGED <<moved, stray, lapsed, used>>
  BY <1>1
<1>2. ASSUME NEW i \in Ids, StrayCall(i) /\ UNCHANGED <<moved, used, lapsed>>
      PROVE  /\ lapsed \subseteq lapsed' /\ moved' = moved
             /\ \A j \in Ids \ lapsed' : stray'[j] = 0 /\ (moved[j] = 1 => j \in used')
  BY <1>2 DEF StrayCall
<1>3. CASE \E i \in Ids : ExpireKey(i)
  BY <1>3 DEF ExpireKey
<1>4. CASE \E r \in Requests : SetIdempotency(r)
  BY <1>4 DEF SetIdempotency
<1>5. CASE \E c \in Callers : Leaves(c)
  BY <1>5, CallKey DEF Leaves, LeaveCall
<1> QED BY <1>1, <1>2, <1>3, <1>4, <1>5 DEF Still

\* The keys after a step that moves money, if no other call under the key is
\* admitted.
LEMMA OnceStep ==
  ASSUME TypeInv, OncePerKey, AdmittedAlone, [Next]_vars
  PROVE  OncePerKey'
<1> USE DEF OncePerKey, TypeInv, TypeOK, wallet
<1>a. \A c \in Callers : pc[c] = "admitted" => WalletKey(c) \in Ids
  BY CallKey
<1>1. CASE Still
  <2>1. /\ lapsed \subseteq lapsed' /\ moved' = moved
        /\ \A i \in Ids \ lapsed' : stray'[i] = 0 /\ (moved[i] = 1 => i \in used')
    BY <1>1, StillOnce
  <2>2. ASSUME NEW c \in Callers, pc'[c] = "admitted", WalletKey(c)' \notin lapsed'
        PROVE  moved[WalletKey(c)'] = 0
    <3>1. /\ WalletKey(c)' = WalletKey(c)
          /\ pc'[c] = pc[c] \/ (Admit(c) /\ WalletKey(c) \notin used)
      <4> HIDE DEF TypeInv
      <4> QED BY <2>2, CallSteps
    <3>2. CASE Admit(c) /\ WalletKey(c) \notin used
      <4>1. WalletKey(c) \in Ids
        BY <3>2, CallKey DEF Admit
      <4> QED BY <2>1, <2>2, <3>1, <3>2, <4>1
    <3> QED BY <2>1, <2>2, <3>1, <3>2
  <2> QED BY <2>1, <2>2
<1>2. ASSUME NEW i \in Ids, Moves(i) PROVE OncePerKey'
  <2>1. /\ moved' = [moved EXCEPT ![i] = @ + 1]
        /\ \/ used' = used \cup {i} /\ lapsed' = lapsed
           \/ used' = used /\ lapsed' = lapsed \cup {i}
    BY <1>2 DEF Moves, WalletTransfer, MoveMoney
  <2>2. \A j \in Ids \ {i} : moved'[j] = moved[j]
    BY <2>1
  <2>3. i \notin lapsed => (stray' = stray /\ \E c \in Callers : i = WalletKey(c) /\ WalletTransfer(c))
    BY <1>2 DEF Moves, StrayCall, WalletTransfer
  <2>4. \A j \in Ids : j \notin lapsed => stray'[j] = 0
    BY <1>2 DEF Moves, StrayCall, WalletTransfer
  <2>5. i \notin lapsed => moved[i] = 0 /\ moved'[i] = 1
    BY <2>1, <2>3 DEF WalletTransfer
  <2>6. \A j \in Ids \ lapsed' : stray'[j] = 0 /\ moved'[j] \in {0, 1} /\ (moved'[j] = 1 => j \in used')
    BY <2>1, <2>2, <2>4, <2>5
  <2>7. ASSUME NEW d \in Callers, pc'[d] = "admitted", WalletKey(d)' \notin lapsed'
        PROVE  moved'[WalletKey(d)'] = 0
    <3>1. WalletKey(d)' = WalletKey(d) /\ (pc[d] = "admitted" \/ Admit(d))
      BY <2>7, CallSteps
    <3>2. pc[d] = "admitted"
      BY <1>2, <3>1 DEF Moves, Admit, WalletTransfer, StrayCall, Goto, MoveMoney, Fail, End
    <3>3. CASE WalletKey(d) # i
      BY <1>a, <2>1, <2>2, <2>7, <3>1, <3>2, <3>3
    <3>4. CASE WalletKey(d) = i
      <4>1. i \notin lapsed
        BY <2>1, <2>7, <3>1, <3>4
      <4>2. PICK c \in Callers : i = WalletKey(c) /\ WalletTransfer(c)
        BY <2>3, <4>1
      <4>3. c = d
        BY <3>2, <3>4, <4>2 DEF AdmittedAlone, WalletTransfer
      <4>4. pc'[c] = "record"
        BY <4>2 DEF WalletTransfer, Goto
      <4> QED BY <2>7, <4>3, <4>4
    <3> QED BY <3>3, <3>4
  <2> QED BY <2>6, <2>7
<1> QED BY <1>1, <1>2, MoneyStep

\* A client sends a P2P transfer again only when it has the answer to the last
\* time, however often it does; Before are the earlier requests of each.  One
\* instance of the worker runs.  Batches may be sent at any time.
Follows(Before) ==
  /\ Before \in [Requests -> SUBSET Requests]
  /\ \A r \in Requests : After[r] = NoRequest => Before[r] = {}
  /\ \A r \in Requests : After[r] # NoRequest => Before[r] \subseteq {After[r]} \cup Before[After[r]]
  /\ \A r, s \in Requests :
       r # s /\ Key[r] = Key[s] /\ Kind[r] = "p2p" /\ Kind[s] = "p2p" => r \in Before[s] \/ s \in Before[r]

RetriesInTurn ==
  /\ \E Before \in [Requests -> SUBSET Requests] : Follows(Before)
  /\ \A v, w \in Workers : v = w

\* A request has begun only when those before it are over, and a batch holds its
\* key for as long as it makes calls.
InTurn(Before) ==
  /\ \A r \in Requests : pc[r] # "check" => \A s \in Before[r] : pc[s] = "done"
  /\ \A r \in Requests :
       Kind[r] = "batch" /\ pc[r] \in {"call", "admitted", "record"} => inserting[Key[r]] = r

\* A request begins with the lookup of its key, and does not begin again.
LEMMA Begins ==
  ASSUME TypeInv, [Next]_vars, NEW r \in Requests
  PROVE  /\ pc[r] = "done" => pc'[r] = "done"
         /\ pc[r] = "check" /\ pc'[r] # "check" => CheckIdempotency(r)
<1> DEFINE Goal == /\ pc[r] = "done" => pc'[r] = "done"
                   /\ pc[r] = "check" /\ pc'[r] # "check" => CheckIdempotency(r)
<1> USE DEF TypeInv, TypeOK, Goto, End, wallet, tables, rounds, Callers
<1>1. ASSUME NEW s \in Requests, CheckIdempotency(s) PROVE Goal
  BY <1>1 DEF CheckIdempotency
<1>2. ASSUME NEW d \in Callers,
             \/ Admit(d) \/ WalletTransfer(d) \/ WalletRefuses(d) \/ CallTimesOut(d)
             \/ RecordFails(d) \/ RecordUnacknowledged(d)
      PROVE  Goal
  BY <1>2 DEF Admit, WalletTransfer, WalletRefuses, LooksUp, CallTimesOut, RecordFails, RecordUnacknowledged, Fail
<1>3. ASSUME NEW s \in Requests,
             \/ CreateBatchTransactionTx(s) \/ CreateP2PTransaction(s) \/ CreateScheduledTransaction(s)
             \/ NextBatchItem(s) \/ CommitBatch(s) \/ SetIdempotency(s)
      PROVE Goal
  BY <1>3 DEF CreateBatchTransactionTx, CreateP2PTransaction, CreateScheduledTransaction,
        NextBatchItem, CommitBatch, SetIdempotency
<1>4. ASSUME NEW w \in Workers,
             \/ GetScheduledTransactions(w) \/ ExecuteScheduledTransfer(w) \/ UpdateTransactionStatusTx(w)
             \/ MarkTransactionAsFailed(w) \/ MarkLost(w)
      PROVE  Goal
  BY <1>4 DEF GetScheduledTransactions, ExecuteScheduledTransfer, UpdateTransactionStatusTx,
        MarkTransactionAsFailed, MarkLost, Settle
<1>5. ASSUME NEW d \in Callers, Abandon(d) PROVE Goal
  BY <1>5 DEF Abandon
<1>6. ASSUME \/ \E i \in Ids : StrayCall(i) \/ ExpireKey(i)
             \/ \E k \in Keys : BecomeDue(k)
             \/ UNCHANGED vars
      PROVE  Goal
  BY <1>6 DEF StrayCall, ExpireKey, BecomeDue, vars
<1> QED BY <1>1, <1>2, <1>3, <1>4, <1>5, <1>6 DEF Next, Request, Worker, Call

\* Only the request that holds a batch's key lets it go.
LEMMA BatchHolds ==
  ASSUME TypeInv, [Next]_vars, NEW Before, InTurn(Before), NEW r \in Requests, Kind[r] = "batch",
         pc'[r] \in {"call", "admitted", "record"}
  PROVE  inserting'[Key[r]] = r
<1> USE DEF TypeInv, TypeOK, Goto, End, wallet, tables, rounds, Callers, InTurn
<1>1. ASSUME NEW s \in Requests, CheckIdempotency(s) PROVE inserting'[Key[r]] = r
  BY <1>1 DEF CheckIdempotency
<1>2. ASSUME NEW d \in Callers,
             \/ Admit(d) \/ WalletTransfer(d) \/ WalletRefuses(d) \/ CallTimesOut(d)
             \/ RecordFails(d) \/ RecordUnacknowledged(d)
      PROVE  inserting'[Key[r]] = r
  BY <1>2 DEF Admit, WalletTransfer, WalletRefuses, LooksUp, CallTimesOut, RecordFails, RecordUnacknowledged, Fail
<1>3. ASSUME NEW s \in Requests, CreateBatchTransactionTx(s) PROVE inserting'[Key[r]] = r
  BY <1>3 DEF CreateBatchTransactionTx
<1>4. ASSUME NEW s \in Requests,
             \/ CreateP2PTransaction(s) \/ CreateScheduledTransaction(s)
             \/ NextBatchItem(s) \/ SetIdempotency(s)
      PROVE  inserting'[Key[r]] = r
  BY <1>4 DEF CreateP2PTransaction, CreateScheduledTransaction, NextBatchItem, SetIdempotency
<1>5. ASSUME NEW s \in Requests, CommitBatch(s) PROVE inserting'[Key[r]] = r
  BY <1>5 DEF CommitBatch
<1>6. ASSUME NEW w \in Workers,
             \/ GetScheduledTransactions(w) \/ ExecuteScheduledTransfer(w) \/ UpdateTransactionStatusTx(w)
             \/ MarkTransactionAsFailed(w) \/ MarkLost(w)
      PROVE  inserting'[Key[r]] = r
  BY <1>6 DEF GetScheduledTransactions, ExecuteScheduledTransfer, UpdateTransactionStatusTx,
        MarkTransactionAsFailed, MarkLost, Settle
<1>7. ASSUME NEW d \in Callers, Abandon(d) PROVE inserting'[Key[r]] = r
  BY <1>7 DEF Abandon
<1>8. ASSUME \/ \E i \in Ids : StrayCall(i) \/ ExpireKey(i)
             \/ \E k \in Keys : BecomeDue(k)
             \/ UNCHANGED vars
      PROVE  inserting'[Key[r]] = r
  BY <1>8 DEF StrayCall, ExpireKey, BecomeDue, vars
<1> QED BY <1>1, <1>2, <1>3, <1>4, <1>5, <1>6, <1>7, <1>8 DEF Next, Request, Worker, Call

\* Requests stay in turn.
LEMMA InTurnStep ==
  ASSUME TypeInv, [Next]_vars, NEW Before, Follows(Before), InTurn(Before)
  PROVE  InTurn(Before)'
<1>1. ASSUME NEW r \in Requests, pc'[r] # "check", NEW s \in Before[r] PROVE pc'[s] = "done"
  <2>1. s \in Requests
    BY <1>1 DEF Follows
  <2>2. CASE pc[r] # "check"
    BY <2>1, <2>2, Begins DEF InTurn
  <2>3. CASE pc[r] = "check"
    <3>1. CheckIdempotency(r)
      BY <1>1, <2>3, Begins
    <3>2. After[r] \in Requests /\ s \in {After[r]} \cup Before[After[r]]
      BY <1>1 DEF Follows
    <3>3. pc[After[r]] = "done"
      BY <3>1, <3>2 DEF CheckIdempotency
    <3>4. pc[s] = "done"
      BY <3>2, <3>3 DEF InTurn
    <3> QED BY <2>1, <3>4, Begins
  <2> QED BY <2>2, <2>3
<1>2. ASSUME NEW r \in Requests, Kind[r] = "batch", pc'[r] \in {"call", "admitted", "record"}
      PROVE  inserting'[Key[r]] = r
  BY <1>2, BatchHolds
<1> QED BY <1>1, <1>2 DEF InTurn

\* Requests in turn and one worker: no key is called under twice at a time.
LEMMA InTurnAlone ==
  ASSUME TypeInv, NEW Before, Follows(Before), InTurn(Before), \A v, w \in Workers : v = w
  PROVE  AdmittedAlone
<1> SUFFICES ASSUME NEW c \in Callers, NEW d \in Callers, c # d, pc[c] = "admitted", pc[d] = "admitted",
                    WalletKey(c) = WalletKey(d)
             PROVE  FALSE
  BY DEF AdmittedAlone
<1>1. Dated \subseteq Keys
  BY DEF Dated
<1>2. c \in Requests /\ d \in Requests
  BY <1>1, CallKey, KeysDiffer DEF Callers
<1>3. Key[c] = Key[d] /\ (Kind[c] = "batch" <=> Kind[d] = "batch")
  BY <1>2, CallKey, KeysDiffer
<1>4. Kind[c] \in {"p2p", "batch"} /\ Kind[d] \in {"p2p", "batch"}
  BY <1>2 DEF TypeInv, Control
<1>5. CASE Kind[c] = "batch"
  BY <1>2, <1>3, <1>5 DEF InTurn
<1>6. CASE Kind[c] = "p2p"
  BY <1>2, <1>3, <1>4, <1>6 DEF InTurn, Follows
<1> QED BY <1>4, <1>5, <1>6

\* Whatever a client sends again after the last answer, and whatever the worker
\* takes up again after it died between the payment and the record of it, is
\* paid once, unless its key expired or a call was left running.
THEOREM RetriesArePaidOnce ==
  ASSUME RetriesInTurn
  PROVE  Spec => []RetryPaysOnce
<1>1. PICK Before \in [Requests -> SUBSET Requests] : Follows(Before)
  BY DEF RetriesInTurn
<1> DEFINE Inv == TypeInv /\ InTurn(Before) /\ OncePerKey
<1>2. Init => Inv
  <2>1. Init => InTurn(Before) /\ OncePerKey
    BY <1>1 DEF Init, InTurn, OncePerKey, Callers
  <2>2. Init => TypeInv
    BY KeysDiffer DEF Init, TypeInv, TypeOK, Control, Callers, Dated
  <2> QED BY <2>1, <2>2
<1>3. Inv /\ [Next]_vars => Inv'
  <2> SUFFICES ASSUME Inv, [Next]_vars PROVE Inv'
    OBVIOUS
  <2>1. AdmittedAlone
    BY <1>1, InTurnAlone DEF RetriesInTurn
  <2> QED BY <1>1, <2>1, TypesKept, InTurnStep, OnceStep
<1>4. Inv => RetryPaysOnce
  BY DEF OncePerKey, RetryPaysOnce
<1> QED BY <1>2, <1>3, <1>4, PTL DEF Spec

-----------------------------------------------------------------------------
(* What is recorded has been paid.                                         *)

\* The payments behind what the callers are about to record.
Called ==
  /\ \A c \in Callers : pc[c] = "record" /\ (c \in Requests => Kind[c] # "scheduled") => moved[WalletKey(c)] > 0
  /\ \A r \in Requests : Kind[r] = "batch" => \A i \in 1..(item[r] - 1) : moved[<<Key[r], i>>] > 0

PaidInv == TypeInv /\ Called /\ CompletedIsPaid

\* Money is not taken back.
LEMMA MovedGrows ==
  ASSUME TypeInv, [Next]_vars
  PROVE  \A i \in Ids : moved[i] \in Nat /\ moved'[i] \in Nat /\ moved'[i] >= moved[i]
<1>0. moved \in [Ids -> Nat]
  BY DEF TypeInv, TypeOK
<1>1. CASE Still
  BY <1>0, <1>1 DEF Still, wallet, ExpireKey, SetIdempotency, Leaves
<1>2. ASSUME NEW i \in Ids, Moves(i) PROVE moved' = [moved EXCEPT ![i] = @ + 1]
  BY <1>2 DEF Moves, WalletTransfer, MoveMoney
<1> QED BY <1>0, <1>1, <1>2, MoneyStep

\* The steps that write rows and events.
Writes ==
  \/ \E r \in Requests : CreateP2PTransaction(r) \/ CreateScheduledTransaction(r) \/ CommitBatch(r)
  \/ \E w \in Workers : UpdateTransactionStatusTx(w) \/ MarkTransactionAsFailed(w)
  \/ \E c \in Callers : RecordUnacknowledged(c)

\* The others leave the tables alone.
LEMMA TableStep ==
  ASSUME [Next]_vars
  PROVE  UNCHANGED <<row, saved, batch>> \/ Writes
<1> USE DEF wallet, tables, rounds
<1>1. ASSUME NEW r \in Requests, Request(r) PROVE UNCHANGED <<row, saved, batch>> \/ Writes
  BY <1>1 DEF Request, CheckIdempotency, CreateBatchTransactionTx, Call, Admit, WalletTransfer, WalletRefuses,
       NextBatchItem, SetIdempotency, Writes
<1>2. ASSUME NEW w \in Workers, Worker(w) \/ MarkLost(w) PROVE UNCHANGED <<row, saved, batch>> \/ Writes
  BY <1>2 DEF Worker, Call, Admit, WalletTransfer, WalletRefuses, GetScheduledTransactions,
       ExecuteScheduledTransfer, MarkLost, Writes
<1>3. ASSUME NEW c \in Callers, CallTimesOut(c) \/ RecordFails(c) \/ RecordUnacknowledged(c) \/ Abandon(c)
      PROVE  UNCHANGED <<row, saved, batch>> \/ Writes
  BY <1>3 DEF CallTimesOut, RecordFails, Abandon, Writes
<1>4. ASSUME \/ \E i \in Ids : StrayCall(i) \/ ExpireKey(i)
             \/ \E k \in Keys : BecomeDue(k)
             \/ UNCHANGED vars
      PROVE  UNCHANGED <<row, saved, batch>>
  BY <1>4 DEF StrayCall, ExpireKey, BecomeDue, vars
<1> QED BY <1>1, <1>2, <1>3, <1>4 DEF Next

\* Only the next transfer of a batch changes which one a request is at.
LEMMA ItemStep ==
  ASSUME TypeInv, [Next]_vars, NEW r \in Requests
  PROVE  item'[r] = item[r] \/ (NextBatchItem(r) /\ item'[r] = item[r] + 1)
<1> USE DEF wallet, tables, rounds, TypeInv, TypeOK
<1>1. ASSUME NEW s \in Requests, Request(s)
      PROVE  item'[r] = item[r] \/ (NextBatchItem(r) /\ item'[r] = item[r] + 1)
  <2>1. CASE NextBatchItem(s)
    BY <2>1 DEF NextBatchItem
  <2> QED BY <1>1, <2>1 DEF Request, CheckIdempotency, CreateBatchTransactionTx, Call, Admit, WalletTransfer,
        WalletRefuses, CreateP2PTransaction, CreateScheduledTransaction, CommitBatch, SetIdempotency
<1>2. ASSUME NEW w \in Workers, Worker(w) \/ MarkLost(w) PROVE item' = item
  BY <1>2 DEF Worker, Call, Admit, WalletTransfer, WalletRefuses, GetScheduledTransactions, ExecuteScheduledTransfer,
       UpdateTransactionStatusTx, MarkTransactionAsFailed, MarkLost
<1>3. ASSUME NEW c \in Callers, CallTimesOut(c) \/ RecordFails(c) \/ RecordUnacknowledged(c) \/ Abandon(c)
      PROVE  item' = item
  BY <1>3 DEF CallTimesOut, RecordFails, RecordUnacknowledged, Abandon
<1>4. ASSUME \/ \E i \in Ids : StrayCall(i) \/ ExpireKey(i)
             \/ \E k \in Keys : BecomeDue(k)
             \/ UNCHANGED vars
      PROVE  item' = item
  BY <1>4 DEF StrayCall, ExpireKey, BecomeDue, vars
<1> QED BY <1>1, <1>2, <1>3, <1>4 DEF Next

\* What the callers are about to record has been paid.
LEMMA CalledStep ==
  ASSUME TypeInv, Called, [Next]_vars
  PROVE  Called'
<1>1. ASSUME NEW c \in Callers, pc'[c] = "record", c \in Requests => Kind[c] # "scheduled"
      PROVE  moved'[WalletKey(c)'] > 0
  <2>1. /\ WalletKey(c)' = WalletKey(c)
        /\ pc[c] = "record" \/ WalletTransfer(c)
    BY <1>1, CallSteps
  <2>2. WalletKey(c) \in Ids
    BY <2>1, CallKey DEF WalletTransfer
  <2>3. CASE pc[c] = "record"
    <3>1. moved[WalletKey(c)] > 0
      BY <1>1, <2>3 DEF Called
    <3> QED BY <2>1, <2>2, <3>1, MovedGrows
  <2>4. CASE WalletTransfer(c)
    <3>1. moved' = [moved EXCEPT ![WalletKey(c)] = @ + 1] /\ moved \in [Ids -> Nat]
      BY <2>4 DEF WalletTransfer, MoveMoney, TypeInv, TypeOK
    <3> QED BY <2>1, <2>2, <3>1
  <2> QED BY <2>1, <2>3, <2>4
<1>2. ASSUME NEW r \in Requests, Kind[r] = "batch", NEW i \in 1..(item'[r] - 1)
      PROVE  moved'[<<Key[r], i>>] > 0
  <2>1. item[r] \in 1..MaxItems /\ item'[r] \in 1..MaxItems /\ r \in Callers /\ r \notin Workers
    BY TypesKept DEF TypeInv, TypeOK, Callers
  <2>2. <<Key[r], i>> \in Ids
    BY <2>1, KeysDiffer
  <2>3. i \in 1..(item[r] - 1) \/ (NextBatchItem(r) /\ i = item[r])
    BY <2>1, ItemStep
  <2>4. moved[<<Key[r], i>>] > 0
    BY <1>2, <2>1, <2>3 DEF Called, NextBatchItem, WalletKey
  <2> QED BY <2>2, <2>4, MovedGrows
<1> QED BY <1>1, <1>2 DEF Called

\* What has been paid stays so.
LEMMA PaidStays ==
  ASSUME TypeInv, [Next]_vars, NEW i \in Ids, Paid(i)
  PROVE  Paid(i)'
<1>1. \A j \in Ids : moved[j] > 0 => moved'[j] > 0
  BY MovedGrows
<1> QED BY <1>1, KeysDiffer DEF Paid

\* A step that leaves batches alone, and completes and announces only what has
\* been paid.
LEMMA PaidKept ==
  ASSUME PaidInv, [Next]_vars, batch' = batch,
         \A k \in Keys, i \in 1..MaxItems : row'[<<k, i>>] = row[<<k, i>>],
         \A i \in Ids : row'[i] = "completed" => row[i] = "completed" \/ Paid(i),
         \A k \in Keys : saved[<<k, 0>>] > 0 => saved'[<<k, 0>>] > 0,
         \A k \in Keys : saved'[<<k, 0>>] > 0 => saved[<<k, 0>>] > 0 \/ Paid(<<k, 0>>)
  PROVE  CompletedIsPaid'
<1>1. \A i \in Ids : Paid(i) => Paid(i)'
  BY PaidStays DEF PaidInv
<1>2. \A k \in Keys : <<k, 0>> \in Ids
  BY KeysDiffer
<1>3. \A r \in Requests : Items[r] \in Nat /\ Items[r] <= MaxItems
  OBVIOUS
<1>4. \A i \in Ids : row'[i] = "completed" => Paid(i)'
  BY <1>1 DEF PaidInv, CompletedIsPaid
<1>5. ASSUME NEW k \in Keys
      PROVE  saved'[<<k, 0>>] > 0 => Paid(<<k, 0>>)' \/ k \in batch'
  BY <1>1, <1>2 DEF PaidInv, CompletedIsPaid
<1>6. ASSUME NEW k \in Keys, k \in batch
      PROVE  /\ saved'[<<k, 0>>] > 0
             /\ \E r \in Requests :
                  /\ Key[r] = k /\ Kind[r] = "batch"
                  /\ \A i \in 1..Items[r] : row'[<<k, i>>] = "completed"
  <2>1. PICK r \in Requests : /\ Key[r] = k /\ Kind[r] = "batch"
                              /\ \A i \in 1..Items[r] : row[<<k, i>>] = "completed"
    BY <1>6 DEF PaidInv, CompletedIsPaid
  <2>2. \A i \in 1..Items[r] : i \in 1..MaxItems
    BY <1>3
  <2>3. saved'[<<k, 0>>] > 0
    BY <1>6 DEF PaidInv, CompletedIsPaid
  <2> QED BY <2>1, <2>2, <2>3
<1>7. ASSUME NEW k \in Keys, NEW i \in 1..MaxItems, row'[<<k, i>>] = "completed"
      PROVE  k \in batch'
  <2>1. row[<<k, i>>] = "completed"
    BY <1>7
  <2> QED BY <2>1 DEF PaidInv, CompletedIsPaid
<1> QED BY <1>4, <1>5, <1>6, <1>7 DEF CompletedIsPaid

\* The transaction of a batch completes the rows of the transfers that were paid.
LEMMA PaidBatch ==
  ASSUME PaidInv, [Next]_vars, NEW r \in Requests, Kind[r] = "batch", pc[r] = "record", item[r] = Items[r],
         Complete({Key[r]} \X (1..Items[r])), Announce(Own(r)), batch' = batch \cup {Key[r]}
  PROVE  CompletedIsPaid'
<1> DEFINE k == Key[r]
<1>1. \A i \in Ids : Paid(i) => Paid(i)'
  BY PaidStays DEF PaidInv
<1>2. /\ row \in [Ids -> {"none", "scheduled", "completed", "failed"}] /\ saved \in [Ids -> Nat]
      /\ k \in Keys /\ <<k, 0>> \in Ids /\ Own(r) = <<k, 0>>
      /\ Items[r] \in Nat /\ Items[r] <= MaxItems /\ batch' = batch \cup {k}
  BY KeysDiffer DEF PaidInv, TypeInv, TypeOK
<1>3. \A i \in Ids : row'[i] = IF i \in {k} \X (1..Items[r]) THEN "completed" ELSE row[i]
  BY DEF Complete
<1>4. saved'[<<k, 0>>] > 0 /\ \A i \in Ids : i # <<k, 0>> => saved'[i] = saved[i]
  BY <1>2 DEF Announce
<1>5. ASSUME NEW i \in 1..Items[r] PROVE Paid(<<k, i>>) /\ <<k, i>> \in Ids
  <2>1. item[r] = Items[r] /\ pc[r] = "record" /\ Kind[r] = "batch" /\ r \in Callers /\ r \notin Workers
    BY DEF Callers
  <2>2. moved[<<k, i>>] > 0
    BY <2>1 DEF PaidInv, Called, WalletKey
  <2> QED BY <1>2, <2>2, KeysDiffer DEF Paid
<1>6. \A i \in Ids : row'[i] = "completed" => Paid(i)'
  BY <1>1, <1>3, <1>5 DEF PaidInv, CompletedIsPaid
<1>7. ASSUME NEW l \in Keys
      PROVE  saved'[<<l, 0>>] > 0 => Paid(<<l, 0>>)' \/ l \in batch'
  <2>1. <<l, 0>> \in Ids /\ (l # k => <<l, 0>> # <<k, 0>>)
    BY KeysDiffer
  <2> QED BY <1>1, <1>2, <1>4, <2>1 DEF PaidInv, CompletedIsPaid
<1>8. ASSUME NEW l \in Keys, l \in batch'
      PROVE  /\ saved'[<<l, 0>>] > 0
             /\ \E s \in Requests :
                  /\ Key[s] = l /\ Kind[s] = "batch"
                  /\ \A i \in 1..Items[s] : row'[<<l, i>>] = "completed"
  <2>1. CASE l = k
    BY <1>3, <1>4, <1>5, <2>1
  <2>2. CASE l # k
    <3>1. l \in batch /\ <<l, 0>> \in Ids /\ <<l, 0>> # <<k, 0>>
      BY <1>2, <1>8, <2>2, KeysDiffer
    <3>2. PICK s \in Requests : /\ Key[s] = l /\ Kind[s] = "batch"
                                /\ \A i \in 1..Items[s] : row[<<l, i>>] = "completed"
      BY <3>1 DEF PaidInv, CompletedIsPaid
    <3>3. \A i \in 1..Items[s] : i \in 1..MaxItems
      OBVIOUS
    <3>4. \A i \in 1..Items[s] : <<l, i>> \in Ids
      BY <3>3, KeysDiffer
    <3> QED BY <1>3, <1>4, <3>1, <3>2, <3>4 DEF PaidInv, CompletedIsPaid
  <2> QED BY <2>1, <2>2
<1>9. ASSUME NEW l \in Keys, NEW i \in 1..MaxItems, row'[<<l, i>>] = "completed"
      PROVE  l \in batch'
  <2>1. <<l, i>> \in Ids
    BY KeysDiffer
  <2> QED BY <1>2, <1>3, <1>9, <2>1 DEF PaidInv, CompletedIsPaid
<1> QED BY <1>6, <1>7, <1>8, <1>9 DEF CompletedIsPaid

\* What a caller's transaction completes has been paid.
LEMMA PaidWritten ==
  ASSUME PaidInv, [Next]_vars, NEW c \in Callers, pc[c] = "record", Written(c)
  PROVE  CompletedIsPaid'
<1> USE DEF PaidInv
<1>0. /\ row \in [Ids -> {"none", "scheduled", "completed", "failed"}] /\ saved \in [Ids -> Nat]
      /\ Callers = Requests \cup Workers /\ Requests \cap Workers = {}
      /\ \A k \in Keys : <<k, 0>> \in Ids /\ saved[<<k, 0>>] \in Nat
  BY KeysDiffer DEF TypeInv, TypeOK, Callers
<1>1. ASSUME c \in Requests, Kind[c] = "p2p", Complete({Own(c)}), Announce(Own(c)), batch' = batch
      PROVE  CompletedIsPaid'
  <2>1. Paid(Own(c))
    <3>1. WalletKey(c) = Own(c) /\ moved[WalletKey(c)] > 0
      BY <1>0, <1>1, CallKey DEF Called, Own
    <3> QED BY <3>1 DEF Paid
  <2>2. \A i \in Ids : row'[i] = IF i = Own(c) THEN "completed" ELSE row[i]
    BY <1>1 DEF Complete
  <2>3. \A i \in Ids : saved'[i] = IF i = Own(c) THEN saved[i] + 1 ELSE saved[i]
    BY <1>0, <1>1, Increment DEF Announce
  <2>4. \A k \in Keys, i \in 1..MaxItems : <<k, i>> \in Ids /\ <<k, i>> # Own(c)
    <3>1. Own(c) = <<Key[c], 0>> /\ Key[c] \in Keys
      BY <1>1, KeysDiffer
    <3> QED BY <3>1, KeysDiffer
  <2> QED BY <1>0, <1>1, <2>1, <2>2, <2>3, <2>4, PaidKept
<1>2. ASSUME c \in Requests, row' = [row EXCEPT ![Own(c)] = "scheduled"], saved' = saved, batch' = batch
      PROVE  CompletedIsPaid'
  <2>1. \A i \in Ids : row'[i] = IF i = Own(c) THEN "scheduled" ELSE row[i]
    BY <1>0, <1>2
  <2>2. \A k \in Keys, i \in 1..MaxItems : <<k, i>> \in Ids /\ <<k, i>> # Own(c)
    <3>1. Own(c) = <<Key[c], 0>> /\ Key[c] \in Keys
      BY <1>2, KeysDiffer
    <3> QED BY <3>1, KeysDiffer
  <2> QED BY <1>2, <2>1, <2>2, PaidKept
<1>3. ASSUME c \in Requests, Kind[c] = "batch", item[c] = Items[c],
             Complete({Key[c]} \X (1..Items[c])), Announce(Own(c)), batch' = batch \cup {Key[c]}
      PROVE  CompletedIsPaid'
  BY <1>3, PaidBatch
<1>4. ASSUME c \in Workers, row' = [row EXCEPT ![<<job[c], 0>>] = "completed"], Announce(<<job[c], 0>>), batch' = batch
      PROVE  CompletedIsPaid'
  <2> DEFINE k == job[c]
  <2>1. k \in Keys /\ <<k, 0>> \in Ids
    BY <1>0, <1>4, CallKey, KeysDiffer DEF Dated
  <2>2. Paid(<<k, 0>>)
    <3>1. WalletKey(c) = Scheduled(k) /\ moved[WalletKey(c)] > 0
      BY <1>0, <1>4, CallKey DEF Called
    <3> QED BY <2>1, <3>1 DEF Paid
  <2>3. \A i \in Ids : row'[i] = IF i = <<k, 0>> THEN "completed" ELSE row[i]
    BY <1>0, <1>4
  <2>4. \A i \in Ids : saved'[i] = IF i = <<k, 0>> THEN saved[i] + 1 ELSE saved[i]
    BY <1>0, <1>4, Increment DEF Announce
  <2>5. \A l \in Keys, i \in 1..MaxItems : <<l, i>> \in Ids /\ <<l, i>> # <<k, 0>>
    BY <2>1, KeysDiffer
  <2> HIDE DEF k
  <2> QED BY <1>0, <1>4, <2>2, <2>3, <2>4, <2>5, PaidKept
<1> HIDE DEF PaidInv
<1> QED BY <1>1, <1>2, <1>3, <1>4 DEF Written

\* Every write is of one of these kinds.
LEMMA PaidStep ==
  ASSUME PaidInv, [Next]_vars
  PROVE  CompletedIsPaid'
<1>1. CASE UNCHANGED <<row, saved, batch>>
  BY <1>1, PaidKept DEF PaidInv
<1>2. ASSUME NEW r \in Requests, CreateP2PTransaction(r) \/ CreateScheduledTransaction(r) \/ CommitBatch(r)
      PROVE  CompletedIsPaid'
  <2>1. r \in Callers /\ pc[r] = "record" /\ (Written(r) \/ UNCHANGED <<row, saved, batch>>)
    BY <1>2 DEF CreateP2PTransaction, CreateScheduledTransaction, CommitBatch, Written, Callers
  <2> QED BY <1>1, <2>1, PaidWritten
<1>3. ASSUME NEW w \in Workers, UpdateTransactionStatusTx(w) PROVE CompletedIsPaid'
  <2>1. w \in Callers /\ pc[w] = "record" /\ Written(w)
    BY <1>3 DEF UpdateTransactionStatusTx, Settle, Written, Callers
  <2> QED BY <2>1, PaidWritten
<1>4. ASSUME NEW w \in Workers, MarkTransactionAsFailed(w) PROVE CompletedIsPaid'
  <2> DEFINE k == job[w]
  <2>1. k \in Keys /\ row \in [Ids -> {"none", "scheduled", "completed", "failed"}]
    BY <1>4 DEF MarkTransactionAsFailed, PaidInv, TypeInv, TypeOK, Control, Dated
  <2>2. \A i \in Ids : row'[i] = IF i = <<k, 0>> THEN "failed" ELSE row[i]
    BY <1>4, <2>1 DEF MarkTransactionAsFailed, Settle
  <2>3. batch' = batch /\ saved' = saved
    BY <1>4 DEF MarkTransactionAsFailed
  <2>4. \A l \in Keys, i \in 1..MaxItems : <<l, i>> \in Ids /\ <<l, i>> # <<k, 0>>
    BY <2>1, KeysDiffer
  <2> QED BY <2>2, <2>3, <2>4, PaidKept
<1>5. ASSUME NEW c \in Callers, RecordUnacknowledged(c) PROVE CompletedIsPaid'
  BY <1>5, PaidWritten DEF RecordUnacknowledged
<1> QED BY <1>1, <1>2, <1>3, <1>4, <1>5, TableStep DEF Writes

\* A transfer is recorded as completed, and announced, only if the wallet service
\* moved the money; a batch is recorded with all its transfers or with none.
THEOREM TransactionCompletedIsPaid == Spec => []CompletedIsPaid
<1>1. Init => PaidInv
  <2>1. Init => TypeInv
    BY KeysDiffer DEF Init, TypeInv, TypeOK, Control, Callers, Dated
  <2>2. Init => Called /\ CompletedIsPaid
    BY KeysDiffer DEF Init, Called, CompletedIsPaid, Callers
  <2> QED BY <2>1, <2>2 DEF PaidInv
<1>2. PaidInv /\ [Next]_vars => PaidInv'
  BY TypesKept, CalledStep, PaidStep DEF PaidInv
<1>3. PaidInv => CompletedIsPaid
  BY DEF PaidInv
<1> QED BY <1>1, <1>2, <1>3, PTL DEF Spec

-----------------------------------------------------------------------------
(* Without faults.                                                         *)

\* Without a fault no caller has left a call behind.
Quiet == faults = 0 => \A i \in Ids : stray[i] = 0

\* Faults are not undone, and nothing is left behind without one.
LEMMA QuietStep ==
  ASSUME TypeInv, Quiet, [Next]_vars
  PROVE  Quiet' /\ (faults' = 0 => faults = 0)
<1> USE DEF Quiet, TypeInv, TypeOK, Fault, NoFault, wallet, tables, rounds
<1> DEFINE Goal == Quiet' /\ (faults' = 0 => faults = 0)
<1>1. ASSUME NEW r \in Requests, Request(r) PROVE Goal
  BY <1>1 DEF Request, CheckIdempotency, CreateBatchTransactionTx, Call, Admit, WalletTransfer, WalletRefuses,
       CreateP2PTransaction, CreateScheduledTransaction, NextBatchItem, CommitBatch, SetIdempotency, MoveMoney
<1>2. ASSUME NEW w \in Workers, Worker(w) \/ MarkLost(w) PROVE Goal
  BY <1>2 DEF Worker, Call, Admit, WalletTransfer, WalletRefuses, GetScheduledTransactions, ExecuteScheduledTransfer,
       UpdateTransactionStatusTx, MarkTransactionAsFailed, MarkLost, MoveMoney
<1>3. ASSUME NEW c \in Callers, CallTimesOut(c) \/ RecordFails(c) \/ RecordUnacknowledged(c) \/ Abandon(c)
      PROVE  Goal
  BY <1>3 DEF CallTimesOut, RecordFails, RecordUnacknowledged, Abandon
<1>4. ASSUME NEW i \in Ids, StrayCall(i) PROVE Goal
  BY <1>4 DEF StrayCall, MoveMoney
<1>5. ASSUME NEW i \in Ids, ExpireKey(i) PROVE Goal
  BY <1>5 DEF ExpireKey
<1>6. ASSUME (\E k \in Keys : BecomeDue(k)) \/ UNCHANGED vars PROVE Goal
  BY <1>6 DEF BecomeDue, vars
<1> HIDE DEF Goal
<1>7. Goal
  BY <1>1, <1>2, <1>3, <1>4, <1>5, <1>6 DEF Next
<1> QED BY <1>7 DEF Goal

\* Without a fault only a caller that waits for the answer moves money.
LEMMA QuietMoney ==
  ASSUME TypeInv, Quiet, [Next]_vars, faults = 0, NEW i \in Ids
  PROVE  moved'[i] = moved[i] \/ \E c \in Callers : WalletKey(c) = i /\ WalletTransfer(c)
<1>1. CASE Still
  BY <1>1 DEF Still, wallet, ExpireKey, SetIdempotency, Leaves
<1>2. ASSUME NEW j \in Ids, Moves(j)
      PROVE  moved' = [moved EXCEPT ![j] = @ + 1] /\ \E c \in Callers : WalletKey(c) = j /\ WalletTransfer(c)
  BY <1>2 DEF Moves, WalletTransfer, MoveMoney, StrayCall, Quiet
<1>3. moved \in [Ids -> Nat]
  BY DEF TypeInv, TypeOK
<1> QED BY <1>1, <1>2, <1>3, MoneyStep

\* Without a fault a P2P transfer is recorded once it is paid.
LEMMA QuietRecord ==
  ASSUME TypeInv, [Next]_vars, faults' = faults, NEW r \in Requests, Kind[r] = "p2p",
         pc[r] = "record", pc'[r] # "record"
  PROVE  CreateP2PTransaction(r)
<1> USE DEF TypeInv, TypeOK, Control, Goto, End, Fault, wallet, tables, rounds, Callers
<1>1. ASSUME NEW s \in Requests,
             \/ CheckIdempotency(s) \/ CreateBatchTransactionTx(s) \/ CreateScheduledTransaction(s)
             \/ NextBatchItem(s) \/ CommitBatch(s) \/ SetIdempotency(s)
      PROVE  FALSE
  BY <1>1 DEF CheckIdempotency, CreateBatchTransactionTx, CreateScheduledTransaction,
        NextBatchItem, CommitBatch, SetIdempotency
<1>2. ASSUME NEW d \in Callers,
             \/ Admit(d) \/ WalletTransfer(d) \/ WalletRefuses(d) \/ CallTimesOut(d)
             \/ RecordFails(d) \/ RecordUnacknowledged(d)
      PROVE  FALSE
  BY <1>2 DEF Admit, WalletTransfer, WalletRefuses, LooksUp, CallTimesOut, RecordFails, RecordUnacknowledged, Fail
<1>3. ASSUME NEW s \in Requests, CreateP2PTransaction(s) PROVE s = r
  BY <1>3 DEF CreateP2PTransaction
<1>4. ASSUME NEW w \in Workers,
             \/ GetScheduledTransactions(w) \/ ExecuteScheduledTransfer(w) \/ UpdateTransactionStatusTx(w)
             \/ MarkTransactionAsFailed(w) \/ MarkLost(w)
      PROVE  FALSE
  BY <1>4 DEF GetScheduledTransactions, ExecuteScheduledTransfer, UpdateTransactionStatusTx,
        MarkTransactionAsFailed, MarkLost, Settle
<1>5. ASSUME NEW d \in Callers, Abandon(d) PROVE FALSE
  BY <1>5 DEF Abandon
<1>6. ASSUME \/ \E i \in Ids : StrayCall(i) \/ ExpireKey(i)
             \/ \E k \in Keys : BecomeDue(k)
             \/ UNCHANGED vars
      PROVE  FALSE
  BY <1>6 DEF StrayCall, ExpireKey, BecomeDue, vars
<1> QED BY <1>1, <1>2, <1>3, <1>4, <1>5, <1>6 DEF Next, Request, Worker, Call

\* The keys of P2P transfers, which are those that no other request has.
P2PKeys == {k \in Keys : \A r \in Requests : Key[r] = k => Kind[r] = "p2p"}

Recorded ==
  \A k \in P2PKeys :
    /\ row[<<k, 0>>] \in {"none", "completed"}
    /\ row[<<k, 0>>] = "completed" => saved[<<k, 0>>] = 1
    /\ row[<<k, 0>>] = "none" => saved[<<k, 0>>] = 0
    /\ moved[<<k, 0>>] > 0 =>
         row[<<k, 0>>] = "completed" \/ \E r \in Requests : Key[r] = k /\ pc[r] = "record"

RecordInv == TypeInv /\ Quiet /\ (faults = 0 => Recorded)

\* Without a fault the row and the events of a P2P transfer are written once.
LEMMA P2PRow ==
  ASSUME TypeInv, [Next]_vars, faults' = faults, NEW k \in P2PKeys
  PROVE  \/ row'[<<k, 0>>] = row[<<k, 0>>] /\ saved'[<<k, 0>>] = saved[<<k, 0>>]
         \/ /\ row[<<k, 0>>] = "none" /\ row'[<<k, 0>>] = "completed"
            /\ saved'[<<k, 0>>] = saved[<<k, 0>>] + 1
<1> DEFINE i == <<k, 0>>
           Goal == \/ row'[i] = row[i] /\ saved'[i] = saved[i]
                   \/ row[i] = "none" /\ row'[i] = "completed" /\ saved'[i] = saved[i] + 1
<1>0. /\ row \in [Ids -> {"none", "scheduled", "completed", "failed"}] /\ saved \in [Ids -> Nat]
      /\ i \in Ids /\ k \in Keys /\ k \notin Dated
  BY KeysDiffer DEF TypeInv, TypeOK, P2PKeys, Dated
<1>1. \A r \in Requests : Own(r) = i <=> Key[r] = k
  BY KeysDiffer
<1> HIDE DEF i
<1>2. ASSUME NEW r \in Requests, CreateP2PTransaction(r) PROVE Goal
  <2>1. CASE UNCHANGED <<row, saved>>
    BY <2>1
  <2>2. CASE row[Own(r)] = "none" /\ Complete({Own(r)}) /\ Announce(Own(r))
    <3>1. row'[i] = IF i = Own(r) THEN "completed" ELSE row[i]
      BY <1>0, <2>2 DEF Complete
    <3>2. saved'[i] = IF i = Own(r) THEN saved[i] + 1 ELSE saved[i]
      BY <1>0, <2>2, Increment DEF Announce
    <3> QED BY <2>2, <3>1, <3>2
  <2> QED BY <1>2, <2>1, <2>2 DEF CreateP2PTransaction
<1>3. ASSUME NEW r \in Requests, CreateScheduledTransaction(r) PROVE Goal
  <2>1. Own(r) # i
    BY <1>1, <1>3 DEF P2PKeys, CreateScheduledTransaction
  <2>2. saved' = saved /\ (row' = row \/ row' = [row EXCEPT ![Own(r)] = "scheduled"])
    BY <1>3 DEF CreateScheduledTransaction
  <2> QED BY <1>0, <2>1, <2>2
<1>4. ASSUME NEW r \in Requests, CommitBatch(r) PROVE Goal
  <2>1. Own(r) # i
    BY <1>1, <1>4 DEF P2PKeys, CommitBatch
  <2>2. saved'[i] = saved[i]
    BY <1>0, <1>4, <2>1, Increment DEF CommitBatch, Announce
  <2>3. i \notin {Key[r]} \X (1..Items[r])
    BY DEF i
  <2>4. row'[i] = row[i]
    BY <1>0, <1>4, <2>3 DEF CommitBatch, Complete
  <2> QED BY <2>2, <2>4
<1>5. ASSUME NEW w \in Workers, UpdateTransactionStatusTx(w) \/ MarkTransactionAsFailed(w) PROVE Goal
  <2>1. job[w] \in Dated
    BY <1>5 DEF TypeInv, Control, UpdateTransactionStatusTx, MarkTransactionAsFailed
  <2>2. <<job[w], 0>> # i
    BY <1>0, <2>1 DEF i
  <2>3. \E s \in {"completed", "failed"} : row' = [row EXCEPT ![<<job[w], 0>>] = s]
    BY <1>5 DEF UpdateTransactionStatusTx, MarkTransactionAsFailed, Settle
  <2>4. saved' = saved \/ saved' = [saved EXCEPT ![<<job[w], 0>>] = @ + 1]
    BY <1>5 DEF UpdateTransactionStatusTx, MarkTransactionAsFailed, Announce
  <2> QED BY <1>0, <2>2, <2>3, <2>4
<1>6. CASE UNCHANGED <<row, saved, batch>>
  BY <1>6
<1>7. ASSUME NEW c \in Callers, RecordUnacknowledged(c) PROVE FALSE
  BY <1>7 DEF RecordUnacknowledged, Fault, TypeInv, TypeOK
<1> HIDE DEF Goal
<1>8. Goal
  BY <1>2, <1>3, <1>4, <1>5, <1>6, <1>7, TableStep DEF Writes, Goal
<1> QED BY <1>8 DEF i, Goal

\* Without a fault every P2P transfer that is paid is recorded, or about to be.
LEMMA RecordStep ==
  ASSUME RecordInv, [Next]_vars
  PROVE  RecordInv'
<1>0. TypeInv /\ Quiet /\ TypeInv' /\ Quiet' /\ (faults' = 0 => faults = 0)
  BY QuietStep, TypesKept DEF RecordInv
<1> SUFFICES ASSUME faults' = 0, NEW k \in P2PKeys
             PROVE  /\ row'[<<k, 0>>] \in {"none", "completed"}
                    /\ row'[<<k, 0>>] = "completed" => saved'[<<k, 0>>] = 1
                    /\ row'[<<k, 0>>] = "none" => saved'[<<k, 0>>] = 0
                    /\ moved'[<<k, 0>>] > 0 =>
                         row'[<<k, 0>>] = "completed" \/ \E r \in Requests : Key[r] = k /\ pc'[r] = "record"
  BY <1>0 DEF RecordInv, Recorded
<1> DEFINE i == <<k, 0>>
<1>1. /\ row[i] \in {"none", "completed"}
      /\ row[i] = "completed" => saved[i] = 1
      /\ row[i] = "none" => saved[i] = 0
      /\ moved[i] > 0 => row[i] = "completed" \/ \E r \in Requests : Key[r] = k /\ pc[r] = "record"
  BY <1>0 DEF RecordInv, Recorded
<1>2. \/ row'[i] = row[i] /\ saved'[i] = saved[i]
      \/ row[i] = "none" /\ row'[i] = "completed" /\ saved'[i] = saved[i] + 1
  BY <1>0, P2PRow
<1>3. i \in Ids /\ k \in Keys
  BY KeysDiffer DEF P2PKeys
<1>4. ASSUME NEW r \in Requests, Key[r] = k, pc[r] = "record", pc'[r] # "record"
      PROVE  row'[i] = "completed"
  <2>1. Kind[r] = "p2p"
    BY <1>4 DEF P2PKeys
  <2>2. CreateP2PTransaction(r)
    BY <1>0, <1>4, <2>1, QuietRecord
  <2>3. Own(r) = i
    BY <1>4, KeysDiffer
  <2>4. CASE row[i] = "none"
    BY <1>3, <2>2, <2>3, <2>4 DEF CreateP2PTransaction, Complete
  <2> QED BY <1>1, <1>2, <2>4
<1>5. ASSUME moved'[i] > 0
      PROVE  row'[i] = "completed" \/ \E r \in Requests : Key[r] = k /\ pc'[r] = "record"
  <2>1. CASE moved'[i] = moved[i]
    BY <1>1, <1>2, <1>4, <1>5, <2>1
  <2>2. ASSUME NEW c \in Callers, WalletKey(c) = i, WalletTransfer(c)
        PROVE  \E r \in Requests : Key[r] = k /\ pc'[r] = "record"
    <3>1. c \in Requests /\ Key[c] = k
      BY <1>0, <1>3, <2>2, CallKey, KeysDiffer DEF WalletTransfer, Callers, Dated
    <3>2. pc'[c] = "record"
      BY <1>0, <2>2 DEF WalletTransfer, Goto, TypeInv, TypeOK
    <3> QED BY <3>1, <3>2
  <2> QED BY <1>0, <1>3, <2>1, <2>2, QuietMoney
<1> HIDE DEF i
<1>6. row'[i] \in {"none", "completed"} /\ (row'[i] = "completed" => saved'[i] = 1) /\ (row'[i] = "none" => saved'[i] = 0)
  BY <1>1, <1>2
<1> QED BY <1>5, <1>6 DEF i

\* Without a fault no payment goes unrecorded: a P2P transfer that moved money
\* has its row and one event when the requests under its key are over.
THEOREM PaymentsAreRecorded == Spec => []PaidIsRecorded
<1>1. Init => RecordInv
  <2>1. Init => TypeInv
    BY KeysDiffer DEF Init, TypeInv, TypeOK, Control, Callers, Dated
  <2>2. Init => Quiet /\ Recorded
    BY KeysDiffer DEF Init, Quiet, Recorded, P2PKeys
  <2> QED BY <2>1, <2>2 DEF RecordInv
<1>2. RecordInv /\ [Next]_vars => RecordInv'
  BY RecordStep
<1>3. RecordInv => PaidIsRecorded
  <2> SUFFICES ASSUME RecordInv, NEW k \in Keys, faults = 0,
                      \A r \in {q \in Requests : Key[q] = k} : Kind[r] = "p2p" /\ pc[r] = "done",
                      moved[<<k, 0>>] > 0
               PROVE  row[<<k, 0>>] = "completed" /\ saved[<<k, 0>>] = 1
    BY DEF PaidIsRecorded, RecordInv, TypeInv, TypeOK
  <2>1. k \in P2PKeys
    BY DEF P2PKeys
  <2> QED BY <2>1 DEF RecordInv, Recorded
<1> QED BY <1>1, <1>2, <1>3, PTL DEF Spec

-----------------------------------------------------------------------------
(* One worker without faults.                                              *)

\* What the worker has selected is scheduled and not paid; what it is at is
\* scheduled, and paid only when it is about to record that.
Untried ==
  \A w \in Workers :
    /\ \A k \in todo[w] : row[<<k, 0>>] = "scheduled" /\ moved[Scheduled(k)] = 0
    /\ pc[w] # "idle" =>
         /\ row[<<job[w], 0>>] = "scheduled" /\ job[w] \notin todo[w]
         /\ pc[w] # "record" => moved[Scheduled(job[w])] = 0

\* A scheduled transfer that is paid is completed, or about to be.
PaidCompletes ==
  \A k \in Keys :
    moved[Scheduled(k)] > 0 =>
      row[<<k, 0>>] = "completed" \/ \E w \in Workers : pc[w] = "record" /\ job[w] = k

OneWorker == \A v, w \in Workers : v = w

FailInv == TypeInv /\ Quiet /\ (OneWorker /\ faults = 0 => Untried /\ PaidCompletes)

\* What a worker does without a fault.
LEMMA WorkerStep ==
  ASSUME TypeInv, [Next]_vars, faults' = faults, NEW w \in Workers
  PROVE  \/ pc'[w] = pc[w] /\ job'[w] = job[w] /\ todo'[w] = todo[w]
         \/ GetScheduledTransactions(w) \/ ExecuteScheduledTransfer(w)
         \/ UpdateTransactionStatusTx(w) \/ MarkTransactionAsFailed(w) \/ WalletTransfer(w)
         \/ /\ pc[w] \in {"call", "admitted"} /\ pc'[w] \in {"admitted", "fail"}
            /\ job'[w] = job[w] /\ todo'[w] = todo[w] /\ moved' = moved /\ row' = row
<1> DEFINE Goal ==
         \/ pc'[w] = pc[w] /\ job'[w] = job[w] /\ todo'[w] = todo[w]
         \/ GetScheduledTransactions(w) \/ ExecuteScheduledTransfer(w)
         \/ UpdateTransactionStatusTx(w) \/ MarkTransactionAsFailed(w) \/ WalletTransfer(w)
         \/ /\ pc[w] \in {"call", "admitted"} /\ pc'[w] \in {"admitted", "fail"}
            /\ job'[w] = job[w] /\ todo'[w] = todo[w] /\ moved' = moved /\ row' = row
<1> USE DEF TypeInv, TypeOK, Control, Goto, End, Fault, wallet, tables, rounds, Callers
<1>1. ASSUME NEW s \in Requests, CheckIdempotency(s) \/ CreateBatchTransactionTx(s) \/ CreateScheduledTransaction(s)
      PROVE  Goal
  BY <1>1 DEF CheckIdempotency, CreateBatchTransactionTx, CreateScheduledTransaction
<1>2. ASSUME NEW s \in Requests, CreateP2PTransaction(s) \/ NextBatchItem(s) \/ CommitBatch(s) \/ SetIdempotency(s)
      PROVE  Goal
  BY <1>2 DEF CreateP2PTransaction, NextBatchItem, CommitBatch, SetIdempotency
<1>3. ASSUME NEW d \in Callers, Admit(d) \/ WalletRefuses(d) PROVE Goal
  BY <1>3 DEF Admit, WalletRefuses, LooksUp, Fail
<1>4. ASSUME NEW d \in Callers, WalletTransfer(d) PROVE Goal
  BY <1>4 DEF WalletTransfer
<1>5. ASSUME NEW d \in Callers, CallTimesOut(d) \/ RecordFails(d) \/ RecordUnacknowledged(d) \/ Abandon(d)
      PROVE  FALSE
  BY <1>5 DEF CallTimesOut, RecordFails, RecordUnacknowledged, Abandon
<1>6. ASSUME NEW v \in Workers, GetScheduledTransactions(v) \/ ExecuteScheduledTransfer(v) PROVE Goal
  BY <1>6 DEF GetScheduledTransactions, ExecuteScheduledTransfer
<1>7. ASSUME NEW v \in Workers, UpdateTransactionStatusTx(v) \/ MarkTransactionAsFailed(v) \/ MarkLost(v) PROVE Goal
  BY <1>7 DEF UpdateTransactionStatusTx, MarkTransactionAsFailed, MarkLost, Settle
<1>8. ASSUME \/ \E i \in Ids : StrayCall(i) \/ ExpireKey(i)
             \/ \E k \in Keys : BecomeDue(k)
             \/ UNCHANGED vars
      PROVE  Goal
  BY <1>8 DEF StrayCall, ExpireKey, BecomeDue, vars
<1> HIDE DEF Goal
<1>9. Goal
  BY <1>1, <1>2, <1>3, <1>4, <1>5, <1>6, <1>7, <1>8 DEF Next, Request, Worker, Call
<1> QED BY <1>9 DEF Goal

\* Without a fault the status of a scheduled transfer is only changed by the worker that is at it.
LEMMA ScheduledRow ==
  ASSUME TypeInv, [Next]_vars, faults' = faults, NEW k \in Keys
  PROVE  \/ row'[<<k, 0>>] = row[<<k, 0>>]
         \/ row[<<k, 0>>] = "none" /\ row'[<<k, 0>>] \in {"scheduled", "completed"}
         \/ \E w \in Workers : job[w] = k /\ UpdateTransactionStatusTx(w) /\ row'[<<k, 0>>] = "completed"
         \/ \E w \in Workers : job[w] = k /\ MarkTransactionAsFailed(w) /\ row'[<<k, 0>>] = "failed"
<1> DEFINE i == <<k, 0>>
           Goal == \/ row'[i] = row[i]
                   \/ row[i] = "none" /\ row'[i] \in {"scheduled", "completed"}
                   \/ \E w \in Workers : job[w] = k /\ UpdateTransactionStatusTx(w) /\ row'[i] = "completed"
                   \/ \E w \in Workers : job[w] = k /\ MarkTransactionAsFailed(w) /\ row'[i] = "failed"
<1>0. row \in [Ids -> {"none", "scheduled", "completed", "failed"}] /\ i \in Ids
  BY KeysDiffer DEF TypeInv, TypeOK
<1>1. ASSUME NEW r \in Requests, CreateP2PTransaction(r) PROVE Goal
  <2>1. row' = row \/ (row[Own(r)] = "none" /\ \A j \in Ids : row'[j] = IF j = Own(r) THEN "completed" ELSE row[j])
    BY <1>1 DEF CreateP2PTransaction, Complete
  <2> QED BY <1>0, <2>1
<1>2. ASSUME NEW r \in Requests, CreateScheduledTransaction(r) PROVE Goal
  <2>1. row' = row \/ (row[Own(r)] = "none" /\ row' = [row EXCEPT ![Own(r)] = "scheduled"])
    BY <1>2 DEF CreateScheduledTransaction
  <2> QED BY <1>0, <2>1
<1>3. ASSUME NEW r \in Requests, CommitBatch(r) PROVE Goal
  <2>1. i \notin {Key[r]} \X (1..Items[r])
    OBVIOUS
  <2>2. row'[i] = row[i]
    BY <1>0, <1>3, <2>1 DEF CommitBatch, Complete
  <2> QED BY <2>2
<1>4. ASSUME NEW w \in Workers, UpdateTransactionStatusTx(w) PROVE Goal
  <2>1. row' = [row EXCEPT ![<<job[w], 0>>] = "completed"]
    BY <1>4 DEF UpdateTransactionStatusTx, Settle
  <2>2. CASE job[w] = k
    BY <1>0, <1>4, <2>1, <2>2
  <2>3. CASE job[w] # k
    BY <1>0, <2>1, <2>3
  <2> QED BY <2>2, <2>3
<1>5. ASSUME NEW w \in Workers, MarkTransactionAsFailed(w) PROVE Goal
  <2>1. row' = [row EXCEPT ![<<job[w], 0>>] = "failed"]
    BY <1>5 DEF MarkTransactionAsFailed, Settle
  <2>2. CASE job[w] = k
    BY <1>0, <1>5, <2>1, <2>2
  <2>3. CASE job[w] # k
    BY <1>0, <2>1, <2>3
  <2> QED BY <2>2, <2>3
<1>6. ASSUME UNCHANGED <<row, saved, batch>> PROVE Goal
  BY <1>6
<1>7. ASSUME NEW c \in Callers, RecordUnacknowledged(c) PROVE FALSE
  BY <1>7 DEF RecordUnacknowledged, Fault, TypeInv, TypeOK
<1> HIDE DEF Goal
<1>8. Goal
  BY <1>1, <1>2, <1>3, <1>4, <1>5, <1>6, <1>7, TableStep DEF Writes
<1> QED BY <1>8 DEF Goal

\* A transfer that the only worker is not at stays as it is.
LEMMA UntriedStays ==
  ASSUME TypeInv, Quiet, [Next]_vars, faults = 0, faults' = 0, OneWorker, NEW w \in Workers, NEW k \in Keys,
         row[<<k, 0>>] = "scheduled", pc[w] # "idle" => job[w] # k
  PROVE  row'[<<k, 0>>] = "scheduled" /\ moved'[Scheduled(k)] = moved[Scheduled(k)]
<1>1. \A v \in Workers : pc[v] # "idle" => job[v] # k
  BY DEF OneWorker
<1>2. row'[<<k, 0>>] = "scheduled"
  BY <1>1, ScheduledRow DEF UpdateTransactionStatusTx, MarkTransactionAsFailed
<1>3. ASSUME NEW c \in Callers, WalletKey(c) = Scheduled(k), WalletTransfer(c) PROVE FALSE
  BY <1>1, <1>3, CallKey, KeysDiffer DEF WalletTransfer, Callers, Dated, TypeInv, TypeOK
<1> QED BY <1>2, <1>3, QuietMoney, KeysDiffer

\* What the only worker has selected and what it is at.
LEMMA UntriedStep ==
  ASSUME TypeInv, Quiet, [Next]_vars, faults = 0, faults' = 0, OneWorker, Untried, PaidCompletes
  PROVE  Untried'
<1> SUFFICES ASSUME NEW w \in Workers
             PROVE  /\ \A k \in todo'[w] : row'[<<k, 0>>] = "scheduled" /\ moved'[Scheduled(k)] = 0
                    /\ pc'[w] # "idle" =>
                         /\ row'[<<job'[w], 0>>] = "scheduled" /\ job'[w] \notin todo'[w]
                         /\ pc'[w] # "record" => moved'[Scheduled(job'[w])] = 0
  BY DEF Untried
<1>0. /\ pc \in [Callers -> {"check", "insert", "call", "admitted", "record", "mark", "fail", "idle", "done"}]
      /\ job \in [Workers -> Keys \cup {NoKey}] /\ todo \in [Workers -> SUBSET Keys] /\ w \in Callers
      /\ pc[w] # "idle" => job[w] \in Keys
  BY DEF TypeInv, TypeOK, Control, Callers, Dated
<1>1. ASSUME NEW k \in todo[w] PROVE row'[<<k, 0>>] = "scheduled" /\ moved'[Scheduled(k)] = 0
  <2>1. k \in Keys
    BY <1>0
  <2>2. row[<<k, 0>>] = "scheduled" /\ moved[Scheduled(k)] = 0 /\ (pc[w] # "idle" => job[w] # k)
    BY DEF Untried
  <2> QED BY <2>1, <2>2, UntriedStays
<1>2. ASSUME NEW k \in todo'[w] PROVE row'[<<k, 0>>] = "scheduled" /\ moved'[Scheduled(k)] = 0
  <2>1. CASE k \in todo[w]
    BY <1>1, <2>1
  <2>2. CASE k \notin todo[w]
    <3>1. GetScheduledTransactions(w)
      <4>1. ~ExecuteScheduledTransfer(w)
        BY <1>0, <1>2, <2>2 DEF ExecuteScheduledTransfer
      <4>2. ~UpdateTransactionStatusTx(w) /\ ~MarkTransactionAsFailed(w) /\ ~WalletTransfer(w)
        BY <1>2, <2>2 DEF UpdateTransactionStatusTx, MarkTransactionAsFailed, WalletTransfer, rounds
      <4> QED BY <1>2, <2>2, <4>1, <4>2, WorkerStep
    <3>2. pc[w] = "idle" /\ k \in Keys /\ row[<<k, 0>>] = "scheduled"
      BY <1>0, <3>1 DEF GetScheduledTransactions, TypeInv, TypeOK
    <3>3. ~(moved[Scheduled(k)] > 0)
      BY <3>2 DEF PaidCompletes, OneWorker
    <3>4. moved[Scheduled(k)] \in Nat
      BY <3>2, KeysDiffer DEF TypeInv, TypeOK
    <3> QED BY <3>2, <3>3, <3>4, UntriedStays
  <2> QED BY <2>1, <2>2
<1>3. ASSUME pc'[w] # "idle"
      PROVE  /\ row'[<<job'[w], 0>>] = "scheduled" /\ job'[w] \notin todo'[w]
             /\ pc'[w] # "record" => moved'[Scheduled(job'[w])] = 0
  <2>1. CASE ExecuteScheduledTransfer(w)
    <3>1. PICK k \in todo[w] : job' = [job EXCEPT ![w] = k] /\ todo' = [todo EXCEPT ![w] = @ \ {k}]
      BY <2>1 DEF ExecuteScheduledTransfer
    <3>2. job'[w] = k /\ todo'[w] = todo[w] \ {k}
      BY <1>0, <3>1
    <3> QED BY <1>1, <3>2
  <2>2. CASE WalletTransfer(w)
    <3>1. pc[w] = "admitted" /\ pc'[w] = "record" /\ job' = job /\ todo' = todo /\ row' = row
      BY <1>0, <2>2 DEF WalletTransfer, Goto, rounds, tables
    <3> QED BY <3>1 DEF Untried
  <2>3. CASE /\ pc[w] \in {"call", "admitted"} /\ pc'[w] \in {"admitted", "fail"}
             /\ job'[w] = job[w] /\ todo'[w] = todo[w] /\ moved' = moved /\ row' = row
    BY <2>3 DEF Untried
  <2>4. CASE pc'[w] = pc[w] /\ job'[w] = job[w] /\ todo'[w] = todo[w]
    <3>1. /\ row[<<job[w], 0>>] = "scheduled" /\ job[w] \notin todo[w] /\ job[w] \in Keys
          /\ pc[w] # "record" => moved[Scheduled(job[w])] = 0
      BY <1>0, <1>3, <2>4 DEF Untried
    <3>2. ~UpdateTransactionStatusTx(w) /\ ~MarkTransactionAsFailed(w)
      BY <1>0, <1>3, <2>4 DEF UpdateTransactionStatusTx, MarkTransactionAsFailed, Settle, Goto
    <3>3. row'[<<job[w], 0>>] = "scheduled"
      BY <3>1, <3>2, ScheduledRow DEF OneWorker
    <3>4. ~WalletTransfer(w)
      BY <1>0, <2>4 DEF WalletTransfer, Goto
    <3>5. ASSUME NEW c \in Callers, WalletKey(c) = Scheduled(job[w]), WalletTransfer(c) PROVE FALSE
      <4>1. c \in Workers
        BY <3>1, <3>5, CallKey, KeysDiffer DEF WalletTransfer, Callers, TypeInv, TypeOK
      <4> QED BY <3>4, <3>5, <4>1 DEF OneWorker
    <3>6. moved'[Scheduled(job[w])] = moved[Scheduled(job[w])]
      BY <3>1, <3>5, QuietMoney, KeysDiffer
    <3> QED BY <2>4, <3>1, <3>3, <3>6
  <2>5. ~GetScheduledTransactions(w) /\ ~UpdateTransactionStatusTx(w) /\ ~MarkTransactionAsFailed(w)
    BY <1>0, <1>3 DEF GetScheduledTransactions, UpdateTransactionStatusTx, MarkTransactionAsFailed, Settle, Goto
  <2> QED BY <2>1, <2>2, <2>3, <2>4, <2>5, WorkerStep
<1> QED BY <1>2, <1>3

\* A payment is recorded by the worker that made it.
LEMMA PaidCompletesStep ==
  ASSUME TypeInv, Quiet, [Next]_vars, faults = 0, faults' = 0, OneWorker, Untried, PaidCompletes
  PROVE  PaidCompletes'
<1> SUFFICES ASSUME NEW k \in Keys, moved'[Scheduled(k)] > 0
             PROVE  row'[<<k, 0>>] = "completed" \/ \E w \in Workers : pc'[w] = "record" /\ job'[w] = k
  BY DEF PaidCompletes
<1>0. /\ pc \in [Callers -> {"check", "insert", "call", "admitted", "record", "mark", "fail", "idle", "done"}]
      /\ job \in [Workers -> Keys \cup {NoKey}] /\ Workers \subseteq Callers
      /\ row \in [Ids -> {"none", "scheduled", "completed", "failed"}] /\ <<k, 0>> \in Ids /\ Scheduled(k) \in Ids
  BY KeysDiffer DEF TypeInv, TypeOK, Callers
<1>1. CASE row[<<k, 0>>] = "completed"
  <2>1. ASSUME NEW w \in Workers, job[w] = k, MarkTransactionAsFailed(w) PROVE FALSE
    BY <1>1, <2>1 DEF MarkTransactionAsFailed, Untried
  <2> QED BY <1>1, <2>1, ScheduledRow
<1>2. ASSUME NEW w \in Workers, pc[w] = "record", job[w] = k
      PROVE  row'[<<k, 0>>] = "completed" \/ (pc'[w] = "record" /\ job'[w] = k)
  <2>1. CASE UpdateTransactionStatusTx(w)
    BY <1>0, <1>2, <2>1 DEF UpdateTransactionStatusTx, Settle
  <2> QED BY <1>2, <2>1, WorkerStep
        DEF GetScheduledTransactions, ExecuteScheduledTransfer, MarkTransactionAsFailed, WalletTransfer
<1>3. ASSUME NEW c \in Callers, WalletKey(c) = Scheduled(k), WalletTransfer(c)
      PROVE  \E w \in Workers : pc'[w] = "record" /\ job'[w] = k
  <2>1. c \in Workers /\ job[c] = k
    BY <1>3, CallKey, KeysDiffer DEF WalletTransfer, Callers, TypeInv, TypeOK, Dated
  <2>2. pc'[c] = "record" /\ job' = job
    BY <1>0, <1>3 DEF WalletTransfer, Goto, rounds
  <2> QED BY <2>1, <2>2
<1>4. CASE moved'[Scheduled(k)] = moved[Scheduled(k)]
  BY <1>1, <1>2, <1>4 DEF PaidCompletes
<1> QED BY <1>0, <1>3, <1>4, QuietMoney

\* With one worker and no fault, a scheduled transfer that failed was not paid.
THEOREM FailedTransfersAreUnpaid == Spec => []FailedIsUnpaid
<1>1. Init => FailInv
  <2>1. Init => TypeInv
    BY KeysDiffer DEF Init, TypeInv, TypeOK, Control, Callers, Dated
  <2>2. Init => Quiet /\ Untried /\ PaidCompletes
    BY KeysDiffer DEF Init, Quiet, Untried, PaidCompletes, Callers
  <2> QED BY <2>1, <2>2 DEF FailInv
<1>2. FailInv /\ [Next]_vars => FailInv'
  <2> SUFFICES ASSUME FailInv, [Next]_vars PROVE FailInv'
    OBVIOUS
  <2>1. TypeInv' /\ Quiet' /\ (faults' = 0 => faults = 0)
    BY TypesKept, QuietStep DEF FailInv
  <2>2. OneWorker' <=> OneWorker
    BY DEF OneWorker
  <2> QED BY <2>1, <2>2, UntriedStep, PaidCompletesStep DEF FailInv
<1>3. FailInv => FailedIsUnpaid
  <2> SUFFICES ASSUME FailInv, OneWorker, faults = 0, NEW k \in Keys, row[<<k, 0>>] = "failed"
               PROVE  moved[Scheduled(k)] = 0
    BY DEF FailedIsUnpaid, OneWorker
  <2>1. moved[Scheduled(k)] \in Nat
    BY KeysDiffer DEF FailInv, TypeInv, TypeOK
  <2>2. ~(moved[Scheduled(k)] > 0)
    BY DEF FailInv, PaidCompletes, Untried
  <2> QED BY <2>1, <2>2
<1> QED BY <1>1, <1>2, <1>3, PTL DEF Spec

-----------------------------------------------------------------------------
(* The keys of calls are used as KeyedCalls says.                          *)

KeysOfOneKind == \A r, s \in Requests : Key[r] = Key[s] => Kind[r] = Kind[s]

AdmittedUnder(i) == {c \in Callers : pc[c] = "admitted" /\ WalletKey(c) = i}

\* A P2P transfer marks its key when it is paid.
Marked == \A r \in Requests : Kind[r] = "p2p" /\ pc[r] = "mark" => moved[Own(r)] > 0

\* The keys of calls are keys, and calls are made under no other; the client's own
\* key is that of a call only for a P2P transfer.
LEMMA CallIdFacts ==
  ASSUME TypeInv
  PROVE  /\ CallIds \subseteq Ids
         /\ \A c \in Callers : pc[c] \in {"call", "admitted"} => WalletKey(c) \in CallIds
         /\ KeysOfOneKind => \A r \in Requests : Own(r) \in CallIds => Kind[r] = "p2p"
<1> DEFINE CallsOf(r) == CASE Kind[r] = "p2p"       -> {Own(r)}
                           [] Kind[r] = "batch"     -> {Key[r]} \X (1..Items[r])
                           [] Kind[r] = "scheduled" -> {Scheduled(Key[r])}
<1>1. CallIds = UNION {CallsOf(r) : r \in Requests}
  BY DEF CallIds
<1>2. ASSUME NEW r \in Requests
      PROVE  /\ Kind[r] = "p2p" => CallsOf(r) = {Own(r)}
             /\ Kind[r] = "batch" => CallsOf(r) = {Key[r]} \X (1..Items[r])
             /\ Kind[r] = "scheduled" => CallsOf(r) = {Scheduled(Key[r])}
             /\ Kind[r] \in {"p2p", "batch", "scheduled"}
  OBVIOUS
<1> HIDE DEF CallsOf
<1>3. ASSUME NEW r \in Requests, NEW i \in CallsOf(r)
      PROVE  /\ i \in Ids
             /\ \A s \in Requests : i = Own(s) => Key[s] = Key[r] /\ Kind[r] = "p2p"
  <2>1. CASE Kind[r] = "p2p"
    BY <1>2, <1>3, <2>1, KeysDiffer
  <2>2. CASE Kind[r] = "batch"
    <3>1. PICK j \in 1..Items[r] : i = <<Key[r], j>>
      BY <1>2, <1>3, <2>2
    <3>2. j \in 1..MaxItems
      OBVIOUS
    <3> QED BY <3>1, <3>2, KeysDiffer
  <2>3. CASE Kind[r] = "scheduled"
    BY <1>2, <1>3, <2>3, KeysDiffer
  <2> QED BY <1>2, <2>1, <2>2, <2>3
<1>4. CallIds \subseteq Ids
  BY <1>1, <1>3
<1>5. ASSUME NEW c \in Callers, pc[c] \in {"call", "admitted"} PROVE WalletKey(c) \in CallIds
  <2>1. CASE c \in Workers
    <3>1. PICK r \in Requests : Kind[r] = "scheduled" /\ job[c] = Key[r]
      BY <1>5, <2>1, CallKey DEF Dated
    <3>2. WalletKey(c) \in CallsOf(r)
      BY <1>2, <1>5, <2>1, <3>1, CallKey
    <3> QED BY <1>1, <3>2
  <2>2. CASE c \in Requests
    <3>1. Kind[c] \in {"p2p", "batch"} /\ item[c] \in 1..Items[c]
      BY <1>5, <2>2 DEF TypeInv, TypeOK, Control
    <3>2. WalletKey(c) \in CallsOf(c)
      BY <1>2, <1>5, <2>2, <3>1, CallKey DEF Own
    <3> QED BY <1>1, <2>2, <3>2
  <2> QED BY <2>1, <2>2 DEF Callers
<1>6. ASSUME KeysOfOneKind, NEW r \in Requests, Own(r) \in CallIds PROVE Kind[r] = "p2p"
  BY <1>1, <1>3, <1>6 DEF KeysOfOneKind
<1> QED BY <1>4, <1>5, <1>6

\* At most one caller takes a step.
LEMMA OneMoves ==
  ASSUME TypeInv, [Next]_vars
  PROVE  pc' = pc \/ \E c \in Callers : \A d \in Callers \ {c} : pc'[d] = pc[d]
<1> USE DEF TypeInv, TypeOK, Goto, End, Callers
<1> DEFINE Goal == pc' = pc \/ \E c \in Callers : \A d \in Callers \ {c} : pc'[d] = pc[d]
<1>1. ASSUME NEW c \in Callers, NEW l, Goto(c, l) PROVE Goal
  BY <1>1
<1> HIDE DEF Goal, Goto
<1>2. ASSUME NEW c \in Callers, Fail(c) PROVE Goal
  BY <1>1, <1>2 DEF Fail
<1>3. ASSUME NEW r \in Requests, Request(r) PROVE Goal
  BY <1>1, <1>2, <1>3 DEF Request, CheckIdempotency, CreateBatchTransactionTx, Call, Admit, WalletTransfer,
       WalletRefuses, CreateP2PTransaction, CreateScheduledTransaction, NextBatchItem, CommitBatch, SetIdempotency
<1>4. ASSUME NEW w \in Workers, GetScheduledTransactions(w) PROVE pc' = pc
  BY <1>4 DEF GetScheduledTransactions
<1>5. ASSUME NEW w \in Workers, Worker(w) \/ MarkLost(w) PROVE Goal \/ pc' = pc
  BY <1>1, <1>2, <1>4, <1>5 DEF Worker, Call, Admit, WalletTransfer, WalletRefuses, ExecuteScheduledTransfer,
       UpdateTransactionStatusTx, MarkTransactionAsFailed, MarkLost, Settle
<1>6. ASSUME NEW c \in Callers, CallTimesOut(c) \/ RecordFails(c) \/ RecordUnacknowledged(c) \/ Abandon(c)
      PROVE  Goal
  BY <1>1, <1>2, <1>6 DEF CallTimesOut, RecordFails, RecordUnacknowledged, Abandon
<1>7. ASSUME \/ \E i \in Ids : StrayCall(i) \/ ExpireKey(i)
             \/ \E k \in Keys : BecomeDue(k)
             \/ UNCHANGED vars
      PROVE  pc' = pc
  BY <1>7 DEF StrayCall, ExpireKey, BecomeDue, vars
<1>8. pc' = pc => Goal
  BY DEF Goal
<1>9. Goal
  BY <1>3, <1>5, <1>6, <1>7, <1>8 DEF Next
<1> QED BY <1>9 DEF Goal

\* How many calls are admitted under a key after a step, if c is the only caller
\* that moves.
LEMMA AdmittedCount ==
  ASSUME IsFiniteSet(Callers), TypeInv, [Next]_vars, NEW c \in Callers,
         \A d \in Callers \ {c} : pc'[d] = pc[d], NEW i
  PROVE  /\ Cardinality(AdmittedUnder(i)) \in Nat
         /\ WalletKey(c) # i => Cardinality(AdmittedUnder(i)') = Cardinality(AdmittedUnder(i))
         /\ WalletKey(c) = i /\ pc[c] # "admitted" /\ pc'[c] = "admitted" =>
              Cardinality(AdmittedUnder(i)') = Cardinality(AdmittedUnder(i)) + 1
         /\ WalletKey(c) = i /\ pc[c] = "admitted" /\ pc'[c] # "admitted" =>
              /\ Cardinality(AdmittedUnder(i)) > 0
              /\ Cardinality(AdmittedUnder(i)') = Cardinality(AdmittedUnder(i)) - 1
<1> DEFINE A == AdmittedUnder(i)
           B == {d \in Callers : pc'[d] = "admitted" /\ WalletKey(d) = i}
<1>1. AdmittedUnder(i)' = B
  BY CallSteps DEF AdmittedUnder
<1>2. \A d \in Callers \ {c} : d \in A <=> d \in B
  BY DEF AdmittedUnder
<1>3. /\ c \in A <=> (pc[c] = "admitted" /\ WalletKey(c) = i)
      /\ c \in B <=> (pc'[c] = "admitted" /\ WalletKey(c) = i)
  BY DEF AdmittedUnder
<1>4. A \subseteq Callers /\ B \subseteq Callers
  BY DEF AdmittedUnder
<1> HIDE DEF A, B
<1>5. IsFiniteSet(A) /\ IsFiniteSet(B)
  BY <1>4, FS_Subset
<1>6. Cardinality(A) \in Nat /\ Cardinality(B) \in Nat
  BY <1>5, FS_CardinalityType
<1>7. (c \in A <=> c \in B) => Cardinality(B) = Cardinality(A)
  <2>1. ASSUME c \in A <=> c \in B PROVE A = B
    <3>1. \A d \in Callers : d \in A <=> d \in B
      BY <1>2, <2>1
    <3> QED BY <1>4, <3>1
  <2> QED BY <2>1
<1>8. ASSUME c \notin A, c \in B PROVE Cardinality(B) = Cardinality(A) + 1
  <2>1. B = A \cup {c}
    BY <1>2, <1>4, <1>8
  <2> QED BY <1>5, <1>8, <2>1, FS_AddElement
<1>9. ASSUME c \in A, c \notin B PROVE Cardinality(A) > 0 /\ Cardinality(B) = Cardinality(A) - 1
  <2>1. A = B \cup {c}
    BY <1>2, <1>4, <1>9
  <2>2. Cardinality(A) = Cardinality(B) + 1
    BY <1>5, <1>9, <2>1, FS_AddElement
  <2> QED BY <1>6, <2>2
<1> QED BY <1>1, <1>3, <1>6, <1>7, <1>8, <1>9 DEF A

\* The calls that KeyedCalls sees.
OpenCalls == [i \in CallIds |-> stray[i] + Cardinality(AdmittedUnder(i))]

\* A step in which no caller is admitted or leaves changes these only through
\* the calls set aside.
LEMMA OpenSame ==
  ASSUME IsFiniteSet(Callers), TypeInv, [Next]_vars,
         \A c \in Callers : pc'[c] = "admitted" <=> pc[c] = "admitted", NEW i
  PROVE  Cardinality(AdmittedUnder(i)') = Cardinality(AdmittedUnder(i)) /\ Cardinality(AdmittedUnder(i)) \in Nat
<1>1. AdmittedUnder(i)' = AdmittedUnder(i)
  BY CallSteps DEF AdmittedUnder
<1>2. AdmittedUnder(i) \subseteq Callers
  BY DEF AdmittedUnder
<1> QED BY <1>1, <1>2, FS_Subset, FS_CardinalityType

\* Admitted calls are those that were, one more, or one less.
LEMMA Admissions ==
  ASSUME TypeInv, [Next]_vars
  PROVE  \/ \A c \in Callers : pc'[c] = "admitted" <=> pc[c] = "admitted"
         \/ \E c \in Callers : /\ \A d \in Callers \ {c} : pc'[d] = pc[d]
                               /\ (pc[c] = "admitted" /\ pc'[c] # "admitted") \/ (pc[c] # "admitted" /\ Admit(c))
<1>1. CASE pc' = pc
  BY <1>1
<1>2. ASSUME NEW c \in Callers, \A d \in Callers \ {c} : pc'[d] = pc[d]
      PROVE  \/ \A d \in Callers : pc'[d] = "admitted" <=> pc[d] = "admitted"
             \/ (pc[c] = "admitted" /\ pc'[c] # "admitted") \/ (pc[c] # "admitted" /\ Admit(c))
  <2>1. CASE pc'[c] = "admitted" /\ pc[c] # "admitted"
    BY <2>1, CallSteps
  <2> QED BY <1>2, <2>1
<1> QED BY <1>1, <1>2, OneMoves

\* How a call that was admitted is over.
LEMMA AdmittedLeaves ==
  ASSUME TypeInv, [Next]_vars, NEW c \in Callers, pc[c] = "admitted", pc'[c] # "admitted"
  PROVE  WalletTransfer(c) \/ WalletRefuses(c) \/ Leaves(c)
<1> USE DEF TypeInv, TypeOK, Control, Goto, End, wallet, tables, rounds, Callers
<1>1. ASSUME NEW s \in Requests, CheckIdempotency(s) \/ CreateBatchTransactionTx(s) \/ CreateScheduledTransaction(s)
      PROVE  FALSE
  BY <1>1 DEF CheckIdempotency, CreateBatchTransactionTx, CreateScheduledTransaction
<1>2. ASSUME NEW s \in Requests, CreateP2PTransaction(s) \/ NextBatchItem(s) \/ CommitBatch(s) \/ SetIdempotency(s)
      PROVE  FALSE
  BY <1>2 DEF CreateP2PTransaction, NextBatchItem, CommitBatch, SetIdempotency
<1>3. ASSUME NEW d \in Callers, Admit(d) \/ RecordFails(d) \/ RecordUnacknowledged(d) PROVE FALSE
  BY <1>3 DEF Admit, Fail, RecordFails, RecordUnacknowledged
<1>4. ASSUME NEW d \in Callers, WalletTransfer(d) \/ WalletRefuses(d) PROVE d = c
  BY <1>4 DEF WalletTransfer, WalletRefuses, Fail
<1>5. ASSUME NEW d \in Callers, CallTimesOut(d) PROVE Leaves(c)
  BY <1>5, FailMoves DEF CallTimesOut, Leaves, Fail
<1>6. ASSUME NEW d \in Callers, Abandon(d) PROVE Leaves(c)
  BY <1>6 DEF Abandon, Leaves
<1>7. ASSUME NEW v \in Workers, GetScheduledTransactions(v) \/ ExecuteScheduledTransfer(v) PROVE FALSE
  BY <1>7 DEF GetScheduledTransactions, ExecuteScheduledTransfer
<1>8. ASSUME NEW v \in Workers, UpdateTransactionStatusTx(v) \/ MarkTransactionAsFailed(v) \/ MarkLost(v) PROVE FALSE
  BY <1>8 DEF UpdateTransactionStatusTx, MarkTransactionAsFailed, MarkLost, Settle
<1>9. ASSUME \/ \E i \in Ids : StrayCall(i) \/ ExpireKey(i)
             \/ \E k \in Keys : BecomeDue(k)
             \/ UNCHANGED vars
      PROVE  FALSE
  BY <1>9 DEF StrayCall, ExpireKey, BecomeDue, vars
<1> QED BY <1>1, <1>2, <1>3, <1>4, <1>5, <1>6, <1>7, <1>8, <1>9 DEF Next, Request, Worker, Call

\* The steps of KeyedCalls, on the state of this module.
Spent == used \cap CallIds
Money == [i \in CallIds |-> moved[i]]

Leave(i) == OpenCalls[i] > 0 /\ OpenCalls' = [OpenCalls EXCEPT ![i] = @ - 1]

\* Each of these is a step of KeyedCalls.
LEMMA KeyedSteps ==
  /\ Calls!Init <=> Spent = {} /\ Money = [i \in CallIds |-> 0] /\ OpenCalls = [i \in CallIds |-> 0]
  /\ UNCHANGED Calls!keyed <=> UNCHANGED <<Spent, Money, OpenCalls>>
  /\ \A i \in CallIds :
       /\ i \notin Spent /\ OpenCalls' = [OpenCalls EXCEPT ![i] = @ + 1] /\ UNCHANGED <<Spent, Money>> => Calls!Next
       /\ Leave(i) /\ UNCHANGED <<Spent, Money>> => Calls!Next
       /\ Leave(i) /\ Money' = [Money EXCEPT ![i] = @ + 1] /\ Spent' \in {Spent, Spent \cup {i}} => Calls!Next
       /\ Money[i] > 0 /\ Spent' = Spent \cup {i} /\ UNCHANGED <<Money, OpenCalls>> => Calls!Next
       /\ Spent' = Spent \ {i} /\ UNCHANGED <<Money, OpenCalls>> => Calls!Next
BY DEF Calls!Init, Calls!keyed, Calls!Next, Calls!Admit, Calls!Refuse, Calls!Leave, Calls!Move, Calls!Mark,
       Calls!Expire, Spent, Money, OpenCalls, AdmittedUnder, Leave

KeyedInv == TypeInv /\ Called /\ Marked

\* A P2P transfer that is about to mark its key was paid under it.
LEMMA MarkedStep ==
  ASSUME KeyedInv, [Next]_vars
  PROVE  Marked'
<1> SUFFICES ASSUME NEW r \in Requests, Kind[r] = "p2p", pc'[r] = "mark" PROVE moved'[Own(r)] > 0
  BY DEF Marked, Own
<1>1. pc[r] = "mark" \/ CreateP2PTransaction(r)
  <2> USE DEF KeyedInv, TypeInv, TypeOK, Goto, End, wallet, tables, rounds, Callers
  <2>1. ASSUME NEW s \in Requests, CheckIdempotency(s) \/ CreateBatchTransactionTx(s) \/ CreateScheduledTransaction(s)
        PROVE  pc[r] = "mark"
    BY <2>1 DEF CheckIdempotency, CreateBatchTransactionTx, CreateScheduledTransaction
  <2>2. ASSUME NEW s \in Requests, NextBatchItem(s) \/ CommitBatch(s) \/ SetIdempotency(s)
        PROVE  pc[r] = "mark"
    BY <2>2 DEF NextBatchItem, CommitBatch, SetIdempotency
  <2>3. ASSUME NEW s \in Requests, CreateP2PTransaction(s) PROVE s = r \/ pc[r] = "mark"
    BY <2>3 DEF CreateP2PTransaction
  <2>4. ASSUME NEW d \in Callers,
               \/ Admit(d) \/ WalletTransfer(d) \/ WalletRefuses(d) \/ CallTimesOut(d)
               \/ RecordFails(d) \/ RecordUnacknowledged(d)
        PROVE  pc[r] = "mark"
    BY <2>4 DEF Admit, WalletTransfer, WalletRefuses, CallTimesOut, RecordFails, RecordUnacknowledged, Fail
  <2>5. ASSUME NEW d \in Callers, Abandon(d) PROVE pc[r] = "mark"
    BY <2>5 DEF Abandon
  <2>6. ASSUME NEW v \in Workers, GetScheduledTransactions(v) \/ ExecuteScheduledTransfer(v) PROVE pc[r] = "mark"
    BY <2>6 DEF GetScheduledTransactions, ExecuteScheduledTransfer
  <2>7. ASSUME NEW v \in Workers, UpdateTransactionStatusTx(v) \/ MarkTransactionAsFailed(v) \/ MarkLost(v)
        PROVE  pc[r] = "mark"
    BY <2>7 DEF UpdateTransactionStatusTx, MarkTransactionAsFailed, MarkLost, Settle
  <2>8. ASSUME \/ \E i \in Ids : StrayCall(i) \/ ExpireKey(i)
               \/ \E k \in Keys : BecomeDue(k)
               \/ UNCHANGED vars
        PROVE  pc[r] = "mark"
    BY <2>8 DEF StrayCall, ExpireKey, BecomeDue, vars
  <2> QED BY <2>1, <2>2, <2>3, <2>4, <2>5, <2>6, <2>7, <2>8 DEF Next, Request, Worker, Call
<1>2. CASE pc[r] = "mark"
  BY <1>2, MovedGrows, KeysDiffer DEF KeyedInv, Marked
<1>3. CASE CreateP2PTransaction(r)
  <2>1. r \in Callers /\ pc[r] = "record" /\ r \in Requests
    BY <1>3 DEF CreateP2PTransaction, Callers
  <2>2. moved[WalletKey(r)] > 0 /\ WalletKey(r) = Own(r)
    BY <2>1, CallKey, KeysDiffer DEF KeyedInv, Called
  <2> QED BY <2>2, MovedGrows, KeysDiffer DEF KeyedInv
<1> QED BY <1>1, <1>2, <1>3

\* What is open after a step that sets no call aside and lets no caller in or out.
LEMMA NoneMoves ==
  ASSUME IsFiniteSet(Callers), TypeInv, [Next]_vars, KeysOfOneKind, Marked,
         \A c \in Callers : pc'[c] = "admitted" <=> pc[c] = "admitted"
  PROVE  Calls!Next \/ UNCHANGED Calls!keyed
<1>0. /\ moved \in [Ids -> Nat] /\ stray \in [Ids -> Nat] /\ used \subseteq Ids
      /\ pc \in [Callers -> {"check", "insert", "call", "admitted", "record", "mark", "fail", "idle", "done"}]
      /\ CallIds \subseteq Ids
  BY CallIdFacts DEF TypeInv, TypeOK
<1>1. \A i \in CallIds : /\ OpenCalls[i] = stray[i] + Cardinality(AdmittedUnder(i))
                         /\ OpenCalls'[i] = stray'[i] + Cardinality(AdmittedUnder(i))
                         /\ Cardinality(AdmittedUnder(i)) \in Nat
  BY OpenSame DEF OpenCalls
<1>2. stray' = stray => OpenCalls' = OpenCalls
  BY <1>1 DEF OpenCalls
<1>3. moved' = moved => Money' = Money
  BY DEF Money
<1>4. CASE UNCHANGED <<moved, stray, used>>
  BY <1>2, <1>3, <1>4, KeyedSteps DEF Spent
<1>5. ASSUME NEW i \in Ids, StrayCall(i),
             \/ UNCHANGED <<moved, used>>
             \/ moved' = [moved EXCEPT ![i] = @ + 1] /\ used' \in {used, used \cup {i}}
      PROVE  Calls!Next \/ UNCHANGED Calls!keyed
  <2>1. stray[i] > 0 /\ stray' = [stray EXCEPT ![i] = @ - 1]
    BY <1>5 DEF StrayCall
  <2>2. CASE i \in CallIds
    <3>1. OpenCalls[i] > 0
      BY <1>0, <1>1, <2>1, <2>2
    <3>2. \A j \in CallIds : OpenCalls'[j] = IF j = i THEN OpenCalls[j] - 1 ELSE OpenCalls[j]
      BY <1>0, <1>1, <2>1
    <3>3. OpenCalls' = [OpenCalls EXCEPT ![i] = @ - 1]
      BY <2>2, <3>2 DEF OpenCalls
    <3>4. Leave(i)
      BY <3>1, <3>3 DEF Leave
    <3>5. CASE UNCHANGED <<moved, used>>
      BY <1>3, <2>2, <3>4, <3>5, KeyedSteps DEF Spent
    <3>6. CASE moved' = [moved EXCEPT ![i] = @ + 1] /\ used' \in {used, used \cup {i}}
      <4>1. Money' = [Money EXCEPT ![i] = @ + 1]
        BY <1>0, <2>2, <3>6 DEF Money
      <4>2. Spent' \in {Spent, Spent \cup {i}}
        BY <2>2, <3>6 DEF Spent
      <4> QED BY <2>2, <3>4, <4>1, <4>2, KeyedSteps
    <3> QED BY <1>5, <3>5, <3>6
  <2>3. CASE i \notin CallIds
    <3>1. \A j \in CallIds : stray'[j] = stray[j] /\ moved'[j] = moved[j]
      BY <1>0, <1>5, <2>1, <2>3
    <3>2. OpenCalls' = OpenCalls /\ Money' = Money
      BY <1>1, <3>1 DEF OpenCalls, Money
    <3>3. Spent' = Spent
      BY <1>5, <2>3 DEF Spent
    <3> QED BY <3>2, <3>3, KeyedSteps
  <2> QED BY <2>2, <2>3
<1>6. ASSUME NEW i \in Ids, ExpireKey(i) PROVE Calls!Next \/ UNCHANGED Calls!keyed
  <2>1. used' = used \ {i} /\ moved' = moved /\ stray' = stray
    BY <1>6 DEF ExpireKey
  <2>2. CASE i \in CallIds
    <3>1. Spent' = Spent \ {i}
      BY <2>1 DEF Spent
    <3> QED BY <1>2, <1>3, <2>1, <2>2, <3>1, KeyedSteps
  <2>3. CASE i \notin CallIds
    <3>1. Spent' = Spent
      BY <2>1, <2>3 DEF Spent
    <3> QED BY <1>2, <1>3, <2>1, <3>1, KeyedSteps
  <2> QED BY <2>2, <2>3
<1>7. ASSUME NEW r \in Requests, SetIdempotency(r) PROVE Calls!Next \/ UNCHANGED Calls!keyed
  <2>1. moved' = moved /\ stray' = stray /\ pc[r] = "mark" /\ (used' = used \/ used' = used \cup {Own(r)})
    BY <1>7 DEF SetIdempotency, wallet
  <2>2. CASE Own(r) \in CallIds /\ used' = used \cup {Own(r)}
    <3>1. Money[Own(r)] > 0
      BY <2>1, <2>2, CallIdFacts DEF Marked, Money
    <3>2. Spent' = Spent \cup {Own(r)}
      BY <2>2 DEF Spent
    <3> QED BY <1>2, <1>3, <2>1, <2>2, <3>1, <3>2, KeyedSteps
  <2>3. CASE Own(r) \notin CallIds \/ used' = used
    <3>1. Spent' = Spent
      BY <2>1, <2>3 DEF Spent
    <3> QED BY <1>2, <1>3, <2>1, <3>1, KeyedSteps
  <2> QED BY <2>1, <2>2, <2>3
<1>8. ASSUME NEW c \in Callers, Leaves(c) \/ WalletTransfer(c) PROVE FALSE
  BY <1>0, <1>8 DEF Leaves, WalletTransfer, Goto
<1>9. ASSUME NEW i \in Ids, Moves(i) PROVE Calls!Next \/ UNCHANGED Calls!keyed
  BY <1>5, <1>8, <1>9 DEF Moves, MoveMoney
<1>10. CASE Still
  BY <1>4, <1>5, <1>6, <1>7, <1>8, <1>10 DEF Still
<1> QED BY <1>9, <1>10, MoneyStep

\* A step that lets a caller in, or out.
LEMMA OneAdmitted ==
  ASSUME IsFiniteSet(Callers), TypeInv, [Next]_vars, NEW c \in Callers,
         \A d \in Callers \ {c} : pc'[d] = pc[d],
         \/ pc[c] = "admitted" /\ pc'[c] # "admitted"
         \/ pc[c] # "admitted" /\ pc'[c] = "admitted" /\ Admit(c)
  PROVE  Calls!Next \/ UNCHANGED Calls!keyed
<1> DEFINE k == WalletKey(c)
           n(i) == Cardinality(AdmittedUnder(i))
           m(i) == Cardinality(AdmittedUnder(i)')
<1>0. /\ moved \in [Ids -> Nat] /\ stray \in [Ids -> Nat]
      /\ CallIds \subseteq Ids /\ k \in CallIds
  BY CallIdFacts DEF TypeInv, TypeOK, Admit
<1>1. \A i \in CallIds : OpenCalls[i] = stray[i] + n(i) /\ OpenCalls'[i] = stray'[i] + m(i) /\ n(i) \in Nat
  BY AdmittedCount DEF OpenCalls
<1>2. /\ \A i \in CallIds \ {k} : m(i) = n(i)
      /\ pc[c] # "admitted" /\ pc'[c] = "admitted" => m(k) = n(k) + 1
      /\ pc[c] = "admitted" /\ pc'[c] # "admitted" => m(k) = n(k) - 1 /\ n(k) > 0
  <2>1. ASSUME NEW i, i # k PROVE m(i) = n(i)
    BY <2>1, AdmittedCount
  <2>2. ASSUME NEW i, i = k, pc[c] # "admitted", pc'[c] = "admitted" PROVE m(i) = n(i) + 1
    BY <2>2, AdmittedCount
  <2>3. ASSUME NEW i, i = k, pc[c] = "admitted", pc'[c] # "admitted" PROVE m(i) = n(i) - 1 /\ n(i) > 0
    BY <2>3, AdmittedCount
  <2> HIDE DEF k, n, m
  <2> QED BY <2>1, <2>2, <2>3
<1> HIDE DEF n, m
<1>3. moved' = moved => Money' = Money
  BY DEF Money
<1>4. CASE pc[c] # "admitted" /\ pc'[c] = "admitted" /\ Admit(c)
  <2>1. m(k) = n(k) + 1
    BY <1>2, <1>4
  <2>2. UNCHANGED <<used, moved, stray>> /\ k \notin used
    BY <1>4, CallSteps DEF Admit, wallet
  <2> HIDE DEF k
  <2>3. \A i \in CallIds : OpenCalls'[i] = IF i = k THEN OpenCalls[i] + 1 ELSE OpenCalls[i]
    BY <1>0, <1>1, <1>2, <2>1, <2>2
  <2>4. OpenCalls' = [OpenCalls EXCEPT ![k] = @ + 1]
    BY <2>3 DEF OpenCalls
  <2>5. k \notin Spent /\ Spent' = Spent
    BY <2>2 DEF Spent
  <2> QED BY <1>0, <1>3, <2>2, <2>4, <2>5, KeyedSteps
<1>5. CASE pc[c] = "admitted" /\ pc'[c] # "admitted"
  <2>1. m(k) = n(k) - 1 /\ n(k) > 0
    BY <1>2, <1>5
  <2>2. CASE stray' = stray /\ \/ UNCHANGED <<used, moved>>
                               \/ moved' = [moved EXCEPT ![k] = @ + 1] /\ used' \in {used, used \cup {k}}
    <3> HIDE DEF k
    <3>1. \A i \in CallIds : OpenCalls'[i] = IF i = k THEN OpenCalls[i] - 1 ELSE OpenCalls[i]
      BY <1>0, <1>1, <1>2, <2>1, <2>2
    <3>2. OpenCalls' = [OpenCalls EXCEPT ![k] = @ - 1]
      BY <3>1 DEF OpenCalls
    <3>3. OpenCalls[k] > 0
      BY <1>0, <1>1, <2>1
    <3>4. Leave(k)
      BY <3>2, <3>3 DEF Leave
    <3>5. CASE UNCHANGED <<used, moved>>
      <4>1. Spent' = Spent
        BY <3>5 DEF Spent
      <4> QED BY <1>0, <1>3, <3>4, <3>5, <4>1, KeyedSteps
    <3>6. CASE moved' = [moved EXCEPT ![k] = @ + 1] /\ used' \in {used, used \cup {k}}
      <4>1. Money' = [Money EXCEPT ![k] = @ + 1]
        BY <1>0, <3>6 DEF Money
      <4>2. Spent' \in {Spent, Spent \cup {k}}
        BY <1>0, <3>6 DEF Spent
      <4> QED BY <1>0, <3>4, <4>1, <4>2, KeyedSteps
    <3> QED BY <2>2, <3>5, <3>6
  <2>3. CASE Leaves(c)
    <3>1. stray' = [stray EXCEPT ![k] = @ + 1] /\ UNCHANGED <<used, moved>>
      BY <2>3 DEF Leaves, LeaveCall
    <3> HIDE DEF k
    <3>2. \A i \in CallIds : OpenCalls'[i] = OpenCalls[i]
      BY <1>0, <1>1, <1>2, <2>1, <3>1
    <3>3. OpenCalls' = OpenCalls
      BY <3>2 DEF OpenCalls
    <3>4. Spent' = Spent
      BY <3>1 DEF Spent
    <3> QED BY <1>3, <3>1, <3>3, <3>4, KeyedSteps
  <2>4. ASSUME WalletTransfer(c) \/ WalletRefuses(c)
        PROVE  stray' = stray /\ \/ UNCHANGED <<used, moved>>
                                 \/ moved' = [moved EXCEPT ![k] = @ + 1] /\ used' \in {used, used \cup {k}}
    BY <2>4 DEF WalletTransfer, WalletRefuses, MoveMoney, wallet
  <2> QED BY <1>5, <2>2, <2>3, <2>4, AdmittedLeaves
<1> QED BY <1>4, <1>5

\* With keys of one kind each, the calls that this module makes of the wallet
\* service, and what it takes the wallet service to do with their keys, are a
\* behaviour of KeyedCalls, which module Wallet implements too.
THEOREM CallsAreKeyed ==
  ASSUME IsFiniteSet(Requests), IsFiniteSet(Workers), KeysOfOneKind
  PROVE  Spec => KeyDiscipline
<1>0. IsFiniteSet(Callers)
  BY FS_Union DEF Callers
<1>1. Init => KeyedInv /\ Calls!Init
  <2> SUFFICES ASSUME Init PROVE KeyedInv /\ Calls!Init
    OBVIOUS
  <2>1. TypeInv
    BY KeysDiffer DEF Init, TypeInv, TypeOK, Control, Callers, Dated
  <2>2. Called /\ Marked
    BY KeysDiffer DEF Init, Called, Marked, Callers
  <2>3. CallIds \subseteq Ids
    BY <2>1, CallIdFacts
  <2>4. \A i \in CallIds : stray[i] + Cardinality(AdmittedUnder(i)) = 0
    <3>1. \A i : AdmittedUnder(i) = {}
      BY DEF Init, AdmittedUnder, Callers
    <3>2. \A i \in CallIds : stray[i] = 0
      BY <2>3 DEF Init
    <3>3. \A i : Cardinality(AdmittedUnder(i)) = 0
      BY <3>1, FS_EmptySet
    <3> QED BY <3>2, <3>3
  <2>5. OpenCalls = [i \in CallIds |-> 0]
    BY <2>4 DEF OpenCalls
  <2>6. Spent = {} /\ Money = [i \in CallIds |-> 0]
    BY <2>3 DEF Init, Spent, Money
  <2> QED BY <2>1, <2>2, <2>5, <2>6, KeyedSteps DEF KeyedInv
<1>2. KeyedInv /\ [Next]_vars => KeyedInv' /\ [Calls!Next]_(Calls!keyed)
  <2> SUFFICES ASSUME KeyedInv, [Next]_vars PROVE KeyedInv' /\ (Calls!Next \/ UNCHANGED Calls!keyed)
    OBVIOUS
  <2>1. KeyedInv'
    BY TypesKept, CalledStep, MarkedStep DEF KeyedInv
  <2>2. ASSUME \A c \in Callers : pc'[c] = "admitted" <=> pc[c] = "admitted"
        PROVE  Calls!Next \/ UNCHANGED Calls!keyed
    BY <1>0, <2>2, NoneMoves DEF KeyedInv
  <2>3. ASSUME NEW c \in Callers, \A d \in Callers \ {c} : pc'[d] = pc[d],
               (pc[c] = "admitted" /\ pc'[c] # "admitted") \/ (pc[c] # "admitted" /\ Admit(c)),
               ~(\A d \in Callers : pc'[d] = "admitted" <=> pc[d] = "admitted")
        PROVE  Calls!Next \/ UNCHANGED Calls!keyed
    BY <1>0, <2>3, OneAdmitted DEF KeyedInv
  <2> QED BY <2>1, <2>2, <2>3, Admissions DEF KeyedInv
<1> QED BY <1>1, <1>2, PTL DEF Spec, KeyDiscipline, Calls!Spec
=============================================================================
