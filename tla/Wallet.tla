-------------------------------- MODULE Wallet --------------------------------
(***************************************************************************)
(* The money operations of internal/wallet: Deposit, Withdraw, Transfer    *)
(* and the cached GetWallet, as concurrent requests to any number of       *)
(* instances of the service.                                               *)
(*                                                                         *)
(* Redis keeps idempotency keys, try-locks with a time to live and cached  *)
(* balances; Postgres keeps the balances, with row locks (SELECT ... FOR   *)
(* UPDATE) held to the end of the transaction, behind a connection pool.   *)
(* A balance is a whole number of the 0.0001 units NUMERIC(20,4) stores.   *)
(* Every wallet is active: nothing ever gives one another status.          *)
(* "journal" is the table wallet_events; the transaction that adds a row   *)
(* to it saves the matching outbox row, which module Outbox takes over.    *)
(*                                                                         *)
(* A fault, at most MaxFaults of them, is: a Redis or Postgres call that   *)
(* fails or whose answer is lost, a Redis lock whose time runs out         *)
(* under its holder, an idempotency key that expires, or a request that is *)
(* abandoned, its process dead or its context cancelled.                   *)
(***************************************************************************)
EXTENDS Integers, FiniteSets, Sequences

CONSTANTS Wallets,            \* ordered: Transfer locks in the order of ids
          Requests,           \* calls of Deposit, Withdraw and Transfer
          Readers,            \* callers of GetWallet, each for the wallet it
          Asks,               \* asks for, again and again
          Keys,               \* idempotency keys
          From, To, Amount,   \* arguments of each request; a deposit has no
          Key,                \* From and a withdrawal no To
          After,              \* the client sends a request once this one is over
          Opening,            \* balances at the start
          MaxConns,           \* size of the connection pool (25 by default)
          NoWallet, NoRequest, NoValue,
          MaxFaults

ASSUME WalletConstants ==
  /\ Wallets \subseteq Nat
  /\ IsFiniteSet(Requests)
  /\ NoWallet \notin Wallets
  /\ NoRequest \notin Requests
  /\ NoValue \notin Int
  /\ From \in [Requests -> Wallets \cup {NoWallet}]
  /\ To \in [Requests -> Wallets \cup {NoWallet}]
  /\ \A r \in Requests : From[r] # To[r]   \* checked by the caller of Transfer
  /\ Amount \in [Requests -> Nat]
  /\ Key \in [Requests -> Keys]
  /\ Asks \in [Readers -> Wallets]
  /\ After \in [Requests -> Requests \cup {NoRequest}]
  /\ Opening \in [Wallets -> Nat]
  /\ MaxConns \in Nat \ {0}
  /\ MaxFaults \in Nat

VARIABLES balance,   \* committed balances
          rowLock,   \* the request whose transaction holds the wallet's row
          journal,   \* wallet_events, per wallet
          lock,      \* wallets with a lock key in Redis
          used,      \* idempotency keys in Redis
          cache,     \* cached balances in Redis
          pc, held, seen, dirty, outcome, shown,   \* the requests
          got,       \* what each reader has read and not yet cached
          applied,   \* history: requests whose transaction committed
          raced,     \* history: wallets cached from a read a commit overtook
          faults

store  == <<balance, rowLock, journal, applied>>
redis  == <<lock, used, cache, raced>>
calls  == <<pc, held, seen, dirty, outcome, shown>>
vars   == <<store, redis, calls, got, faults>>

InTx    == {"rows", "decide", "readback", "commit"}
Phases  == InTx \cup {"check", "lock", "begin", "mark", "invalidate", "release", "done"}
Results == {"none", "ok", "duplicate", "locked", "insufficient", "error", "abandoned"}

Bank == INSTANCE Bank

Touched(r) == {From[r], To[r]} \ {NoWallet}

IsDeposit(r) == From[r] = NoWallet

StoreOK ==
  /\ balance \in [Wallets -> Int]
  /\ rowLock \in [Wallets -> Requests \cup {NoRequest}]
  /\ journal \in [Wallets -> Seq([req : Requests, before : Int, after : Int])]
  /\ applied \subseteq Requests

RedisOK ==
  /\ lock \subseteq Wallets
  /\ used \subseteq Keys
  /\ cache \in [Wallets -> Int \cup {NoValue}]
  /\ raced \subseteq Wallets

PcOK ==
  /\ pc \in [Requests -> Phases]
  /\ \A r \in Requests : pc[r] = "readback" => IsDeposit(r)

CallsOK ==
  /\ PcOK
  /\ held \in [Requests -> SUBSET Wallets]
  /\ seen \in [Requests -> [Wallets -> Int]]
  /\ dirty \in [Requests -> SUBSET Wallets]
  /\ outcome \in [Requests -> Results]
  /\ shown \in [Requests -> Int \cup {NoValue}]

ReadsOK == got \in [Readers -> Int \cup {NoValue}]

TypeOK == StoreOK /\ RedisOK /\ CallsOK /\ ReadsOK /\ faults \in 0..MaxFaults

Init ==
  /\ balance = Opening
  /\ rowLock = [w \in Wallets |-> NoRequest]
  /\ journal = [w \in Wallets |-> <<>>]
  /\ lock = {} /\ used = {}
  /\ cache = [w \in Wallets |-> NoValue]
  /\ pc = [r \in Requests |-> "check"]
  /\ held = [r \in Requests |-> {}]
  /\ seen = [r \in Requests |-> [w \in Wallets |-> 0]]
  /\ dirty = [r \in Requests |-> {}]
  /\ outcome = [r \in Requests |-> "none"]
  /\ shown = [r \in Requests |-> NoValue]
  /\ got = [g \in Readers |-> NoValue]
  /\ applied = {} /\ raced = {}
  /\ faults = 0

Fault == faults < MaxFaults /\ faults' = faults + 1
NoFault == UNCHANGED faults

\* Variants named ...Bug are plausible mistakes in the definition that follows
\* them; nothing uses them, they serve to show what a property depends on.

Goto(r, l) == pc' = [pc EXCEPT ![r] = l]
Answer(r, o) == outcome' = [outcome EXCEPT ![r] = o]

\* Connections taken by open transactions; a query outside one needs one more.
FreeConn == Cardinality({r \in Requests : pc[r] \in InTx}) < MaxConns

-----------------------------------------------------------------------------
(* Before the transaction.                                                 *)

Sent(r) == \A s \in {After[r]} \ {NoRequest} : pc[s] = "done"

\* The key is claimed as it is checked.
CheckIdempotencyBug(r) ==
  /\ pc[r] = "check" /\ Sent(r)
  /\ IF Key[r] \in used
     THEN Goto(r, "done") /\ Answer(r, "duplicate")
     ELSE Goto(r, "lock") /\ UNCHANGED outcome
  /\ used' = used \cup {Key[r]}
  /\ UNCHANGED <<store, lock, cache, raced, got, held, seen, dirty, shown, faults>>

CheckIdempotency(r) ==
  /\ pc[r] = "check" /\ Sent(r)
  /\ \/ /\ Key[r] \in used
        /\ Goto(r, "done") /\ Answer(r, "duplicate") /\ NoFault
     \/ /\ Key[r] \notin used
        /\ Goto(r, "lock") /\ UNCHANGED outcome /\ NoFault
     \/ Goto(r, "done") /\ Answer(r, "error") /\ Fault
  /\ UNCHANGED <<store, redis, got, held, seen, dirty, shown>>

\* The answer of SETNX is ignored.
AcquireLockBug(r) ==
  /\ pc[r] = "lock"
  /\ \E w \in Touched(r) \ held[r] :
       /\ lock' = lock \cup {w}
       /\ held' = [held EXCEPT ![r] = @ \cup {w}]
  /\ Goto(r, IF held'[r] = Touched(r) THEN "begin" ELSE "lock")
  /\ UNCHANGED <<store, got, used, cache, raced, seen, dirty, outcome, shown, faults>>

\* SETNX of the next wallet's lock, in the order of ids.  A lock that is taken
\* ends the request, and so does an error of Redis, which may have set the lock
\* all the same; what was locked is released.
AcquireLock(r) ==
  /\ pc[r] = "lock"
  /\ \E w \in Touched(r) \ held[r] :
       /\ \A v \in Touched(r) \ held[r] : w <= v
       /\ \/ /\ w \notin lock
             /\ lock' = lock \cup {w}
             /\ held' = [held EXCEPT ![r] = @ \cup {w}]
             /\ Goto(r, IF held'[r] = Touched(r) THEN "begin" ELSE "lock")
             /\ UNCHANGED outcome /\ NoFault
          \/ /\ w \in lock
             /\ Goto(r, "release") /\ Answer(r, "locked")
             /\ UNCHANGED <<lock, held>> /\ NoFault
          \/ /\ Goto(r, "release") /\ Answer(r, "error")
             /\ lock' \in {lock, lock \cup {w}} /\ UNCHANGED held /\ Fault
  /\ UNCHANGED <<store, got, used, cache, raced, seen, dirty, shown>>

-----------------------------------------------------------------------------
(* The transaction.                                                        *)

FreeRows(r) == rowLock' = [w \in Wallets |-> IF rowLock[w] = r THEN NoRequest ELSE rowLock[w]]

BeginTx(r) ==
  /\ pc[r] = "begin"
  /\ FreeConn
  /\ Goto(r, "rows")
  /\ UNCHANGED <<store, redis, got, faults, held, seen, dirty, outcome, shown>>

\* The row GetWalletForUpdate asks for next: the source before the destination.
WantsRow(r, w) ==
  /\ pc[r] = "rows"
  /\ w \in Touched(r) /\ rowLock[w] # r
  /\ w = To[r] /\ From[r] # NoWallet => rowLock[From[r]] = r

\* SELECT without FOR UPDATE.
GetWalletForUpdateBug(r) ==
  /\ pc[r] = "rows"
  /\ seen' = [seen EXCEPT ![r] = balance]
  /\ Goto(r, "decide")
  /\ UNCHANGED <<store, redis, got, faults, held, dirty, outcome, shown>>

GetWalletForUpdate(r) ==
  /\ \E w \in Wallets :
       /\ WantsRow(r, w)
       /\ rowLock[w] = NoRequest
       /\ rowLock' = [rowLock EXCEPT ![w] = r]
       /\ seen' = [seen EXCEPT ![r][w] = balance[w]]
  /\ Goto(r, IF \A w \in Touched(r) : rowLock'[w] = r THEN "decide" ELSE "rows")
  /\ UNCHANGED <<balance, journal, applied, redis, got, faults, held, dirty, outcome, shown>>

\* The transaction is left open.
RollbackBug(r, o) ==
  /\ Goto(r, "release") /\ Answer(r, o)
  /\ UNCHANGED <<store, redis, got, held, seen, dirty, shown>>

\* WithTransaction rolls back and the error is returned.
Rollback(r, o) ==
  /\ FreeRows(r)
  /\ Goto(r, "release") /\ Answer(r, o)
  /\ UNCHANGED <<balance, journal, applied, redis, got, held, seen, dirty, shown>>

\* No check of the balance.
DecideBug(r) ==
  /\ pc[r] = "decide"
  /\ Goto(r, IF IsDeposit(r) THEN "readback" ELSE "commit")
  /\ UNCHANGED <<store, redis, got, faults, held, seen, dirty, outcome, shown>>

\* Every request is read back the way a deposit is.
DecideReadsBackBug(r) ==
  /\ pc[r] = "decide"
  /\ From[r] # NoWallet => seen[r][From[r]] >= Amount[r]
  /\ Goto(r, "readback")
  /\ UNCHANGED <<store, redis, got, faults, held, seen, dirty, outcome, shown>>

\* A withdrawal reads its result back outside its transaction.
DecideReadsCommittedBug(r) ==
  /\ pc[r] = "decide"
  /\ From[r] # NoWallet => seen[r][From[r]] >= Amount[r]
  /\ Goto(r, "commit")
  /\ shown' = [shown EXCEPT ![r] = IF IsDeposit(r) THEN NoValue ELSE balance[From[r]]]
  /\ UNCHANGED <<store, redis, got, faults, held, seen, dirty, outcome>>

\* The wallet's updates stay invisible until the commit; a withdrawal reads
\* them back through its own transaction.
Decide(r) ==
  /\ pc[r] = "decide"
  /\ \/ /\ From[r] # NoWallet /\ seen[r][From[r]] < Amount[r]
        /\ Rollback(r, "insufficient")
     \/ /\ From[r] # NoWallet /\ seen[r][From[r]] >= Amount[r]
        /\ Goto(r, "commit")
        /\ shown' = [shown EXCEPT ![r] = IF To[r] = NoWallet
                                         THEN seen[r][From[r]] - Amount[r] ELSE NoValue]
        /\ UNCHANGED <<store, redis, got, held, seen, dirty, outcome>>
     \/ /\ IsDeposit(r)
        /\ Goto(r, "readback")
        /\ UNCHANGED <<store, redis, got, held, seen, dirty, outcome, shown>>
  /\ NoFault

\* Deposit reads the wallet through another connection than its transaction's.
ReadBack(r) ==
  /\ pc[r] = "readback"
  /\ FreeConn
  /\ shown' = [shown EXCEPT ![r] = balance[To[r]]]
  /\ Goto(r, "commit")
  /\ UNCHANGED <<store, redis, got, faults, held, seen, dirty, outcome>>

NewBalance(r, w) == seen[r][w] + Bank!Delta(r, w)

\* The second UPDATE of a transfer is forgotten.
PostBug(r) ==
  /\ \E w \in Touched(r) :
       /\ From[r] # NoWallet => w = From[r]
       /\ balance' = [balance EXCEPT ![w] = NewBalance(r, w)]
  /\ applied' = applied \cup {r}
  /\ FreeRows(r) /\ UNCHANGED journal

Post(r) ==
  /\ balance' = [w \in Wallets |-> IF w \in Touched(r) THEN NewBalance(r, w) ELSE balance[w]]
  /\ journal' = [w \in Wallets |->
                   IF w \in Touched(r)
                   THEN Append(journal[w], [req |-> r, before |-> seen[r][w],
                                            after |-> NewBalance(r, w)])
                   ELSE journal[w]]
  /\ applied' = applied \cup {r}
  /\ FreeRows(r)

Commit(r) ==
  /\ pc[r] = "commit"
  /\ Post(r)
  /\ Goto(r, "mark")
  /\ UNCHANGED <<redis, got, faults, held, seen, dirty, outcome, shown>>

\* Postgres committed, but the connection broke before it said so.
CommitUnacknowledged(r) ==
  /\ pc[r] = "commit"
  /\ Post(r)
  /\ Goto(r, "release") /\ Answer(r, "error")
  /\ Fault
  /\ UNCHANGED <<redis, got, held, seen, dirty, shown>>

TxError(r) == pc[r] \in InTx \cup {"begin"} /\ Rollback(r, "error") /\ Fault

WaitsFor(r, s) == \E w \in Wallets : WantsRow(r, w) /\ rowLock[w] = s

InDeadlock(r) ==
  \E C \in SUBSET Requests :
    r \in C /\ \A s \in C : (\E t \in C : WaitsFor(s, t)) /\ (\E t \in C : WaitsFor(t, s))

\* Postgres breaks a cycle of waiting transactions by failing one of them.
AbortDeadlocked(r) == InDeadlock(r) /\ Rollback(r, "error") /\ NoFault

-----------------------------------------------------------------------------
(* After the transaction.                                                  *)

\* The key is not recorded.
SetIdempotencyBug(r) ==
  /\ pc[r] = "mark"
  /\ Goto(r, "invalidate")
  /\ dirty' = [dirty EXCEPT ![r] = Touched(r)]
  /\ UNCHANGED <<store, redis, faults, got, held, seen, outcome, shown>>

SetIdempotency(r) ==
  /\ pc[r] = "mark"
  /\ \/ used' = used \cup {Key[r]} /\ NoFault
     \/ UNCHANGED used /\ Fault                 \* a warning is logged
  /\ Goto(r, "invalidate")
  /\ dirty' = [dirty EXCEPT ![r] = Touched(r)]
  /\ UNCHANGED <<store, lock, cache, raced, got, held, seen, outcome, shown>>

\* The cached balance is kept.
InvalidateWalletBalanceBug(r) ==
  /\ pc[r] = "invalidate"
  /\ dirty' = [dirty EXCEPT ![r] = {}]
  /\ Goto(r, "release") /\ Answer(r, "ok")
  /\ UNCHANGED <<store, redis, faults, got, held, seen, shown>>

\* The source's entry goes first.  The error of the DEL is not looked at.
InvalidateWalletBalance(r) ==
  /\ pc[r] = "invalidate"
  /\ \E w \in dirty[r] :
       /\ From[r] \in dirty[r] => w = From[r]
       /\ dirty' = [dirty EXCEPT ![r] = @ \ {w}]
       /\ \/ cache' = [cache EXCEPT ![w] = NoValue] /\ raced' = raced \ {w} /\ NoFault
          \/ UNCHANGED <<cache, raced>> /\ Fault
  /\ IF dirty'[r] = {}
     THEN Goto(r, "release") /\ Answer(r, "ok")
     ELSE UNCHANGED <<pc, outcome>>
  /\ UNCHANGED <<store, lock, used, got, held, seen, shown>>

\* The deferred DELs, last lock first; the key is deleted whoever set it.
ReleaseLock(r) ==
  /\ pc[r] = "release"
  /\ \/ held[r] = {} /\ Goto(r, "done") /\ NoFault /\ UNCHANGED <<lock, held>>
     \/ /\ \E w \in held[r] :
             /\ \A v \in held[r] : v <= w
             /\ held' = [held EXCEPT ![r] = @ \ {w}]
             /\ \/ lock' = lock \ {w} /\ NoFault
                \/ UNCHANGED lock /\ Fault
        /\ IF held'[r] = {} THEN Goto(r, "done") ELSE UNCHANGED pc
  /\ UNCHANGED <<store, used, cache, raced, got, seen, dirty, outcome, shown>>

\* The process dies, or the client hangs up and cancels the context that every
\* later call of the handler uses: nothing is released but the row locks.
Abandon(r) ==
  /\ pc[r] \notin {"check", "done"}
  /\ FreeRows(r)
  /\ Goto(r, "done") /\ Answer(r, "abandoned")
  /\ held' = [held EXCEPT ![r] = {}]
  /\ dirty' = [dirty EXCEPT ![r] = {}]
  /\ Fault
  /\ UNCHANGED <<balance, journal, applied, redis, got, seen, shown>>

-----------------------------------------------------------------------------
(* Time to live of the keys in Redis.                                      *)

Holders(w) == {r \in Requests : w \in held[r]}

\* The lock is set without a time to live.
ExpireLockBug(w) == w \in lock /\ Holders(w) # {} /\ UNCHANGED vars

\* A lock nobody holds was left behind; the other expiry is a fault.
ExpireLock(w) ==
  /\ w \in lock
  /\ lock' = lock \ {w}
  /\ IF Holders(w) = {} THEN NoFault ELSE Fault
  /\ UNCHANGED <<store, used, cache, raced, calls, got>>

ExpireKey(k) ==
  /\ k \in used
  /\ used' = used \ {k}
  /\ Fault
  /\ UNCHANGED <<store, lock, cache, raced, calls, got>>

ExpireCache(w) ==
  /\ cache[w] # NoValue
  /\ cache' = [cache EXCEPT ![w] = NoValue]
  /\ raced' = raced \ {w}
  /\ UNCHANGED <<store, lock, used, calls, got, faults>>

-----------------------------------------------------------------------------
(* GetWallet.  A hit changes nothing; a miss reads Postgres, then fills.   *)

ReadMiss(g) ==
  /\ got[g] = NoValue /\ cache[Asks[g]] = NoValue
  /\ FreeConn
  /\ got' = [got EXCEPT ![g] = balance[Asks[g]]]
  /\ UNCHANGED <<store, redis, calls, faults>>

CacheWalletBalance(g) ==
  LET w == Asks[g] IN
  /\ got[g] # NoValue
  /\ cache' = [cache EXCEPT ![w] = got[g]]
  /\ raced' = IF got[g] = balance[w] THEN raced \ {w} ELSE raced \cup {w}
  /\ got' = [got EXCEPT ![g] = NoValue]
  /\ UNCHANGED <<store, lock, used, calls, faults>>

-----------------------------------------------------------------------------
Step(r) ==
  \/ CheckIdempotency(r) \/ AcquireLock(r)
  \/ BeginTx(r) \/ GetWalletForUpdate(r) \/ Decide(r) \/ ReadBack(r) \/ Commit(r)
  \/ AbortDeadlocked(r)
  \/ SetIdempotency(r) \/ InvalidateWalletBalance(r) \/ ReleaseLock(r)

Read(g) == ReadMiss(g) \/ CacheWalletBalance(g)

Next ==
  \/ \E r \in Requests : Step(r) \/ CommitUnacknowledged(r) \/ TxError(r) \/ Abandon(r)
  \/ \E w \in Wallets : ExpireLock(w) \/ ExpireCache(w)
  \/ \E k \in Keys : ExpireKey(k)
  \/ \E g \in Readers : Read(g)

Spec == Init /\ [][Next]_vars

\* A handler runs on, and Redis expires what has a time to live.
FairSpec ==
  /\ Spec
  /\ \A r \in Requests : WF_vars(Step(r))
  /\ \A w \in Wallets : WF_vars(ExpireLock(w) /\ Holders(w) = {})

-----------------------------------------------------------------------------
(* Safety.                                                                 *)

\* The rows of wallet_events chain from the opening balance to the current one
\* and each differs by what its request moved: no update is lost, whatever
\* happens to the Redis locks.
JournalExplainsBalance ==
  \A w \in Wallets :
    LET j == journal[w]
        last(i) == IF i = 0 THEN Opening[w] ELSE j[i].after
    IN  /\ balance[w] = last(Len(j))
        /\ \A i \in 1..Len(j) : /\ j[i].before = last(i - 1)
                                /\ j[i].after = j[i].before + Bank!Delta(j[i].req, w)

\* What the transaction service counts on: an idempotency key admits calls until
\* it is used, and is used only once money was moved under it, whatever becomes
\* of the calls in between.
Calls == INSTANCE KeyedCalls WITH
  Ids   <- Keys,
  moved <- [k \in Keys |-> Cardinality({r \in applied : Key[r] = k})],
  open  <- [k \in Keys |-> Cardinality({r \in Requests : Key[r] = k /\ pc[r] \in InTx \cup {"lock", "begin"}})]

KeyDiscipline == Calls!Spec

\* No interleaving of checks and updates overdraws a wallet.
NonNegative == \A w \in Wallets : balance[w] >= 0

\* Every lock that runs out under its holder lets one more request in beside
\* it, for good: the holder's own release later deletes the newcomer's lock.
\* Without such an expiry, one request at a time holds a wallet.
HoldersBounded == \A w \in Wallets : Cardinality(Holders(w)) <= 1 + faults

\* Transfers lock their rows in the order source, destination, so it is the
\* Redis locks, taken in the order of ids, that keep opposite transfers from
\* waiting for each other in Postgres.
NoRowDeadlock == faults = 0 => \A r \in Requests : ~InDeadlock(r)

\* A request answered with success has been applied, and the balance a withdrawal
\* answers with is the one it left.  Of the balance in a deposit's answer nothing
\* is said: it is not the updated one that the code means to return.
AnswerIsTrue ==
  \A r \in Requests :
    outcome[r] = "ok" =>
      /\ r \in applied
      /\ To[r] = NoWallet =>
           \E i \in 1..Len(journal[From[r]]) :
             journal[From[r]][i].req = r /\ journal[From[r]][i].after = shown[r]

\* A client that retries a request under the same key, each time after the
\* last answer, has it applied at most once, and once more per fault.
RetryAppliedOnce ==
  \A k \in Keys : Cardinality({r \in applied : Key[r] = k}) <= 1 + faults

\* A cached balance that is not the current one is due to be invalidated, or
\* comes from a GetWallet that read Postgres before a commit and wrote the
\* cache after it, or from a fault.
StaleOnlyByRace ==
  \A w \in Wallets :
    \/ cache[w] \in {NoValue, balance[w]}
    \/ w \in raced
    \/ \E r \in Requests : w \in dirty[r] \/ (pc[r] = "mark" /\ w \in Touched(r))
    \/ faults > 0

\* The README's claim for the keys: a key is applied at most once.
KeyAppliedOnce ==
  \A k \in Keys : Cardinality({r \in applied : Key[r] = k}) <= 1

\* Requests take effect as in the abstract bank: at one instant, at most once,
\* never beyond the balance.
Atomic == Bank!Spec

-----------------------------------------------------------------------------
(* Liveness.                                                               *)

\* Every connection is held by a deposit that waits for a second one, or by a
\* transaction that waits for a row.
PoolExhausted ==
  /\ ~FreeConn
  /\ \E r \in Requests : pc[r] = "readback"
  /\ \A r \in Requests :
       pc[r] \in InTx \ {"readback"} => \E s \in Requests : WaitsFor(r, s)

\* In a pool of any size every request is answered or abandoned: the only way
\* not to be is such an exhaustion.
AnsweredOrExhausted == \A r \in Requests : <>(pc[r] = "done" \/ PoolExhausted)

\* A lock is not left behind for ever, not by a crash either, unless its holder
\* waits in an exhausted pool.
LockFreed == \A w \in Wallets : w \in lock ~> (w \notin lock \/ PoolExhausted)
=============================================================================
