----------------------------- MODULE WalletProofs -----------------------------
(***************************************************************************)
(* Theorems about the wallet service, for any number of wallets, requests, *)
(* readers, connections and faults.                                        *)
(***************************************************************************)
EXTENDS Wallet, SequenceTheorems, FiniteSetTheorems, TLAPS

USE WalletConstants DEF InTx, Phases, Results, Touched

-----------------------------------------------------------------------------
(* Types.  A part of the state an action leaves alone keeps its type, so   *)
(* the proof of each action is about the parts it assigns.                 *)

\* At most MaxFaults faults.
LEMMA FaultsType ==
  ASSUME faults \in 0..MaxFaults, NoFault \/ Fault
  PROVE  faults' \in 0..MaxFaults
BY DEF NoFault, Fault

\* Every reachable state has the types of the tables, of Redis and of the calls.
THEOREM WalletTypeCorrect == Spec => []TypeOK
<1> USE DEF TypeOK, store, redis, calls
<1>1. Init => TypeOK
  <2> SUFFICES ASSUME Init PROVE TypeOK
    OBVIOUS
  <2>1. StoreOK
    <3>1. <<>> \in Seq([req : Requests, before : Int, after : Int])
      OBVIOUS
    <3>2. journal \in [Wallets -> Seq([req : Requests, before : Int, after : Int])]
      BY <3>1 DEF Init
    <3>3. balance \in [Wallets -> Int]
      BY DEF Init
    <3> QED BY <3>2, <3>3 DEF Init, StoreOK
  <2>2. RedisOK
    BY DEF Init, RedisOK
  <2>3. CallsOK
    <3>1. PcOK
      BY DEF Init, PcOK
    <3>2. seen \in [Requests -> [Wallets -> Int]]
      BY DEF Init
    <3> QED BY <3>1, <3>2 DEF Init, CallsOK
  <2>4. ReadsOK
    BY DEF Init, ReadsOK
  <2> QED BY <2>1, <2>2, <2>3, <2>4 DEF Init
<1>2. TypeOK /\ [Next]_vars => TypeOK'
  <2> SUFFICES ASSUME TypeOK, [Next]_vars PROVE TypeOK'
    OBVIOUS
  <2>s. UNCHANGED store => StoreOK'
    BY DEF StoreOK
  <2>r. UNCHANGED redis => RedisOK'
    BY DEF RedisOK
  <2>d. UNCHANGED got => ReadsOK'
    BY DEF ReadsOK
  <2>g. ASSUME NEW r \in Requests, NEW l \in Phases, Goto(r, l), l = "readback" => IsDeposit(r)
        PROVE  PcOK'
    BY <2>g DEF CallsOK, PcOK, Goto, IsDeposit
  <2>p. UNCHANGED pc => PcOK'
    BY DEF CallsOK, PcOK, IsDeposit
  <2>h. /\ lock \subseteq Wallets
        /\ held \in [Requests -> SUBSET Wallets]
        /\ shown \in [Requests -> Int \cup {NoValue}]
        /\ \A r \in Requests, w \in Wallets : seen[r][w] \in Int
    BY DEF CallsOK, RedisOK
  <2>c. UNCHANGED calls => CallsOK'
    BY <2>p DEF CallsOK
  <2>a. ASSUME NEW r \in Requests, NEW o \in Results, Answer(r, o)
        PROVE  outcome' \in [Requests -> Results]
    BY <2>a DEF CallsOK, Answer
  <2>f. ASSUME NEW r, FreeRows(r)
        PROVE  rowLock' \in [Wallets -> Requests \cup {NoRequest}]
    BY <2>f DEF StoreOK, FreeRows
  <2>1. ASSUME NEW r \in Requests, CheckIdempotency(r) PROVE TypeOK'
    <3>1. CallsOK'
      BY <2>1, <2>g, <2>a DEF CheckIdempotency, CallsOK
    <3> QED BY <2>1, <3>1, <2>s, <2>r, <2>d, FaultsType DEF CheckIdempotency, NoFault
  <2>2. ASSUME NEW r \in Requests, AcquireLock(r) PROVE TypeOK'
    <3>1. lock' \subseteq Wallets /\ held' \in [Requests -> SUBSET Wallets]
      <4>1. PICK w \in Touched(r) \ held[r] :
              \/ lock' = lock \cup {w} /\ held' = [held EXCEPT ![r] = @ \cup {w}]
              \/ lock' \in {lock, lock \cup {w}} /\ held' = held
        BY <2>2 DEF AcquireLock
      <4>0. w \in Wallets
        OBVIOUS
      <4>2. lock' \subseteq Wallets
        BY <4>0, <4>1, <2>h
      <4>3. held[r] \cup {w} \in SUBSET Wallets
        BY <4>0, <2>h
      <4>4. held' \in [Requests -> SUBSET Wallets]
        BY <4>1, <4>3, <2>h
      <4> QED BY <4>2, <4>4
    <3>2. PcOK'
      BY <2>2, <2>g DEF AcquireLock
    <3>3. outcome' \in [Requests -> Results]
      BY <2>2, <2>a DEF AcquireLock, CallsOK
    <3>4. RedisOK'
      BY <2>2, <3>1 DEF AcquireLock, RedisOK
    <3>5. CallsOK'
      BY <2>2, <3>1, <3>2, <3>3 DEF AcquireLock, CallsOK
    <3> QED BY <2>2, <3>1, <3>2, <3>3, <3>4, <3>5, <2>s, <2>d, FaultsType DEF AcquireLock, NoFault
  <2>3. ASSUME NEW r \in Requests, BeginTx(r) PROVE TypeOK'
    <3>1. CallsOK'
      BY <2>3, <2>g DEF BeginTx, CallsOK
    <3> QED BY <2>3, <3>1, <2>s, <2>r, <2>d, FaultsType DEF BeginTx
  <2>4. ASSUME NEW r \in Requests, GetWalletForUpdate(r) PROVE TypeOK'
    <3>1. PcOK'
      BY <2>4, <2>g DEF GetWalletForUpdate
    <3>2. StoreOK'
      <4>1. PICK w \in Wallets : rowLock' = [rowLock EXCEPT ![w] = r]
        BY <2>4 DEF GetWalletForUpdate
      <4> QED BY <2>4, <4>1 DEF GetWalletForUpdate, StoreOK
    <3>3. seen' \in [Requests -> [Wallets -> Int]]
      <4>1. PICK w \in Wallets : seen' = [seen EXCEPT ![r][w] = balance[w]]
        BY <2>4 DEF GetWalletForUpdate
      <4> QED BY <4>1 DEF StoreOK, CallsOK
    <3>4. CallsOK'
      BY <2>4, <3>1, <3>3 DEF GetWalletForUpdate, CallsOK
    <3> QED BY <2>4, <3>1, <3>2, <3>3, <3>4, <2>r, <2>d, FaultsType DEF GetWalletForUpdate
  <2>5. ASSUME NEW r \in Requests, NEW o \in {"insufficient", "error"}, Rollback(r, o), NoFault \/ Fault
        PROVE TypeOK'
    <3>1. StoreOK'
      BY <2>5, <2>f DEF Rollback, StoreOK
    <3>2. CallsOK'
      BY <2>5, <2>g, <2>a DEF Rollback, CallsOK
    <3> QED BY <2>5, <3>1, <3>2, <2>r, <2>d, FaultsType DEF Rollback
  <2>6. ASSUME NEW r \in Requests, Decide(r) PROVE TypeOK'
    <3>1. CASE Rollback(r, "insufficient")
      BY <2>5, <2>6, <3>1 DEF Decide
    <3>2. CASE ~Rollback(r, "insufficient")
      <4>1. PcOK'
        <5>1. Goto(r, "commit") \/ (Goto(r, "readback") /\ IsDeposit(r))
          BY <2>6, <3>2 DEF Decide
        <5> QED BY <5>1, <2>g
      <4>2. shown' \in [Requests -> Int \cup {NoValue}]
        <5>1. From[r] # NoWallet => seen[r][From[r]] - Amount[r] \in Int
          <6> SUFFICES ASSUME From[r] # NoWallet
                       PROVE  seen[r][From[r]] - Amount[r] \in Int
            OBVIOUS
          <6>1. From[r] \in Wallets /\ Amount[r] \in Int
            OBVIOUS
          <6>2. seen[r][From[r]] \in Int
            BY <6>1, <2>h
          <6> QED BY <6>1, <6>2
        <5>2. \/ shown' = shown
              \/ \E v \in Int \cup {NoValue} : shown' = [shown EXCEPT ![r] = v]
          BY <2>6, <3>2, <5>1 DEF Decide
        <5> QED BY <5>2, <2>h
      <4>3. CallsOK'
        BY <2>6, <3>2, <4>1, <4>2 DEF Decide, CallsOK
      <4> QED BY <2>6, <3>2, <4>3, <2>s, <2>r, <2>d, FaultsType DEF Decide
    <3> QED BY <3>1, <3>2
  <2>7. ASSUME NEW r \in Requests, ReadBack(r) PROVE TypeOK'
    <3>1. shown' \in [Requests -> Int \cup {NoValue}]
      BY <2>7, <2>h DEF ReadBack, CallsOK, StoreOK, PcOK, IsDeposit
    <3>2. CallsOK'
      BY <2>7, <3>1, <2>g DEF ReadBack, CallsOK
    <3> QED BY <2>7, <3>1, <3>2, <2>s, <2>r, <2>d, FaultsType DEF ReadBack
  <2>8. ASSUME NEW r \in Requests, Commit(r) \/ CommitUnacknowledged(r) PROVE TypeOK'
    <3>1. \A w \in Wallets : NewBalance(r, w) \in Int
      BY DEF CallsOK, NewBalance, Bank!Delta
    <3>2. balance' \in [Wallets -> Int]
      BY <2>8, <3>1 DEF Commit, CommitUnacknowledged, Post, StoreOK
    <3>3. \A w \in Wallets : [req |-> r, before |-> seen[r][w], after |-> NewBalance(r, w)]
                              \in [req : Requests, before : Int, after : Int]
      BY <3>1 DEF CallsOK
    <3>4. journal' \in [Wallets -> Seq([req : Requests, before : Int, after : Int])]
      <4> DEFINE Entry(w) == [req |-> r, before |-> seen[r][w], after |-> NewBalance(r, w)]
      <4>3. \A w \in Wallets : /\ Entry(w) \in [req : Requests, before : Int, after : Int]
                                /\ journal[w] \in Seq([req : Requests, before : Int, after : Int])
        BY <3>3 DEF StoreOK
      <4>2. journal' = [w \in Wallets |-> IF w \in Touched(r) THEN Append(journal[w], Entry(w))
                                                             ELSE journal[w]]
        BY <2>8 DEF Commit, CommitUnacknowledged, Post
      <4> HIDE DEF Entry
      <4>1. \A w \in Wallets :
              Append(journal[w], Entry(w)) \in Seq([req : Requests, before : Int, after : Int])
        BY <4>3, AppendProperties
      <4> QED BY <4>1, <4>2 DEF StoreOK
    <3>5. StoreOK'
      BY <2>8, <3>2, <3>4, <2>f DEF Commit, CommitUnacknowledged, Post, StoreOK
    <3>6. CallsOK'
      BY <2>8, <2>g, <2>a DEF Commit, CommitUnacknowledged, CallsOK
    <3> QED BY <2>8, <3>1, <3>2, <3>3, <3>4, <3>5, <3>6, <2>r, <2>d, FaultsType DEF Commit, CommitUnacknowledged, NoFault
  <2>9. ASSUME NEW r \in Requests, AbortDeadlocked(r) \/ TxError(r) PROVE TypeOK'
    BY <2>5, <2>9 DEF AbortDeadlocked, TxError
  <2>10. ASSUME NEW r \in Requests, SetIdempotency(r) PROVE TypeOK'
    <3>1. RedisOK'
      BY <2>10 DEF SetIdempotency, RedisOK
    <3>2. CallsOK'
      BY <2>10, <2>g DEF SetIdempotency, CallsOK
    <3> QED BY <2>10, <3>1, <3>2, <2>s, <2>d, FaultsType DEF SetIdempotency, NoFault
  <2>11. ASSUME NEW r \in Requests, InvalidateWalletBalance(r) PROVE TypeOK'
    <3>1. RedisOK'
      BY <2>11 DEF InvalidateWalletBalance, RedisOK
    <3>2. dirty' \in [Requests -> SUBSET Wallets]
      BY <2>11 DEF InvalidateWalletBalance, CallsOK
    <3>3. CallsOK'
      BY <2>11, <3>2, <2>g, <2>p, <2>a DEF InvalidateWalletBalance, CallsOK
    <3> QED BY <2>11, <3>1, <3>2, <3>3, <2>s, <2>d, FaultsType DEF InvalidateWalletBalance, NoFault
  <2>12. ASSUME NEW r \in Requests, ReleaseLock(r) PROVE TypeOK'
    <3>1. lock' \subseteq Wallets /\ held' \in [Requests -> SUBSET Wallets]
      <4>1. \/ UNCHANGED <<lock, held>>
            \/ \E w \in held[r] : /\ lock' = lock \ {w} \/ UNCHANGED lock
                                  /\ held' = [held EXCEPT ![r] = @ \ {w}]
        BY <2>12 DEF ReleaseLock
      <4>2. lock' \subseteq Wallets
        BY <4>1, <2>h
      <4>3. \A w : held[r] \ {w} \in SUBSET Wallets
        BY <2>h
      <4>4. held' \in [Requests -> SUBSET Wallets]
        BY <4>1, <4>3, <2>h
      <4> QED BY <4>2, <4>4
    <3>2. RedisOK'
      BY <2>12, <3>1 DEF ReleaseLock, RedisOK
    <3>3. PcOK'
      BY <2>12, <2>g, <2>p DEF ReleaseLock
    <3>4. CallsOK'
      BY <2>12, <3>1, <3>3 DEF ReleaseLock, CallsOK
    <3> QED BY <2>12, <3>1, <3>2, <3>3, <3>4, <2>s, <2>d, FaultsType DEF ReleaseLock, NoFault
  <2>13. ASSUME NEW r \in Requests, Abandon(r) PROVE TypeOK'
    <3>1. StoreOK'
      BY <2>13, <2>f DEF Abandon, StoreOK
    <3>2. CallsOK'
      BY <2>13, <2>g, <2>a DEF Abandon, CallsOK
    <3> QED BY <2>13, <3>1, <3>2, <2>r, <2>d, FaultsType DEF Abandon
  <2>14. ASSUME NEW w \in Wallets, ExpireLock(w) \/ ExpireCache(w) PROVE TypeOK'
    <3>1. RedisOK'
      BY <2>14 DEF ExpireLock, ExpireCache, RedisOK
    <3> QED BY <2>14, <3>1, <2>s, <2>c, <2>d, FaultsType DEF ExpireLock, ExpireCache, NoFault
  <2>15. ASSUME NEW k \in Keys, ExpireKey(k) PROVE TypeOK'
    <3>1. RedisOK'
      BY <2>15 DEF ExpireKey, RedisOK
    <3> QED BY <2>15, <3>1, <2>s, <2>c, <2>d, FaultsType DEF ExpireKey
  <2>16. ASSUME NEW g \in Readers, Read(g) PROVE TypeOK'
    <3>1. ReadsOK'
      <4>1. CASE CacheWalletBalance(g)
        BY <4>1 DEF CacheWalletBalance, ReadsOK
      <4>2. CASE ReadMiss(g)
        BY <4>2, WalletConstants DEF ReadMiss, ReadsOK, StoreOK
      <4> QED BY <2>16, <4>1, <4>2 DEF Read
    <3>2. RedisOK'
      <4>1. CASE CacheWalletBalance(g)
        BY <4>1, WalletConstants DEF CacheWalletBalance, ReadsOK, RedisOK
      <4>2. CASE ReadMiss(g)
        BY <4>2, <2>r DEF ReadMiss
      <4> QED BY <2>16, <4>1, <4>2 DEF Read
    <3> QED BY <2>16, <3>1, <3>2, <2>s, <2>c, FaultsType DEF Read, ReadMiss, CacheWalletBalance
  <2>17. CASE UNCHANGED vars
    BY <2>17, <2>s, <2>r, <2>c, <2>d DEF vars
  <2> QED
    BY <2>1, <2>2, <2>3, <2>4, <2>6, <2>7, <2>8, <2>9, <2>10, <2>11, <2>12, <2>13,
       <2>14, <2>15, <2>16, <2>17 DEF Next, Step
<1> QED BY <1>1, <1>2, PTL DEF Spec

-----------------------------------------------------------------------------
(* The row locks.  None of what follows mentions Redis: the money is safe  *)
(* whatever the Redis locks do, because of what FOR UPDATE holds.          *)

\* What a transaction has read of the rows it holds is still what they hold.
RowsAreCurrent ==
  \A w \in Wallets, r \in Requests :
    rowLock[w] = r => pc[r] \in InTx /\ seen[r][w] = balance[w]

\* A transaction past GetWalletForUpdate holds all its rows.
RowsAreHeld ==
  \A r \in Requests :
    pc[r] \in {"decide", "readback", "commit"} => \A w \in Touched(r) : rowLock[w] = r

\* A transaction about to commit can afford it.
FundsAreChecked ==
  \A r \in Requests : pc[r] = "commit" /\ From[r] # NoWallet => seen[r][From[r]] >= Amount[r]

\* A request commits once.
CommittedIsOver ==
  \A r \in applied : pc[r] \in {"mark", "invalidate", "release", "done"}

RowInv == RowsAreCurrent /\ RowsAreHeld /\ FundsAreChecked /\ CommittedIsOver

\* A posting changes a wallet by an integer.
LEMMA DeltaType ==
  ASSUME NEW r \in Requests, NEW w \in Wallets
  PROVE  Bank!Delta(r, w) \in Int
BY DEF Bank!Delta

\* The wallets a request is about are wallets.
LEMMA TouchedWallets ==
  ASSUME NEW r \in Requests
  PROVE  Touched(r) \subseteq Wallets
OBVIOUS

\* The rows a transaction is about to write are those it has read.
LEMMA CommitReadsCurrent ==
  ASSUME TypeOK, RowInv, NEW r \in Requests, pc[r] = "commit", NEW w \in Touched(r)
  PROVE  rowLock[w] = r /\ seen[r][w] = balance[w]
<1>1. rowLock[w] = r
  BY DEF RowInv, RowsAreHeld
<1> QED BY <1>1, TouchedWallets DEF RowInv, RowsAreCurrent

\* RowInv is preserved by every step.
LEMMA RowInvStep ==
  ASSUME TypeOK, RowInv, [Next]_vars
  PROVE  RowInv'
<1> USE DEF RowInv, store, redis, calls
<1>t. /\ pc \in [Requests -> Phases]
      /\ rowLock \in [Wallets -> Requests \cup {NoRequest}]
      /\ balance \in [Wallets -> Int]
      /\ applied \subseteq Requests
      /\ seen \in [Requests -> [Wallets -> Int]]
  BY DEF TypeOK, StoreOK, CallsOK, PcOK
<1>u. UNCHANGED <<store, seen, pc>> => RowInv'
  BY DEF RowsAreCurrent, RowsAreHeld, FundsAreChecked, CommittedIsOver
<1>q. ASSUME NEW r \in Requests, NEW l \in Phases \ (InTx \ {"rows"}), UNCHANGED <<store, seen>>,
             Goto(r, l), pc[r] \notin InTx,
             r \in applied => l \in {"mark", "invalidate", "release", "done"}
      PROVE  RowInv'
  BY <1>q, <1>t DEF Goto, RowsAreCurrent, RowsAreHeld, FundsAreChecked, CommittedIsOver
<1>f. ASSUME NEW r \in Requests, NEW l \in {"release", "done"}, FreeRows(r), Goto(r, l),
             UNCHANGED <<balance, applied, seen>>
      PROVE  RowInv'
  <2>1. \A w \in Wallets : /\ rowLock'[w] # r
                           /\ rowLock[w] # r => rowLock'[w] = rowLock[w]
                           /\ \A s \in Requests \ {r} : rowLock'[w] = s <=> rowLock[w] = s
    BY <1>f, <1>t DEF FreeRows
  <2>2. pc'[r] = l /\ \A s \in Requests \ {r} : pc'[s] = pc[s]
    BY <1>f, <1>t DEF Goto
  <2>3. RowsAreCurrent'
    <3> SUFFICES ASSUME NEW w \in Wallets, NEW s \in Requests, rowLock'[w] = s
                 PROVE  pc'[s] \in InTx /\ seen'[s][w] = balance'[w]
      BY DEF RowsAreCurrent
    <3>1. s # r /\ rowLock[w] = s
      BY <2>1
    <3>2. pc[s] \in InTx /\ seen[s][w] = balance[w]
      BY <3>1 DEF RowsAreCurrent
    <3> QED BY <1>f, <2>2, <3>1, <3>2
  <2>4. RowsAreHeld'
    BY <1>f, <2>1, <2>2, TouchedWallets DEF RowsAreHeld
  <2>5. FundsAreChecked' /\ CommittedIsOver'
    BY <1>f, <1>t, <2>2 DEF FundsAreChecked, CommittedIsOver
  <2> QED BY <2>3, <2>4, <2>5
<1>1. ASSUME NEW r \in Requests, CheckIdempotency(r) PROVE RowInv'
  BY <1>1, <1>q DEF CheckIdempotency, CommittedIsOver
<1>2. ASSUME NEW r \in Requests, AcquireLock(r) PROVE RowInv'
  <2>1. PICK l \in {"begin", "lock", "release"} : Goto(r, l)
    BY <1>2 DEF AcquireLock
  <2> QED BY <1>2, <2>1, <1>q DEF AcquireLock, CommittedIsOver
<1>3. ASSUME NEW r \in Requests, BeginTx(r) PROVE RowInv'
  BY <1>3, <1>q DEF BeginTx, CommittedIsOver
<1>4. ASSUME NEW r \in Requests, GetWalletForUpdate(r) PROVE RowInv'
  <2>1. PICK w \in Wallets : /\ WantsRow(r, w)
                             /\ rowLock[w] = NoRequest
                             /\ rowLock' = [rowLock EXCEPT ![w] = r]
                             /\ seen' = [seen EXCEPT ![r][w] = balance[w]]
    BY <1>4 DEF GetWalletForUpdate
  <2>2. pc[r] = "rows"
    BY <2>1 DEF WantsRow
  <2>3. /\ \A s \in Requests \ {r} : pc'[s] = pc[s] /\ seen'[s] = seen[s]
        /\ \/ pc'[r] = "rows"
           \/ pc'[r] = "decide" /\ \A v \in Touched(r) : rowLock'[v] = r
        /\ seen'[r][w] = balance[w]
        /\ \A v \in Wallets \ {w} : seen'[r][v] = seen[r][v] /\ rowLock'[v] = rowLock[v]
        /\ rowLock'[w] = r
        /\ balance' = balance /\ applied' = applied
    BY <1>4, <1>t, <2>1 DEF GetWalletForUpdate, Goto
  <2>4. RowsAreCurrent'
    BY <2>1, <2>2, <2>3, <1>t DEF RowsAreCurrent
  <2>5. RowsAreHeld'
    BY <2>1, <2>2, <2>3, <1>t DEF RowsAreHeld
  <2>6. FundsAreChecked' /\ CommittedIsOver'
    BY <2>1, <2>2, <2>3, <1>t DEF FundsAreChecked, CommittedIsOver
  <2> QED BY <2>4, <2>5, <2>6
<1>5. ASSUME NEW r \in Requests, NEW o, Rollback(r, o) PROVE RowInv'
  BY <1>5, <1>f DEF Rollback
<1>6. ASSUME NEW r \in Requests, Decide(r) PROVE RowInv'
  <2>1. CASE Rollback(r, "insufficient")
    BY <2>1, <1>5
  <2>2. CASE ~Rollback(r, "insufficient")
    <3>1. /\ pc[r] = "decide" /\ UNCHANGED <<store, seen>>
          /\ \A s \in Requests \ {r} : pc'[s] = pc[s]
          /\ \/ pc'[r] = "commit" /\ seen[r][From[r]] >= Amount[r]
             \/ pc'[r] = "readback"
      BY <1>6, <2>2, <1>t DEF Decide, Goto
    <3>2. RowsAreCurrent' /\ RowsAreHeld'
      BY <3>1 DEF RowsAreCurrent, RowsAreHeld
    <3>3. FundsAreChecked' /\ CommittedIsOver'
      BY <3>1, <1>t DEF FundsAreChecked, CommittedIsOver
    <3> QED BY <3>2, <3>3
  <2> QED BY <2>1, <2>2
<1>7. ASSUME NEW r \in Requests, ReadBack(r) PROVE RowInv'
  <2>1. /\ pc[r] = "readback" /\ UNCHANGED <<store, seen>>
        /\ pc'[r] = "commit" /\ \A s \in Requests \ {r} : pc'[s] = pc[s]
    BY <1>7, <1>t DEF ReadBack, Goto
  <2>2. From[r] = NoWallet
    BY <2>1 DEF TypeOK, CallsOK, PcOK, IsDeposit
  <2> QED BY <2>1, <2>2, <1>t DEF RowsAreCurrent, RowsAreHeld, FundsAreChecked, CommittedIsOver
<1>8. ASSUME NEW r \in Requests, Commit(r) \/ CommitUnacknowledged(r) PROVE RowInv'
  <2>1. /\ pc[r] = "commit" /\ pc'[r] \in {"mark", "release"}
        /\ \A s \in Requests \ {r} : pc'[s] = pc[s]
        /\ applied' = applied \cup {r} /\ seen' = seen
        /\ \A w \in Wallets \ Touched(r) : balance'[w] = balance[w]
        /\ FreeRows(r)
    BY <1>8, <1>t DEF Commit, CommitUnacknowledged, Post, Goto
  <2>2. \A w \in Wallets : /\ rowLock'[w] # r
                           /\ \A s \in Requests \ {r} : rowLock'[w] = s <=> rowLock[w] = s
    BY <2>1, <1>t DEF FreeRows
  <2>3. \A w \in Touched(r) : rowLock[w] = r
    BY <2>1, CommitReadsCurrent
  <2>4. RowsAreCurrent'
    <3> SUFFICES ASSUME NEW w \in Wallets, NEW s \in Requests, rowLock'[w] = s
                 PROVE  pc'[s] \in InTx /\ seen'[s][w] = balance'[w]
      BY DEF RowsAreCurrent
    <3>1. s # r /\ rowLock[w] = s
      BY <2>2
    <3>2. w \notin Touched(r)
      BY <2>3, <3>1
    <3> QED BY <2>1, <3>1, <3>2 DEF RowsAreCurrent
  <2>5. RowsAreHeld'
    BY <2>1, <2>2, TouchedWallets DEF RowsAreHeld
  <2>6. FundsAreChecked' /\ CommittedIsOver'
    BY <2>1, <1>t DEF FundsAreChecked, CommittedIsOver
  <2> QED BY <2>4, <2>5, <2>6
<1>9. ASSUME NEW r \in Requests, AbortDeadlocked(r) \/ TxError(r) PROVE RowInv'
  BY <1>9, <1>5 DEF AbortDeadlocked, TxError
<1>10. ASSUME NEW r \in Requests, SetIdempotency(r) PROVE RowInv'
  BY <1>10, <1>q DEF SetIdempotency
<1>11. ASSUME NEW r \in Requests, InvalidateWalletBalance(r) PROVE RowInv'
  BY <1>11, <1>q, <1>u DEF InvalidateWalletBalance
<1>12. ASSUME NEW r \in Requests, ReleaseLock(r) PROVE RowInv'
  BY <1>12, <1>q, <1>u DEF ReleaseLock
<1>13. ASSUME NEW r \in Requests, Abandon(r) PROVE RowInv'
  BY <1>13, <1>f DEF Abandon
<1>14. ASSUME NEW w \in Wallets, ExpireLock(w) \/ ExpireCache(w) PROVE RowInv'
  BY <1>14, <1>u DEF ExpireLock, ExpireCache
<1>15. ASSUME NEW k \in Keys, ExpireKey(k) PROVE RowInv'
  BY <1>15, <1>u DEF ExpireKey
<1>16. ASSUME NEW g \in Readers, Read(g) PROVE RowInv'
  BY <1>16, <1>u DEF Read, ReadMiss, CacheWalletBalance
<1>17. CASE UNCHANGED vars
  BY <1>17, <1>u DEF vars
<1> QED
  BY <1>1, <1>2, <1>3, <1>4, <1>6, <1>7, <1>8, <1>9, <1>10, <1>11, <1>12, <1>13,
     <1>14, <1>15, <1>16, <1>17 DEF Next, Step

\* The row locks do their part throughout.
LEMMA RowInvariant == Spec => []RowInv
<1>1. Init => RowInv
  BY DEF Init, RowInv, RowsAreCurrent, RowsAreHeld, FundsAreChecked, CommittedIsOver
<1> QED BY <1>1, RowInvStep, WalletTypeCorrect, PTL DEF Spec

-----------------------------------------------------------------------------
(* What that gives: only a commit moves money, it does so as the abstract  *)
(* bank would, and wallet_events explains every balance.                   *)

\* No action but a commit writes a balance, a journal or who was applied.
LEMMA OnlyCommitsMoveMoney ==
  ASSUME [Next]_vars
  PROVE  \/ \E r \in Requests : pc[r] = "commit" /\ Post(r)
         \/ UNCHANGED <<balance, journal, applied>>
<1> USE DEF store, redis, calls
<1>1. ASSUME NEW r \in Requests, Step(r)
      PROVE  \/ pc[r] = "commit" /\ Post(r)
             \/ UNCHANGED <<balance, journal, applied>>
  <2>1. CASE CheckIdempotency(r) \/ AcquireLock(r) \/ BeginTx(r)
    BY <2>1 DEF CheckIdempotency, AcquireLock, BeginTx
  <2>2. CASE GetWalletForUpdate(r) \/ Decide(r) \/ ReadBack(r) \/ AbortDeadlocked(r)
    BY <2>2 DEF GetWalletForUpdate, Decide, Rollback, ReadBack, AbortDeadlocked
  <2>3. CASE Commit(r)
    BY <2>3 DEF Commit
  <2>4. CASE SetIdempotency(r) \/ InvalidateWalletBalance(r) \/ ReleaseLock(r)
    BY <2>4 DEF SetIdempotency, InvalidateWalletBalance, ReleaseLock
  <2> QED BY <1>1, <2>1, <2>2, <2>3, <2>4 DEF Step
<1>2. ASSUME NEW r \in Requests, CommitUnacknowledged(r)
      PROVE  pc[r] = "commit" /\ Post(r)
  BY <1>2 DEF CommitUnacknowledged
<1>3. ASSUME NEW r \in Requests, TxError(r) \/ Abandon(r)
      PROVE  UNCHANGED <<balance, journal, applied>>
  BY <1>3 DEF TxError, Rollback, Abandon
<1>4. ASSUME \/ \E w \in Wallets : ExpireLock(w) \/ ExpireCache(w)
             \/ \E k \in Keys : ExpireKey(k)
             \/ \E g \in Readers : Read(g)
             \/ UNCHANGED vars
      PROVE  UNCHANGED <<balance, journal, applied>>
  BY <1>4 DEF ExpireLock, ExpireCache, ExpireKey, Read, ReadMiss, CacheWalletBalance, vars
<1> QED BY <1>1, <1>2, <1>3, <1>4 DEF Next

\* A commit writes the balances the abstract bank would write.
LEMMA PostApplies ==
  ASSUME TypeOK, RowInv, NEW r \in Requests, pc[r] = "commit", Post(r)
  PROVE  /\ Bank!Apply(r)
         /\ \A w \in Touched(r) : seen[r][w] = balance[w]
         /\ From[r] # NoWallet => balance[From[r]] >= Amount[r]
<1>1. \A w \in Touched(r) : seen[r][w] = balance[w]
  BY CommitReadsCurrent
<1>2. r \notin applied
  BY DEF RowInv, CommittedIsOver
<1>3. From[r] # NoWallet => balance[From[r]] >= Amount[r]
  BY <1>1 DEF RowInv, FundsAreChecked
<1>4. balance' = [w \in Wallets |-> balance[w] + Bank!Delta(r, w)]
  <2>1. \A w \in Wallets \ Touched(r) : balance[w] + Bank!Delta(r, w) = balance[w]
    <3>1. \A w \in Wallets \ Touched(r) : Bank!Delta(r, w) = 0
      BY DEF Bank!Delta
    <3>2. \A w \in Wallets : balance[w] \in Int
      BY DEF TypeOK, StoreOK
    <3> QED BY <3>1, <3>2
  <2>2. \A w \in Touched(r) : NewBalance(r, w) = balance[w] + Bank!Delta(r, w)
    BY <1>1 DEF NewBalance
  <2> QED BY <2>1, <2>2 DEF Post
<1> QED BY <1>1, <1>2, <1>3, <1>4 DEF Post, Bank!Apply

\* The service implements the abstract bank: each request takes effect at one
\* instant, its commit, or not at all, and at most once.
THEOREM WalletImplementsBank == Spec => Atomic
<1>1. Init => Bank!Init
  BY DEF Init, Bank!Init
<1>2. TypeOK /\ RowInv /\ [Next]_vars => [Bank!Next]_(Bank!bank)
  BY OnlyCommitsMoveMoney, PostApplies DEF Bank!Next, Bank!bank
<1> QED BY <1>1, <1>2, WalletTypeCorrect, RowInvariant, PTL DEF Spec, Atomic, Bank!Spec

\* No interleaving overdraws a wallet.
THEOREM NeverOverdrawn == Spec => []NonNegative
<1>1. Init => NonNegative
  <2> SUFFICES ASSUME Init, NEW w \in Wallets PROVE balance[w] >= 0
    BY DEF NonNegative
  <2>1. balance[w] = Opening[w] /\ Opening[w] \in Nat
    BY DEF Init
  <2> QED BY <2>1
<1>2. TypeOK /\ RowInv /\ NonNegative /\ [Next]_vars => NonNegative'
  <2> SUFFICES ASSUME TypeOK, RowInv, NonNegative, NEW r \in Requests, pc[r] = "commit", Post(r)
               PROVE  NonNegative'
    BY OnlyCommitsMoveMoney DEF NonNegative
  <2>1. /\ From[r] # NoWallet => balance[From[r]] >= Amount[r]
        /\ balance' = [w \in Wallets |-> balance[w] + Bank!Delta(r, w)]
    BY PostApplies DEF Bank!Apply
  <2>2. \A w \in Wallets : balance[w] + Bank!Delta(r, w) >= 0
    BY <2>1 DEF NonNegative, TypeOK, StoreOK, Bank!Delta
  <2> QED BY <2>1, <2>2 DEF NonNegative
<1> QED BY <1>1, <1>2, WalletTypeCorrect, RowInvariant, PTL DEF Spec

\* No update is lost: the journal of each wallet chains from its opening
\* balance to the current one.
THEOREM JournalComplete == Spec => []JournalExplainsBalance
<1>1. Init => JournalExplainsBalance
  BY DEF Init, JournalExplainsBalance
<1>2. TypeOK /\ RowInv /\ JournalExplainsBalance /\ [Next]_vars => JournalExplainsBalance'
  <2> SUFFICES ASSUME TypeOK, RowInv, JournalExplainsBalance,
                      NEW r \in Requests, pc[r] = "commit", Post(r)
               PROVE  JournalExplainsBalance'
    BY OnlyCommitsMoveMoney DEF JournalExplainsBalance
  <2> DEFINE Last(j, w, i) == IF i = 0 THEN Opening[w] ELSE j[i].after
             Explains(j, b, w) ==
               /\ b = Last(j, w, Len(j))
               /\ \A i \in 1..Len(j) : /\ j[i].before = Last(j, w, i - 1)
                                       /\ j[i].after = j[i].before + Bank!Delta(j[i].req, w)
  <2>1. \A w \in Wallets : Explains(journal[w], balance[w], w)
    BY DEF JournalExplainsBalance
  <2>2. ASSUME NEW w \in Wallets PROVE Explains(journal'[w], balance'[w], w)
    <3> DEFINE e == [req |-> r, before |-> seen[r][w], after |-> NewBalance(r, w)]
               E == [req : Requests, before : Int, after : Int]
    <3>1. CASE w \notin Touched(r)
      BY <2>1, <3>1 DEF Post
    <3>2. CASE w \in Touched(r)
      <4>1. journal'[w] = Append(journal[w], e) /\ balance'[w] = NewBalance(r, w)
        BY <3>2 DEF Post
      <4>2. /\ e.before = balance[w] /\ e.req = r
            /\ e.after = e.before + Bank!Delta(r, w) /\ e.after = NewBalance(r, w)
        BY <3>2, PostApplies DEF NewBalance
      <4>3. e \in E
        BY <3>2, DeltaType DEF TypeOK, CallsOK, NewBalance
      <4>4. journal[w] \in Seq(E)
        BY DEF TypeOK, StoreOK
      <4> DEFINE j == journal[w]
                 k == journal'[w]
      <4> HIDE DEF e, E
      <4>5. /\ Len(k) = Len(j) + 1 /\ Len(j) \in Nat
            /\ \A i \in 1..Len(j) : k[i] = j[i]
            /\ k[Len(j) + 1] = e
        BY <4>1, <4>3, <4>4, AppendProperties, LenProperties
      <4>6. ASSUME NEW i \in 0..Len(j) PROVE Last(k, w, i) = Last(j, w, i)
        <5> HIDE DEF j, k
        <5>1. i = 0 \/ i \in 1..Len(j)
          BY <4>5
        <5> QED BY <4>5, <5>1
      <4>7. balance[w] = Last(j, w, Len(j))
        BY <2>1
      <4> HIDE DEF j, k, Last
      <4>8. balance'[w] = Last(k, w, Len(k))
        BY <4>1, <4>2, <4>5 DEF Last
      <4>9. ASSUME NEW i \in 1..Len(k)
            PROVE  /\ k[i].before = Last(k, w, i - 1)
                   /\ k[i].after = k[i].before + Bank!Delta(k[i].req, w)
        <5>1. CASE i \in 1..Len(j)
          <6>1. /\ j[i].before = Last(j, w, i - 1)
                /\ j[i].after = j[i].before + Bank!Delta(j[i].req, w)
            BY <2>1, <5>1 DEF j
          <6>2. i - 1 \in 0..Len(j)
            BY <4>5, <5>1
          <6> QED BY <4>5, <4>6, <5>1, <6>1, <6>2
        <5>2. CASE i = Len(j) + 1
          BY <4>2, <4>5, <4>6, <4>7, <5>2
        <5> QED BY <4>5, <5>1, <5>2
      <4> QED BY <4>8, <4>9 DEF k
    <3> QED BY <3>1, <3>2
  <2> HIDE DEF Last
  <2> QED BY <2>2 DEF JournalExplainsBalance, Last
<1> QED BY <1>1, <1>2, WalletTypeCorrect, RowInvariant, PTL DEF Spec

-----------------------------------------------------------------------------
(* The cache.                                                              *)

\* The steps that write the cache or the balances, or are about to.
Caches ==
  \/ \E r \in Requests : Commit(r) \/ SetIdempotency(r) \/ InvalidateWalletBalance(r)
  \/ \E w \in Wallets : ExpireCache(w)
  \/ \E g \in Readers : CacheWalletBalance(g)

\* The others do not, or are faults.
LEMMA CacheStep ==
  ASSUME TypeOK, [Next]_vars
  PROVE  /\ faults \in Nat /\ faults' \in {faults, faults + 1}
         /\ \A r \in Requests : dirty'[r] \subseteq dirty[r] \cup Touched(r)
         /\ \/ Caches
            \/ faults' > 0
            \/ /\ UNCHANGED <<balance, cache, raced, dirty>>
               /\ \A r \in Requests : pc[r] = "mark" => pc'[r] = "mark"
<1> USE DEF store, redis, calls, NoFault, Fault
<1>0. faults \in Nat /\ pc \in [Requests -> Phases] /\ dirty \in [Requests -> SUBSET Wallets]
  BY DEF TypeOK, CallsOK, PcOK
<1> DEFINE Goal == /\ faults' \in {faults, faults + 1}
                   /\ \A r \in Requests : dirty'[r] \subseteq dirty[r] \cup Touched(r)
                   /\ \/ Caches
                      \/ faults' > 0
                      \/ /\ UNCHANGED <<balance, cache, raced, dirty>>
                         /\ \A r \in Requests : pc[r] = "mark" => pc'[r] = "mark"
<1>1. ASSUME NEW r \in Requests, Step(r) PROVE Goal
  <2>1. CASE CheckIdempotency(r) \/ AcquireLock(r) \/ BeginTx(r)
    BY <1>0, <2>1 DEF CheckIdempotency, AcquireLock, BeginTx, Goto
  <2>2. CASE GetWalletForUpdate(r)
    BY <1>0, <2>2 DEF GetWalletForUpdate, WantsRow, Goto
  <2>6. CASE Decide(r) \/ ReadBack(r)
    BY <1>0, <2>6 DEF Decide, Rollback, ReadBack, Goto
  <2>3. CASE AbortDeadlocked(r)
    <3>1. InTx = InTx /\ pc[r] = "rows"
      BY <2>3 DEF AbortDeadlocked, InDeadlock, WaitsFor, WantsRow
    <3> QED BY <1>0, <2>3, <3>1 DEF AbortDeadlocked, Rollback, Goto
  <2>4. CASE Commit(r) \/ SetIdempotency(r) \/ InvalidateWalletBalance(r)
    <3>1. \A s \in Requests : dirty'[s] \subseteq dirty[s] \cup Touched(s)
      BY <1>0, <2>4 DEF Commit, SetIdempotency, InvalidateWalletBalance
    <3> QED BY <1>0, <2>4, <3>1 DEF Caches, Commit, SetIdempotency, InvalidateWalletBalance
  <2>5. CASE ReleaseLock(r)
    BY <1>0, <2>5 DEF ReleaseLock, Goto
  <2> QED BY <1>1, <2>1, <2>2, <2>3, <2>4, <2>5, <2>6 DEF Step
<1>2. ASSUME NEW r \in Requests, CommitUnacknowledged(r) \/ TxError(r) \/ Abandon(r) PROVE Goal
  <2>1. CASE CommitUnacknowledged(r)
    BY <1>0, <2>1 DEF CommitUnacknowledged
  <2>2. CASE TxError(r)
    BY <1>0, <2>2 DEF TxError, Rollback
  <2>3. CASE Abandon(r)
    BY <1>0, <2>3 DEF Abandon
  <2> QED BY <1>2, <2>1, <2>2, <2>3
<1>3. ASSUME NEW w \in Wallets, ExpireLock(w) \/ ExpireCache(w) PROVE Goal
  BY <1>0, <1>3 DEF Caches, ExpireLock, ExpireCache
<1>4. ASSUME NEW k \in Keys, ExpireKey(k) PROVE Goal
  BY <1>0, <1>4 DEF ExpireKey
<1>5. ASSUME NEW g \in Readers, Read(g) PROVE Goal
  BY <1>0, <1>5 DEF Caches, Read, ReadMiss, CacheWalletBalance
<1>6. CASE UNCHANGED vars
  BY <1>0, <1>6 DEF vars
<1> QED BY <1>0, <1>1, <1>2, <1>3, <1>4, <1>5, <1>6 DEF Next

\* A cached balance that is not the current one is to be dropped, or was read
\* before a commit and cached after it, or a fault has struck, with any number of
\* readers and requests.
THEOREM WalletStaleOnlyByRace == Spec => []StaleOnlyByRace
<1> DEFINE Dropping(w) == \E r \in Requests : w \in dirty[r] \/ (pc[r] = "mark" /\ w \in Touched(r))
           Own == \A r \in Requests : dirty[r] \subseteq Touched(r)
           Fresh(w) == cache[w] \in {NoValue, balance[w]} \/ w \in raced \/ Dropping(w) \/ faults > 0
<1>1. Init => StaleOnlyByRace /\ Own
  BY DEF Init, StaleOnlyByRace
<1>2. TypeOK /\ StaleOnlyByRace /\ Own /\ [Next]_vars => StaleOnlyByRace' /\ Own'
  <2> SUFFICES ASSUME TypeOK, Own, [Next]_vars, NEW w \in Wallets, Fresh(w) PROVE Fresh(w)'
    BY CacheStep DEF StaleOnlyByRace
  <2>0. /\ pc \in [Requests -> Phases] /\ dirty \in [Requests -> SUBSET Wallets]
        /\ cache \in [Wallets -> Int \cup {NoValue}]
        /\ faults \in Nat /\ faults' \in {faults, faults + 1}
    BY CacheStep DEF TypeOK, CallsOK, PcOK, RedisOK
  <2>1. ASSUME NEW r \in Requests, Commit(r) PROVE Fresh(w)'
    <3>1. /\ pc'[r] = "mark" /\ \A s \in Requests : s # r => pc'[s] = pc[s]
          /\ pc[r] # "mark" /\ dirty' = dirty /\ UNCHANGED <<cache, raced, faults>>
      BY <2>0, <2>1 DEF Commit, Goto, redis
    <3>2. CASE w \in Touched(r)
      BY <3>1, <3>2
    <3>3. CASE w \notin Touched(r)
      <4>1. balance'[w] = balance[w]
        BY <2>1, <3>3 DEF Commit, Post
      <4> QED BY <3>1, <4>1
    <3> QED BY <3>2, <3>3
  <2>2. ASSUME NEW r \in Requests, SetIdempotency(r) PROVE Fresh(w)'
    <3>1. /\ dirty'[r] = Touched(r) /\ \A s \in Requests : s # r => pc'[s] = pc[s] /\ dirty'[s] = dirty[s]
          /\ UNCHANGED <<cache, raced, balance>>
      BY <2>0, <2>2 DEF SetIdempotency, Goto, store
    <3>2. CASE Dropping(w)
      <4>1. PICK s \in Requests : w \in dirty[s] \/ (pc[s] = "mark" /\ w \in Touched(s))
        BY <3>2
      <4>2. CASE s # r
        BY <3>1, <4>1, <4>2
      <4>3. CASE s = r /\ w \in Touched(r)
        BY <3>1, <4>3
      <4> QED BY <4>1, <4>2, <4>3
    <3> QED BY <2>0, <3>1, <3>2
  <2>3. ASSUME NEW r \in Requests, InvalidateWalletBalance(r) PROVE Fresh(w)'
    <3>0. Fault => faults' > 0
      BY <2>0 DEF Fault
    <3>1. PICK v \in dirty[r] :
            /\ dirty' = [dirty EXCEPT ![r] = @ \ {v}]
            /\ \/ cache' = [cache EXCEPT ![v] = NoValue] /\ raced' = raced \ {v}
               \/ UNCHANGED <<cache, raced>> /\ faults' > 0
      BY <2>3, <3>0, Zenon DEF InvalidateWalletBalance
    <3>2. balance' = balance /\ \A s \in Requests : pc[s] = "mark" => pc'[s] = "mark"
      BY <2>0, <2>3 DEF InvalidateWalletBalance, Goto, store
    <3>3. CASE v = w
      BY <2>0, <3>1, <3>3
    <3>4. CASE v # w
      <4>1. Dropping(w) => Dropping(w)'
        BY <2>0, <3>1, <3>2, <3>4
      <4> QED BY <2>0, <3>1, <3>2, <3>4, <4>1
    <3> QED BY <3>3, <3>4
  <2>4. ASSUME NEW v \in Wallets, ExpireCache(v) PROVE Fresh(w)'
    BY <2>0, <2>4 DEF ExpireCache, store, calls
  <2>5. ASSUME NEW g \in Readers, CacheWalletBalance(g) PROVE Fresh(w)'
    BY <2>0, <2>5 DEF CacheWalletBalance, store, calls
  <2> QED BY <2>0, <2>1, <2>2, <2>3, <2>4, <2>5, CacheStep DEF Caches
<1> QED BY <1>1, <1>2, WalletTypeCorrect, PTL DEF Spec

-----------------------------------------------------------------------------
(* What a request does concerns itself.                                    *)

Acts(r) == Step(r) \/ CommitUnacknowledged(r) \/ TxError(r) \/ Abandon(r)

Others(r) ==
  \A s \in Requests \ {r} :
    /\ pc'[s] = pc[s] /\ held'[s] = held[s] /\ seen'[s] = seen[s] /\ dirty'[s] = dirty[s]
    /\ outcome'[s] = outcome[s] /\ shown'[s] = shown[s]

\* The steps of Redis and of the readers.
Looks ==
  /\ \/ \E w \in Wallets : ExpireLock(w) \/ ExpireCache(w)
     \/ \E k \in Keys : ExpireKey(k)
     \/ \E g \in Readers : Read(g)
     \/ UNCHANGED vars
  /\ UNCHANGED <<store, calls>>

\* Each step is one request's, or a reader's or Redis's.
LEMMA OneActs ==
  ASSUME TypeOK, [Next]_vars
  PROVE  (\E r \in Requests : Acts(r) /\ Others(r)) \/ Looks
<1> USE DEF store, redis, calls
<1>0. /\ pc \in [Requests -> Phases] /\ held \in [Requests -> SUBSET Wallets]
      /\ seen \in [Requests -> [Wallets -> Int]] /\ dirty \in [Requests -> SUBSET Wallets]
      /\ outcome \in [Requests -> Results] /\ shown \in [Requests -> Int \cup {NoValue}]
  BY DEF TypeOK, CallsOK, PcOK
<1>1. ASSUME NEW r \in Requests, Step(r) PROVE Others(r)
  <2>1. CASE CheckIdempotency(r)
    BY <1>0, <2>1 DEF CheckIdempotency, Goto, Answer, Others
  <2>2. CASE AcquireLock(r)
    BY <1>0, <2>2 DEF AcquireLock, Goto, Answer, Others
  <2>3. CASE BeginTx(r) \/ ReadBack(r) \/ Commit(r) \/ AbortDeadlocked(r)
    BY <1>0, <2>3 DEF BeginTx, ReadBack, Commit, AbortDeadlocked, Rollback, Goto, Answer, Others
  <2>4. CASE GetWalletForUpdate(r)
    BY <1>0, <2>4 DEF GetWalletForUpdate, Goto, Others
  <2>5. CASE Decide(r)
    BY <1>0, <2>5 DEF Decide, Rollback, Goto, Answer, Others
  <2>6. CASE SetIdempotency(r) \/ ReleaseLock(r)
    BY <1>0, <2>6 DEF SetIdempotency, ReleaseLock, Goto, Others
  <2>7. CASE InvalidateWalletBalance(r)
    BY <1>0, <2>7 DEF InvalidateWalletBalance, Goto, Answer, Others
  <2> QED BY <1>1, <2>1, <2>2, <2>3, <2>4, <2>5, <2>6, <2>7 DEF Step
<1>2. ASSUME NEW r \in Requests, CommitUnacknowledged(r) \/ TxError(r) \/ Abandon(r) PROVE Others(r)
  BY <1>0, <1>2 DEF CommitUnacknowledged, TxError, Rollback, Abandon, Goto, Answer, Others
<1>3. ASSUME \/ \E w \in Wallets : ExpireLock(w) \/ ExpireCache(w)
             \/ \E k \in Keys : ExpireKey(k)
             \/ \E g \in Readers : Read(g)
             \/ UNCHANGED vars
      PROVE  UNCHANGED <<store, calls>>
  BY <1>3 DEF ExpireLock, ExpireCache, ExpireKey, Read, ReadMiss, CacheWalletBalance, vars
<1> QED BY <1>1, <1>2, <1>3 DEF Next, Acts, Looks

-----------------------------------------------------------------------------
(* Answers.                                                                *)

\* The answer of a request that was applied is what its rows of wallet_events say.
Reported(r) ==
  /\ r \in applied
  /\ To[r] = NoWallet =>
       \E i \in 1..Len(journal[From[r]]) :
         journal[From[r]][i].req = r /\ journal[From[r]][i].after = shown[r]

\* A withdrawal about to commit is going to answer what it will have written, and
\* the answer stays when it is made.
Drafted(r) == To[r] = NoWallet => shown[r] = seen[r][From[r]] - Amount[r]

AnswerInv ==
  \A r \in Requests :
    /\ pc[r] = "commit" => Drafted(r)
    /\ pc[r] \in {"mark", "invalidate"} \/ outcome[r] = "ok" => Reported(r)
    /\ outcome[r] = "ok" => pc[r] \in {"release", "done"}

\* What FOR UPDATE reads, and the balance computed from it.
LEMMA RowTypes ==
  ASSUME TypeOK, NEW r \in Requests, NEW w \in Wallets
  PROVE  /\ journal[w] \in Seq([req : Requests, before : Int, after : Int])
         /\ seen[r][w] \in Int /\ NewBalance(r, w) \in Int
<1>1. journal[w] \in Seq([req : Requests, before : Int, after : Int])
  BY DEF TypeOK, StoreOK
<1>2. seen[r][w] \in Int
  BY DEF TypeOK, CallsOK
<1> QED BY <1>1, <1>2, DeltaType DEF NewBalance

\* What is in the journal stays there.
LEMMA ReportedStays ==
  ASSUME TypeOK, [Next]_vars, NEW r \in Requests, Reported(r), shown'[r] = shown[r]
  PROVE  Reported(r)'
<1>1. CASE UNCHANGED <<journal, applied>>
  BY <1>1 DEF Reported
<1>2. ASSUME NEW s \in Requests, Post(s) PROVE Reported(r)'
  <2> DEFINE E == [req : Requests, before : Int, after : Int]
  <2>1. ASSUME NEW w \in Wallets, NEW i \in 1..Len(journal[w])
        PROVE  i \in 1..Len(journal'[w]) /\ journal'[w][i] = journal[w][i]
    <3>1. journal[w] \in Seq(E) /\ seen[s][w] \in Int /\ NewBalance(s, w) \in Int
      BY RowTypes
    <3> DEFINE e == [req |-> s, before |-> seen[s][w], after |-> NewBalance(s, w)]
    <3>2. e \in E
      BY <3>1
    <3>3. journal'[w] = journal[w] \/ journal'[w] = Append(journal[w], e)
      BY <1>2 DEF Post
    <3> HIDE DEF e, E
    <3> QED BY <3>1, <3>2, <3>3, AppendProperties, LenProperties
  <2>2. applied \subseteq applied'
    BY <1>2 DEF Post
  <2>3. To[r] = NoWallet => From[r] \in Wallets
    OBVIOUS
  <2> QED BY <2>1, <2>2, <2>3 DEF Reported
<1> QED BY <1>1, <1>2, OnlyCommitsMoveMoney

\* The commit writes the rows that the answer is drafted for.
LEMMA CommitReports ==
  ASSUME TypeOK, NEW r \in Requests, Drafted(r), Post(r), shown'[r] = shown[r]
  PROVE  Reported(r)'
<1> DEFINE E == [req : Requests, before : Int, after : Int]
<1>1. ASSUME NEW w \in Touched(r)
      PROVE  \E i \in 1..Len(journal'[w]) :
               journal'[w][i].req = r /\ journal'[w][i].after = NewBalance(r, w)
  <2>0. w \in Wallets
    OBVIOUS
  <2>1. journal[w] \in Seq(E) /\ seen[r][w] \in Int /\ NewBalance(r, w) \in Int
    BY <2>0, RowTypes
  <2> DEFINE e == [req |-> r, before |-> seen[r][w], after |-> NewBalance(r, w)]
  <2>2. e \in E
    BY <2>1
  <2>3. journal'[w] = Append(journal[w], e)
    BY <2>0 DEF Post
  <2>4. /\ Len(journal[w]) \in Nat
        /\ Len(journal'[w]) = Len(journal[w]) + 1 /\ journal'[w][Len(journal[w]) + 1] = e
    <3> HIDE DEF e, E
    <3> QED BY <2>1, <2>2, <2>3, AppendProperties, LenProperties
  <2>5. Len(journal[w]) + 1 \in 1..Len(journal'[w])
    BY <2>4
  <2> HIDE DEF e
  <2>6. e.req = r /\ e.after = NewBalance(r, w)
    BY DEF e
  <2> QED BY <2>4, <2>5, <2>6
<1>2. r \in applied'
  BY DEF Post
<1>3. ASSUME To[r] = NoWallet
      PROVE  \E i \in 1..Len(journal'[From[r]]) :
               journal'[From[r]][i].req = r /\ journal'[From[r]][i].after = shown'[r]
  <2>1. From[r] \in Touched(r) /\ From[r] # To[r]
    BY <1>3
  <2>2. seen[r][From[r]] \in Int
    BY <2>1, RowTypes
  <2>3. NewBalance(r, From[r]) = shown[r]
    BY <1>3, <2>1, <2>2 DEF Drafted, NewBalance, Bank!Delta
  <2>4. PICK i \in 1..Len(journal'[From[r]]) :
          journal'[From[r]][i].req = r /\ journal'[From[r]][i].after = NewBalance(r, From[r])
    BY <1>1, <2>1
  <2> QED BY <2>3, <2>4
<1> QED BY <1>2, <1>3 DEF Reported

\* Every step keeps what is to be answered true.
LEMMA AnswerStep ==
  ASSUME TypeOK, RowInv, AnswerInv, [Next]_vars
  PROVE  AnswerInv'
<1> USE DEF store, redis, calls
<1> SUFFICES ASSUME NEW r \in Requests
             PROVE  /\ pc'[r] = "commit" => Drafted(r)'
                    /\ pc'[r] \in {"mark", "invalidate"} \/ outcome'[r] = "ok" => Reported(r)'
                    /\ outcome'[r] = "ok" => pc'[r] \in {"release", "done"}
  BY DEF AnswerInv
<1> DEFINE Goal == /\ pc'[r] = "commit" => Drafted(r)'
                   /\ pc'[r] \in {"mark", "invalidate"} \/ outcome'[r] = "ok" => Reported(r)'
                   /\ outcome'[r] = "ok" => pc'[r] \in {"release", "done"}
<1>0. /\ pc \in [Requests -> Phases] /\ outcome \in [Requests -> Results]
      /\ shown \in [Requests -> Int \cup {NoValue}]
      /\ pc[r] = "commit" => Drafted(r)
      /\ pc[r] \in {"mark", "invalidate"} \/ outcome[r] = "ok" => Reported(r)
      /\ outcome[r] = "ok" => pc[r] \in {"release", "done"}
      /\ Reported(r) /\ shown'[r] = shown[r] => Reported(r)'
  BY ReportedStays DEF TypeOK, CallsOK, PcOK, AnswerInv
<1>1. CASE UNCHANGED <<pc[r], seen[r], outcome[r], shown[r]>>
  BY <1>0, <1>1 DEF Drafted
<1>2. CASE Acts(r)
  <2>1. CASE CheckIdempotency(r)
    BY <1>0, <2>1 DEF CheckIdempotency, Goto, Answer
  <2>2. CASE AcquireLock(r)
    BY <1>0, <2>2 DEF AcquireLock, Goto, Answer
  <2>3. CASE BeginTx(r)
    BY <1>0, <2>3 DEF BeginTx, Goto
  <2>4. CASE GetWalletForUpdate(r)
    BY <1>0, <2>4 DEF GetWalletForUpdate, WantsRow, Goto
  <2>5. CASE Decide(r)
    BY <1>0, <2>5 DEF Decide, Rollback, Goto, Answer, Drafted, IsDeposit
  <2>6. CASE ReadBack(r)
    <3>1. To[r] # NoWallet
      BY <2>6 DEF ReadBack, TypeOK, CallsOK, PcOK, IsDeposit
    <3> QED BY <1>0, <2>6, <3>1 DEF ReadBack, Goto, Drafted
  <2>7. CASE Commit(r)
    <3>1. Reported(r)'
      BY <1>0, <2>7, CommitReports DEF Commit
    <3> QED BY <1>0, <2>7, <3>1 DEF Commit, Goto
  <2>8. CASE AbortDeadlocked(r) \/ TxError(r)
    BY <1>0, <2>8 DEF AbortDeadlocked, TxError, Rollback, Goto, Answer
  <2>9. CASE SetIdempotency(r)
    BY <1>0, <2>9 DEF SetIdempotency, Goto
  <2>10. CASE InvalidateWalletBalance(r)
    BY <1>0, <2>10 DEF InvalidateWalletBalance, Goto, Answer
  <2>11. CASE ReleaseLock(r)
    BY <1>0, <2>11 DEF ReleaseLock, Goto
  <2>12. CASE CommitUnacknowledged(r) \/ Abandon(r)
    BY <1>0, <2>12 DEF CommitUnacknowledged, Abandon, Goto, Answer
  <2> QED BY <1>2, <2>1, <2>2, <2>3, <2>4, <2>5, <2>6, <2>7, <2>8, <2>9, <2>10, <2>11, <2>12
          DEF Acts, Step
<1>3. CASE Looks
  BY <1>1, <1>3 DEF Looks
<1> QED BY <1>1, <1>2, <1>3, OneActs DEF Others

\* What is to be answered is true throughout.
LEMMA AnswerInvariant == Spec => []AnswerInv
<1>1. Init => AnswerInv
  BY DEF Init, AnswerInv
<1> QED BY <1>1, AnswerStep, WalletTypeCorrect, RowInvariant, PTL DEF Spec

\* An answer of success is true, and so is the balance it shows, however many
\* requests run at once and whatever fails.
THEOREM AnswersAreTrue == Spec => []AnswerIsTrue
<1>1. AnswerInv => AnswerIsTrue
  BY DEF AnswerInv, AnswerIsTrue, Reported
<1> QED BY <1>1, AnswerInvariant, PTL

-----------------------------------------------------------------------------
(* Redis locks.                                                            *)

\* What a step does to the lock of a wallet and to those that hold it.
Gains(r, w)  == w \notin held[r] /\ w \notin lock /\ w \in held'[r] /\ w \in lock'
Yields(r, w) == w \in held[r] /\ w \notin held'[r] /\ w \notin lock'

\* What a step may do to one Redis lock: nothing, a gain, a release, a fault that
\* gives no one a hold, or a lapse that nobody is there to notice.
LEMMA LockStep ==
  ASSUME TypeOK, [Next]_vars, NEW w \in Wallets
  PROVE  \/ /\ \A r \in Requests : w \in held'[r] <=> w \in held[r]
            /\ (w \in lock' <=> w \in lock) /\ faults' \in {faults, faults + 1}
         \/ /\ \E r \in Requests : Gains(r, w) /\ Others(r) /\ faults' = faults
         \/ /\ \E r \in Requests : Yields(r, w) /\ Others(r) /\ faults' = faults
         \/ /\ \A r \in Requests : w \in held'[r] => w \in held[r]
            /\ faults' = faults + 1
         \/ /\ \A r \in Requests : w \notin held'[r] /\ w \notin held[r]
            /\ w \notin lock' /\ faults' = faults
<1> USE DEF store, redis, calls, NoFault, Fault
<1> DEFINE Same == /\ \A r \in Requests : w \in held'[r] <=> w \in held[r]
                   /\ (w \in lock' <=> w \in lock) /\ faults' \in {faults, faults + 1}
           Gain == \E r \in Requests : Gains(r, w) /\ Others(r) /\ faults' = faults
           Yield == \E r \in Requests : Yields(r, w) /\ Others(r) /\ faults' = faults
           Lose == /\ \A r \in Requests : w \in held'[r] => w \in held[r]
                   /\ faults' = faults + 1
           Clean == /\ \A r \in Requests : w \notin held'[r] /\ w \notin held[r]
                    /\ w \notin lock' /\ faults' = faults
           Goal == Same \/ Gain \/ Yield \/ Lose \/ Clean
<1>0. held \in [Requests -> SUBSET Wallets] /\ lock \subseteq Wallets
  BY DEF TypeOK, CallsOK, RedisOK
<1>1. ASSUME NEW r \in Requests, Acts(r), Others(r) PROVE Goal
  <2>1. CASE UNCHANGED <<held, lock>> /\ faults' \in {faults, faults + 1}
    BY <2>1
  <2>2. CASE CheckIdempotency(r)
    BY <2>1, <2>2 DEF CheckIdempotency
  <2>3. CASE BeginTx(r) \/ GetWalletForUpdate(r) \/ Decide(r) \/ ReadBack(r) \/ Commit(r)
    BY <2>1, <2>3 DEF BeginTx, GetWalletForUpdate, Decide, Rollback, ReadBack, Commit
  <2>4. CASE AbortDeadlocked(r) \/ TxError(r) \/ CommitUnacknowledged(r)
    BY <2>1, <2>4 DEF AbortDeadlocked, TxError, Rollback, CommitUnacknowledged
  <2>5. CASE SetIdempotency(r) \/ InvalidateWalletBalance(r)
    BY <2>1, <2>5 DEF SetIdempotency, InvalidateWalletBalance
  <2>6. CASE Abandon(r)
    <3>1. Lose
      BY <1>0, <2>6 DEF Abandon
    <3> QED BY <3>1
  <2>7. CASE AcquireLock(r)
    <3>1. \/ \E v \in Touched(r) \ held[r] :
               /\ v \notin lock /\ lock' = lock \cup {v}
               /\ held' = [held EXCEPT ![r] = @ \cup {v}] /\ faults' = faults
          \/ UNCHANGED <<held, lock>> /\ faults' = faults
          \/ held' = held /\ faults' = faults + 1
      BY <2>7 DEF AcquireLock
    <3>2. ASSUME NEW v \in Touched(r) \ held[r], v \notin lock, lock' = lock \cup {v},
                 held' = [held EXCEPT ![r] = @ \cup {v}], faults' = faults
          PROVE  Goal
      <4>1. CASE v = w
        BY <1>0, <1>1, <3>2, <4>1 DEF Gains
      <4>2. CASE v # w
        BY <1>0, <3>2, <4>2
      <4> QED BY <4>1, <4>2
    <3> QED BY <2>1, <3>1, <3>2
  <2>8. CASE ReleaseLock(r)
    <3>1. \/ \E v \in held[r] : /\ held' = [held EXCEPT ![r] = @ \ {v}]
                                /\ \/ lock' = lock \ {v} /\ faults' = faults
                                   \/ lock' = lock /\ faults' = faults + 1
          \/ UNCHANGED <<held, lock>> /\ faults' \in {faults, faults + 1}
      BY <2>8 DEF ReleaseLock
    <3>2. ASSUME NEW v \in held[r], held' = [held EXCEPT ![r] = @ \ {v}], lock' = lock \ {v}, faults' = faults
          PROVE  Goal
      <4>1. CASE v = w
        BY <1>0, <1>1, <3>2, <4>1 DEF Yields
      <4>2. CASE v # w
        BY <1>0, <3>2, <4>2
      <4> QED BY <4>1, <4>2
    <3>3. ASSUME NEW v \in held[r], held' = [held EXCEPT ![r] = @ \ {v}], lock' = lock, faults' = faults + 1
          PROVE  Lose
      BY <1>0, <3>3
    <3> QED BY <2>1, <3>1, <3>2, <3>3
  <2> QED BY <1>1, <2>2, <2>3, <2>4, <2>5, <2>6, <2>7, <2>8 DEF Acts, Step
<1>2. ASSUME NEW v \in Wallets, ExpireLock(v) PROVE Goal
  <2>0. held' = held /\ lock' = lock \ {v}
    BY <1>2 DEF ExpireLock
  <2>1. CASE v # w
    BY <1>2, <2>0, <2>1 DEF ExpireLock
  <2>2. CASE v = w /\ Holders(v) = {}
    <3>1. Clean
      BY <1>2, <2>0, <2>2 DEF ExpireLock, Holders
    <3> QED BY <3>1
  <2>3. CASE v = w /\ Holders(v) # {}
    <3>1. Lose
      BY <1>2, <2>0, <2>3 DEF ExpireLock
    <3> QED BY <3>1
  <2> QED BY <2>1, <2>2, <2>3
<1>3. ASSUME \/ \E v \in Wallets : ExpireCache(v)
             \/ \E k \in Keys : ExpireKey(k)
             \/ \E g \in Readers : Read(g)
             \/ UNCHANGED vars
      PROVE  Same
  BY <1>3 DEF ExpireCache, ExpireKey, Read, ReadMiss, CacheWalletBalance, vars
<1>4. Goal
  BY <1>1, <1>2, <1>3, OneActs DEF Looks
<1> QED BY <1>4

\* Holders can be counted.
LEMMA HoldersFinite ==
  ASSUME NEW w
  PROVE  IsFiniteSet(Holders(w)) /\ Cardinality(Holders(w)) \in Nat
BY FS_Subset, FS_CardinalityType DEF Holders

\* A holder beside the lock, which is gone or another's, has cost a fault.
HoldersCounted ==
  \A w \in Wallets : Cardinality(Holders(w)) <= faults + (IF w \in lock THEN 1 ELSE 0)

\* However many requests there are, one at a time holds a wallet, and one more for
\* each lock that ran out under its holder or could not be deleted.
THEOREM WalletHoldersBounded == Spec => []HoldersBounded
<1>1. Init => HoldersCounted
  <2> SUFFICES ASSUME Init, NEW w \in Wallets
               PROVE  Cardinality(Holders(w)) <= faults + (IF w \in lock THEN 1 ELSE 0)
    BY DEF HoldersCounted
  <2>1. Holders(w) = {} /\ faults = 0
    BY DEF Init, Holders
  <2> QED BY <2>1, FS_EmptySet
<1>2. TypeOK /\ HoldersCounted /\ [Next]_vars => HoldersCounted'
  <2> SUFFICES ASSUME TypeOK, [Next]_vars, NEW w \in Wallets,
                      Cardinality(Holders(w)) <= faults + (IF w \in lock THEN 1 ELSE 0)
               PROVE  Cardinality(Holders(w)') <= faults' + (IF w \in lock' THEN 1 ELSE 0)
    BY DEF HoldersCounted
  <2>0. /\ faults \in Nat
        /\ IsFiniteSet(Holders(w)) /\ Cardinality(Holders(w)) \in Nat
    BY HoldersFinite DEF TypeOK
  <2>a. Holders(w)' \subseteq Holders(w) =>
          Cardinality(Holders(w)') \in Nat /\ Cardinality(Holders(w)') <= Cardinality(Holders(w))
    BY <2>0, FS_Subset, FS_CardinalityType
  <2>1. ASSUME \A r \in Requests : w \in held'[r] <=> w \in held[r], w \in lock' <=> w \in lock,
               faults' \in {faults, faults + 1}
        PROVE  Cardinality(Holders(w)') <= faults' + (IF w \in lock' THEN 1 ELSE 0)
    <3>1. Holders(w)' = Holders(w)
      BY <2>1 DEF Holders
    <3> QED BY <2>0, <2>1, <3>1
  <2>2. ASSUME NEW r \in Requests, Gains(r, w), Others(r), faults' = faults
        PROVE  Cardinality(Holders(w)') <= faults' + (IF w \in lock' THEN 1 ELSE 0)
    <3>1. Holders(w)' = Holders(w) \cup {r} /\ r \notin Holders(w)
      BY <2>2 DEF Holders, Gains, Others
    <3>2. Cardinality(Holders(w)') = Cardinality(Holders(w)) + 1
      BY <2>0, <3>1, FS_AddElement
    <3> QED BY <2>0, <2>2, <3>2 DEF Gains
  <2>3. ASSUME NEW r \in Requests, Yields(r, w), Others(r), faults' = faults
        PROVE  Cardinality(Holders(w)') <= faults' + (IF w \in lock' THEN 1 ELSE 0)
    <3>1. Holders(w)' = Holders(w) \ {r} /\ r \in Holders(w)
      BY <2>3 DEF Holders, Yields, Others
    <3>2. Cardinality(Holders(w)') = Cardinality(Holders(w)) - 1
      BY <2>0, <3>1, FS_RemoveElement
    <3> QED BY <2>0, <2>3, <3>2 DEF Yields
  <2>4. ASSUME \A r \in Requests : w \in held'[r] => w \in held[r], faults' = faults + 1
        PROVE  Cardinality(Holders(w)') <= faults' + (IF w \in lock' THEN 1 ELSE 0)
    <3>1. Holders(w)' \subseteq Holders(w)
      BY <2>4 DEF Holders
    <3> QED BY <2>0, <2>a, <2>4, <3>1
  <2>5. ASSUME \A r \in Requests : w \notin held'[r] /\ w \notin held[r], w \notin lock', faults' = faults
        PROVE  Cardinality(Holders(w)') <= faults' + (IF w \in lock' THEN 1 ELSE 0)
    <3>1. Holders(w)' = {}
      BY <2>5 DEF Holders
    <3> QED BY <2>0, <2>5, <3>1, FS_EmptySet
  <2> QED BY <2>1, <2>2, <2>3, <2>4, <2>5, LockStep
<1>3. TypeOK /\ HoldersCounted => HoldersBounded
  <2> SUFFICES ASSUME TypeOK, HoldersCounted, NEW w \in Wallets PROVE Cardinality(Holders(w)) <= 1 + faults
    BY DEF HoldersBounded
  <2>1. faults \in Nat /\ Cardinality(Holders(w)) \in Nat
    BY HoldersFinite DEF TypeOK
  <2> QED BY <2>1 DEF HoldersCounted
<1> QED BY <1>1, <1>2, <1>3, WalletTypeCorrect, PTL DEF Spec

\* A lock of Redis is in the hands of those that took it, and of no two.
Owned ==
  /\ \A r \in Requests : held[r] \subseteq lock
  /\ \A r, s \in Requests : r # s => held[r] \cap held[s] = {}
  /\ \A r \in Requests : pc[r] \in InTx \cup {"begin"} => held[r] = Touched(r)

\* A request locks its own rows only.
RowsAreOwn == \A w \in Wallets, r \in Requests : rowLock[w] = r => w \in Touched(r)

\* Without a fault a lock stays with the one that holds it.
LEMMA OwnedStep ==
  ASSUME TypeOK, TypeOK', faults = 0 => Owned, [Next]_vars
  PROVE  faults' = 0 => Owned'
<1> SUFFICES ASSUME faults' = 0 PROVE Owned'
  OBVIOUS
<1> USE DEF store, redis, calls, NoFault, Fault
<1>0. /\ faults \in Nat /\ faults' \in {faults, faults + 1}
      /\ held \in [Requests -> SUBSET Wallets] /\ held' \in [Requests -> SUBSET Wallets]
      /\ pc \in [Requests -> Phases]
  BY CacheStep DEF TypeOK, CallsOK, PcOK
<1>1. faults = 0 /\ faults' = faults /\ Owned
  BY <1>0
<1>2. ASSUME NEW r \in Requests, NEW w \in held'[r]
      PROVE  w \in lock' /\ \A s \in Requests : s # r => w \notin held'[s]
  <2>0. w \in Wallets
    BY <1>0
  <2>1. CASE (\A s \in Requests : w \in held'[s] <=> w \in held[s]) /\ (w \in lock' <=> w \in lock)
    BY <1>1, <1>2, <2>1 DEF Owned
  <2>2. ASSUME NEW t \in Requests, Gains(t, w), Others(t)
        PROVE  w \in lock' /\ \A s \in Requests : s # r => w \notin held'[s]
    BY <1>1, <1>2, <2>2 DEF Owned, Gains, Others
  <2>3. ASSUME NEW t \in Requests, Yields(t, w), Others(t) PROVE FALSE
    BY <1>1, <1>2, <2>3 DEF Owned, Yields, Others
  <2> QED BY <1>0, <1>1, <1>2, <2>0, <2>1, <2>2, <2>3, LockStep
<1>3. ASSUME NEW r \in Requests, pc'[r] \in InTx \cup {"begin"}
      PROVE  held'[r] = Touched(r)
  <2>1. CASE pc'[r] = pc[r] /\ held'[r] = held[r]
    BY <1>1, <1>3, <2>1 DEF Owned
  <2>2. CASE Acts(r)
    <3>1. CASE AcquireLock(r)
      BY <1>0, <1>3, <3>1 DEF AcquireLock, Goto
    <3>2. CASE ~AcquireLock(r)
      <4>1. pc[r] \in InTx \cup {"begin"} /\ held' = held
        <5>1. CASE BeginTx(r) \/ Decide(r) \/ ReadBack(r) \/ CheckIdempotency(r)
          BY <1>0, <1>3, <5>1 DEF BeginTx, Decide, Rollback, ReadBack, CheckIdempotency, Goto
        <5>2. CASE GetWalletForUpdate(r)
          BY <1>0, <1>3, <5>2 DEF GetWalletForUpdate, WantsRow
        <5>3. CASE Commit(r) \/ CommitUnacknowledged(r) \/ AbortDeadlocked(r) \/ TxError(r) \/ Abandon(r)
          BY <1>0, <1>3, <5>3 DEF Commit, CommitUnacknowledged, AbortDeadlocked, TxError, Rollback, Abandon, Goto
        <5>4. CASE SetIdempotency(r) \/ ReleaseLock(r)
          BY <1>0, <1>3, <5>4 DEF SetIdempotency, ReleaseLock, Goto
        <5>5. CASE InvalidateWalletBalance(r)
          BY <1>0, <1>3, <5>5 DEF InvalidateWalletBalance, Goto
        <5> QED BY <2>2, <3>2, <5>1, <5>2, <5>3, <5>4, <5>5 DEF Acts, Step
      <4> QED BY <1>1, <4>1 DEF Owned
    <3> QED BY <3>1, <3>2
  <2> QED BY <2>1, <2>2, OneActs DEF Others, Looks
<1> QED BY <1>2, <1>3 DEF Owned

\* Every step keeps the rows with requests that are about them.
LEMMA RowsAreOwnStep ==
  ASSUME TypeOK, RowsAreOwn, [Next]_vars
  PROVE  RowsAreOwn'
<1> USE DEF store, redis, calls
<1>0. rowLock \in [Wallets -> Requests \cup {NoRequest}]
  BY DEF TypeOK, StoreOK
<1>1. CASE UNCHANGED rowLock
  BY <1>1 DEF RowsAreOwn
<1>2. ASSUME NEW r \in Requests, FreeRows(r) PROVE RowsAreOwn'
  BY <1>0, <1>2 DEF FreeRows, RowsAreOwn
<1>3. ASSUME NEW r \in Requests, GetWalletForUpdate(r) PROVE RowsAreOwn'
  BY <1>0, <1>3 DEF GetWalletForUpdate, WantsRow, RowsAreOwn
<1>4. ASSUME NEW r \in Requests, Acts(r) PROVE UNCHANGED rowLock \/ FreeRows(r) \/ GetWalletForUpdate(r)
  <2>1. CASE CheckIdempotency(r) \/ AcquireLock(r) \/ BeginTx(r)
    BY <2>1 DEF CheckIdempotency, AcquireLock, BeginTx
  <2>2. CASE Decide(r) \/ ReadBack(r) \/ Commit(r) \/ CommitUnacknowledged(r)
    BY <2>2 DEF Decide, Rollback, ReadBack, Commit, CommitUnacknowledged, Post
  <2>3. CASE AbortDeadlocked(r) \/ TxError(r) \/ Abandon(r)
    BY <2>3 DEF AbortDeadlocked, TxError, Rollback, Abandon
  <2>4. CASE SetIdempotency(r) \/ InvalidateWalletBalance(r) \/ ReleaseLock(r)
    BY <2>4 DEF SetIdempotency, InvalidateWalletBalance, ReleaseLock
  <2> QED BY <1>4, <2>1, <2>2, <2>3, <2>4 DEF Acts, Step
<1> QED BY <1>1, <1>2, <1>3, <1>4, OneActs DEF Looks

\* Without a fault no request ever waits for a row, since who holds the row holds
\* the Redis lock of its wallet; so there is no deadlock in Postgres.
THEOREM WalletNoRowDeadlock == Spec => []NoRowDeadlock
<1> DEFINE Inv == (faults = 0 => Owned) /\ RowsAreOwn
<1>1. Init => Inv
  BY DEF Init, Owned, RowsAreOwn
<1>2. TypeOK /\ TypeOK' /\ Inv /\ [Next]_vars => Inv'
  BY OwnedStep, RowsAreOwnStep
<1>3. TypeOK /\ RowInv /\ Inv => NoRowDeadlock
  <2> SUFFICES ASSUME TypeOK, RowInv, Owned, RowsAreOwn, NEW r \in Requests, InDeadlock(r) PROVE FALSE
    BY DEF NoRowDeadlock
  <2>1. PICK t \in Requests : WaitsFor(r, t)
    BY DEF InDeadlock
  <2>2. PICK w \in Wallets : pc[r] = "rows" /\ w \in Touched(r) /\ rowLock[w] # r /\ rowLock[w] = t
    BY <2>1 DEF WaitsFor, WantsRow
  <2>3. pc[t] \in InTx /\ w \in Touched(t) /\ t # r
    BY <2>2 DEF RowInv, RowsAreCurrent, RowsAreOwn
  <2>4. w \in held[r] /\ w \in held[t]
    BY <2>2, <2>3 DEF Owned
  <2> QED BY <2>3, <2>4 DEF Owned
<1> QED BY <1>1, <1>2, <1>3, WalletTypeCorrect, RowInvariant, PTL DEF Spec

-----------------------------------------------------------------------------
(* Idempotency keys.                                                       *)

\* Where a request is between the check of its key and its commit.
Admitted == InTx \cup {"lock", "begin"}

Open(k) == {r \in Requests : Key[r] = k /\ pc[r] \in Admitted}
Paid(k) == {r \in applied : Key[r] = k}

\* What a request does to its key.
Admits(r)  == /\ pc[r] = "check" /\ pc'[r] = "lock" /\ Key[r] \notin used
              /\ UNCHANGED <<used, applied, faults>>
Refuses(r) == /\ pc[r] \in Admitted /\ pc'[r] \in {"release", "done"}
              /\ UNCHANGED <<used, applied>> /\ faults' \in {faults, faults + 1}
Pays(r)    == /\ pc[r] = "commit" /\ applied' = applied \cup {r} /\ UNCHANGED used
              /\ \/ pc'[r] = "mark" /\ UNCHANGED faults
                 \/ pc'[r] = "release" /\ faults' = faults + 1
Marks(r)   == /\ pc[r] = "mark" /\ pc'[r] = "invalidate" /\ used' = used \cup {Key[r]}
              /\ UNCHANGED <<applied, faults>>
Forgets(r) == /\ pc[r] = "mark" /\ pc'[r] \in {"invalidate", "done"} /\ faults' = faults + 1
              /\ UNCHANGED <<used, applied>>
Goes(r)    == /\ UNCHANGED <<used, applied>> /\ faults' \in {faults, faults + 1}
              /\ \/ pc[r] \in Admitted /\ pc'[r] \in Admitted
                 \/ pc[r] = "check" /\ pc'[r] = "done"
                 \/ pc[r] \in {"invalidate", "release"} /\ pc'[r] \in {"invalidate", "release", "done"}
Lapses(k)  == used' = used \ {k} /\ faults' = faults + 1

\* What a step does to the keys: a request enters, leaves, commits or marks its
\* key, or a mark is gone.
LEMMA KeyStep ==
  ASSUME TypeOK, [Next]_vars
  PROVE  \/ \E r \in Requests :
              /\ Others(r)
              /\ Admits(r) \/ Refuses(r) \/ Pays(r) \/ Marks(r) \/ Forgets(r) \/ Goes(r)
         \/ /\ UNCHANGED <<store, calls>>
            /\ \/ UNCHANGED used /\ faults' \in {faults, faults + 1}
               \/ \E k \in Keys : Lapses(k)
<1> USE DEF store, redis, calls, NoFault, Fault, Admitted
<1>0. pc \in [Requests -> Phases]
  BY DEF TypeOK, CallsOK, PcOK
<1>1. ASSUME NEW r \in Requests, Acts(r)
      PROVE  Admits(r) \/ Refuses(r) \/ Pays(r) \/ Marks(r) \/ Forgets(r) \/ Goes(r)
  <2>1. CASE CheckIdempotency(r)
    BY <1>0, <2>1 DEF CheckIdempotency, Goto, Admits, Goes
  <2>2. CASE AcquireLock(r)
    BY <1>0, <2>2 DEF AcquireLock, Goto, Refuses, Goes
  <2>3. CASE BeginTx(r) \/ ReadBack(r)
    BY <1>0, <2>3 DEF BeginTx, ReadBack, Goto, Goes
  <2>4. CASE GetWalletForUpdate(r)
    BY <1>0, <2>4 DEF GetWalletForUpdate, WantsRow, Goto, Goes
  <2>5. CASE Decide(r)
    BY <1>0, <2>5 DEF Decide, Rollback, Goto, Goes, Refuses
  <2>6. CASE Commit(r) \/ CommitUnacknowledged(r)
    BY <1>0, <2>6 DEF Commit, CommitUnacknowledged, Post, Goto, Pays
  <2>7. CASE AbortDeadlocked(r)
    <3>1. pc[r] = "rows"
      BY <2>7 DEF AbortDeadlocked, InDeadlock, WaitsFor, WantsRow
    <3> QED BY <1>0, <2>7, <3>1 DEF AbortDeadlocked, Rollback, Goto, Refuses
  <2>8. CASE TxError(r)
    BY <1>0, <2>8 DEF TxError, Rollback, Goto, Refuses
  <2>9. CASE SetIdempotency(r)
    BY <1>0, <2>9 DEF SetIdempotency, Goto, Marks, Forgets
  <2>10. CASE InvalidateWalletBalance(r)
    BY <1>0, <2>10 DEF InvalidateWalletBalance, Goto, Goes
  <2>11. CASE ReleaseLock(r)
    BY <1>0, <2>11 DEF ReleaseLock, Goto, Goes
  <2>12. CASE Abandon(r)
    BY <1>0, <2>12 DEF Abandon, Goto, Refuses, Forgets, Goes
  <2> QED BY <1>1, <2>1, <2>2, <2>3, <2>4, <2>5, <2>6, <2>7, <2>8, <2>9, <2>10, <2>11, <2>12
          DEF Acts, Step
<1>2. ASSUME Looks
      PROVE  \/ UNCHANGED used /\ faults' \in {faults, faults + 1}
             \/ \E k \in Keys : Lapses(k)
  BY <1>2 DEF Looks, ExpireLock, ExpireCache, ExpireKey, Read, ReadMiss, CacheWalletBalance, vars, Lapses
<1> QED BY <1>1, <1>2, OneActs DEF Looks

\* The counts of the two sets, and how a step changes them.
LEMMA KeyCounts ==
  ASSUME applied \subseteq Requests, NEW k
  PROVE  /\ IsFiniteSet(Open(k)) /\ Cardinality(Open(k)) \in Nat
         /\ IsFiniteSet(Paid(k)) /\ Cardinality(Paid(k)) \in Nat
         /\ Open(k) # {} => Cardinality(Open(k)) > 0
         /\ Paid(k) # {} => Cardinality(Paid(k)) > 0
<1>1. Open(k) \subseteq Requests /\ Paid(k) \subseteq Requests
  BY DEF Open, Paid
<1>2. IsFiniteSet(Open(k)) /\ IsFiniteSet(Paid(k))
  BY <1>1, FS_Subset
<1> QED BY <1>2, FS_CardinalityType, FS_EmptySet

OpenCalls == [k \in Keys |-> Cardinality(Open(k))]
Money     == [k \in Keys |-> Cardinality(Paid(k))]

\* The steps of KeyedCalls, on the state of this module.
LEMMA KeyedSteps ==
  /\ Calls!Init <=> used = {} /\ Money = [k \in Keys |-> 0] /\ OpenCalls = [k \in Keys |-> 0]
  /\ UNCHANGED Calls!keyed <=> UNCHANGED <<used, Money, OpenCalls>>
  /\ \A k \in Keys :
       /\ k \notin used /\ OpenCalls' = [OpenCalls EXCEPT ![k] = @ + 1] /\ UNCHANGED <<used, Money>> => Calls!Next
       /\ OpenCalls[k] > 0 /\ OpenCalls' = [OpenCalls EXCEPT ![k] = @ - 1] /\ UNCHANGED used
            /\ Money' \in {Money, [Money EXCEPT ![k] = @ + 1]} => Calls!Next
       /\ Money[k] > 0 /\ used' = used \cup {k} /\ UNCHANGED <<Money, OpenCalls>> => Calls!Next
       /\ used' = used \ {k} /\ UNCHANGED <<Money, OpenCalls>> => Calls!Next
BY DEF Calls!Init, Calls!keyed, Calls!Next, Calls!Admit, Calls!Refuse, Calls!Leave, Calls!Move, Calls!Mark,
       Calls!Expire, Money, OpenCalls, Open, Paid, Admitted

\* A request that stays on one side of the door leaves the open calls as they are.
LEMMA OpenSame ==
  ASSUME NEW r \in Requests, Others(r), pc[r] \in Admitted <=> pc'[r] \in Admitted
  PROVE  OpenCalls' = OpenCalls
<1>1. \A k \in Keys : Open(k)' = Open(k)
  BY DEF Open, Others
<1> QED BY <1>1 DEF OpenCalls

\* A request that enters or leaves is one more open call, or one less.
LEMMA OpenMoves ==
  ASSUME NEW r \in Requests, Others(r), applied \subseteq Requests
  PROVE  /\ pc[r] \notin Admitted /\ pc'[r] \in Admitted =>
              OpenCalls' = [OpenCalls EXCEPT ![Key[r]] = @ + 1]
         /\ pc[r] \in Admitted /\ pc'[r] \notin Admitted =>
              OpenCalls' = [OpenCalls EXCEPT ![Key[r]] = @ - 1] /\ OpenCalls[Key[r]] > 0
<1>0. Key[r] \in Keys
  OBVIOUS
<1>1. \A k \in Keys : k # Key[r] => Open(k)' = Open(k)
  BY DEF Open, Others
<1>2. ASSUME pc[r] \notin Admitted, pc'[r] \in Admitted
      PROVE  Cardinality(Open(Key[r])') = Cardinality(Open(Key[r])) + 1
  <2>1. Open(Key[r])' = Open(Key[r]) \cup {r} /\ r \notin Open(Key[r])
    BY <1>2 DEF Open, Others
  <2> QED BY <2>1, KeyCounts, FS_AddElement
<1>3. ASSUME pc[r] \in Admitted, pc'[r] \notin Admitted
      PROVE  /\ Cardinality(Open(Key[r])') = Cardinality(Open(Key[r])) - 1
             /\ Cardinality(Open(Key[r])) > 0
  <2>1. Open(Key[r])' = Open(Key[r]) \ {r} /\ r \in Open(Key[r])
    BY <1>3 DEF Open, Others
  <2>2. Open(Key[r]) # {} /\ IsFiniteSet(Open(Key[r]))
    BY <2>1, KeyCounts
  <2>3. Cardinality(Open(Key[r])) > 0
    BY <2>2, KeyCounts
  <2>4. ASSUME NEW S, NEW T, T = S \ {r}, r \in S, IsFiniteSet(S) PROVE Cardinality(T) = Cardinality(S) - 1
    BY <2>4, FS_RemoveElement
  <2>5. Cardinality(Open(Key[r])') = Cardinality(Open(Key[r])) - 1
    BY <2>1, <2>2, <2>4
  <2> QED BY <2>3, <2>5
<1> QED BY <1>0, <1>1, <1>2, <1>3 DEF OpenCalls

\* A commit is one more movement under its key.
LEMMA MoneyMoves ==
  ASSUME applied \subseteq Requests, NEW r \in Requests \ applied, applied' = applied \cup {r}
  PROVE  Money' = [Money EXCEPT ![Key[r]] = @ + 1]
<1>1. \A k \in Keys : k # Key[r] => Paid(k)' = Paid(k)
  BY DEF Paid
<1>2. Paid(Key[r])' = Paid(Key[r]) \cup {r} /\ r \notin Paid(Key[r])
  BY DEF Paid
<1>3. Cardinality(Paid(Key[r])') = Cardinality(Paid(Key[r])) + 1
  BY <1>2, KeyCounts, FS_AddElement
<1> QED BY <1>1, <1>3 DEF Money

\* What the wallet service does under a key is what KeyedCalls says: calls are
\* admitted until the key is used, and it is used only for money that moved.
THEOREM WalletCallsAreKeyed == Spec => KeyDiscipline
<1> USE DEF Admitted
<1>1. Init => Calls!Init
  <2> SUFFICES ASSUME Init PROVE Calls!Init
    OBVIOUS
  <2>1. \A k : Open(k) = {} /\ Paid(k) = {}
    BY DEF Init, Open, Paid
  <2>2. Money = [k \in Keys |-> 0] /\ OpenCalls = [k \in Keys |-> 0]
    BY <2>1, FS_EmptySet DEF Money, OpenCalls
  <2> QED BY <2>2, KeyedSteps DEF Init
<1>2. TypeOK /\ RowInv /\ AnswerInv /\ [Next]_vars => [Calls!Next]_(Calls!keyed)
  <2> SUFFICES ASSUME TypeOK, RowInv, AnswerInv, [Next]_vars
               PROVE  Calls!Next \/ UNCHANGED Calls!keyed
    OBVIOUS
  <2>0. applied \subseteq Requests
    BY DEF TypeOK, StoreOK
  <2>m. UNCHANGED applied => UNCHANGED Money
    BY DEF Money, Paid
  <2>1. ASSUME NEW r \in Requests, Others(r), Admits(r) PROVE Calls!Next
    BY <2>0, <2>1, <2>m, OpenMoves, KeyedSteps DEF Admits
  <2>2. ASSUME NEW r \in Requests, Others(r), Refuses(r) PROVE Calls!Next
    BY <2>0, <2>2, <2>m, OpenMoves, KeyedSteps DEF Refuses
  <2>3. ASSUME NEW r \in Requests, Others(r), Pays(r) PROVE Calls!Next
    <3>1. r \notin applied
      BY <2>3 DEF Pays, RowInv, CommittedIsOver
    <3> QED BY <2>0, <2>3, <3>1, OpenMoves, MoneyMoves, KeyedSteps DEF Pays
  <2>4. ASSUME NEW r \in Requests, Others(r), Marks(r) PROVE Calls!Next
    <3>1. r \in Paid(Key[r])
      BY <2>4 DEF Marks, AnswerInv, Reported, Paid
    <3>2. Money[Key[r]] > 0
      BY <2>0, <3>1, KeyCounts DEF Money
    <3> QED BY <2>4, <2>m, <3>2, OpenSame, KeyedSteps DEF Marks
  <2>5. ASSUME NEW r \in Requests, Others(r), Forgets(r) \/ Goes(r) PROVE UNCHANGED Calls!keyed
    BY <2>5, <2>m, OpenSame, KeyedSteps DEF Forgets, Goes
  <2>6. ASSUME UNCHANGED <<store, calls>> PROVE UNCHANGED <<Money, OpenCalls>>
    BY <2>6, <2>m DEF store, calls, OpenCalls, Open
  <2>7. ASSUME NEW k \in Keys, UNCHANGED <<store, calls>>, Lapses(k) PROVE Calls!Next
    BY <2>6, <2>7, KeyedSteps DEF Lapses
  <2> QED BY <2>1, <2>2, <2>3, <2>4, <2>5, <2>6, <2>7, KeyStep, KeyedSteps
<1> QED BY <1>1, <1>2, WalletTypeCorrect, RowInvariant, AnswerInvariant, PTL DEF Spec, KeyDiscipline, Calls!Spec

-----------------------------------------------------------------------------
(* Retries.                                                                *)

\* Before says which requests are over when one is sent, by the chain of After.
Follows(Before) ==
  /\ \A r \in Requests : After[r] = NoRequest => Before[r] = {}
  /\ \A r \in Requests : After[r] # NoRequest => Before[r] \subseteq {After[r]} \cup Before[After[r]]
  /\ \A r, s \in Requests : r # s /\ Key[r] = Key[s] => r \in Before[s] \/ s \in Before[r]

\* Clients send a request under the same key only when the last one is over.
RetriesInTurn == \E Before \in [Requests -> SUBSET Requests] : Follows(Before)

InTurn(Before) == \A r \in Requests : pc[r] # "check" => \A s \in Before[r] : pc[s] = "done"

\* Every step keeps a retry behind what it retries.
LEMMA InTurnStep ==
  ASSUME TypeOK, NEW Before \in [Requests -> SUBSET Requests], Follows(Before), InTurn(Before), [Next]_vars
  PROVE  InTurn(Before)'
<1> USE DEF store, redis, calls
<1>0. pc \in [Requests -> Phases]
  BY DEF TypeOK, CallsOK, PcOK
<1>1. ASSUME NEW r \in Requests, pc[r] = "done" PROVE pc'[r] = "done"
  <2>1. ASSUME NEW s \in Requests, Others(s),
               Admits(s) \/ Refuses(s) \/ Pays(s) \/ Marks(s) \/ Forgets(s) \/ Goes(s)
        PROVE  pc'[r] = "done"
    BY <1>1, <2>1 DEF Others, Admits, Refuses, Pays, Marks, Forgets, Goes, Admitted
  <2> QED BY <1>1, <2>1, KeyStep
<1>2. ASSUME NEW r \in Requests, pc[r] = "check", pc'[r] # "check" PROVE Sent(r)
  <2>1. Acts(r)
    BY <1>2, OneActs DEF Others, Looks
  <2>2. CheckIdempotency(r) => Sent(r)
    BY DEF CheckIdempotency
  <2>3. CASE ~CheckIdempotency(r)
    <3>1. ~(AcquireLock(r) \/ BeginTx(r) \/ GetWalletForUpdate(r) \/ Decide(r) \/ ReadBack(r) \/ Commit(r))
      BY <1>2 DEF AcquireLock, BeginTx, GetWalletForUpdate, WantsRow, Decide, ReadBack, Commit
    <3>2. ~(AbortDeadlocked(r) \/ TxError(r) \/ CommitUnacknowledged(r) \/ Abandon(r))
      BY <1>2 DEF AbortDeadlocked, InDeadlock, WaitsFor, WantsRow, TxError, CommitUnacknowledged, Abandon
    <3>3. ~(SetIdempotency(r) \/ InvalidateWalletBalance(r) \/ ReleaseLock(r))
      BY <1>2 DEF SetIdempotency, InvalidateWalletBalance, ReleaseLock
    <3> QED BY <2>1, <2>3, <3>1, <3>2, <3>3 DEF Acts, Step
  <2> QED BY <2>2, <2>3
<1>3. ASSUME NEW r \in Requests, pc'[r] # "check", NEW s \in Before[r] PROVE pc'[s] = "done"
  <2>1. CASE pc[r] # "check"
    BY <1>1, <1>3, <2>1 DEF InTurn
  <2>2. CASE pc[r] = "check"
    <3>1. After[r] # NoRequest /\ After[r] \in Requests /\ pc[After[r]] = "done"
      BY <1>2, <1>3, <2>2 DEF Follows, Sent
    <3>2. s = After[r] \/ s \in Before[After[r]]
      BY <1>3, <3>1 DEF Follows
    <3>3. pc[s] = "done"
      BY <3>1, <3>2 DEF InTurn
    <3> QED BY <1>1, <3>3
  <2> QED BY <2>1, <2>2
<1> QED BY <1>3 DEF InTurn

\* As long as a key is not used, what was paid under it beyond the faults is about
\* to be marked; and nothing beyond the faults is paid when a request is admitted.
OncePerFault(k) ==
  /\ Cardinality(Paid(k)) <= 1 + faults
  /\ \/ Cardinality(Paid(k)) <= faults
     \/ k \in used
     \/ \E r \in Requests : Key[r] = k /\ pc[r] = "mark"
  /\ \A r \in Requests : Key[r] = k /\ pc[r] \in Admitted => Cardinality(Paid(k)) <= faults

\* Every step keeps the count of a key: one movement, and one more per fault.
LEMMA OncePerFaultStep ==
  ASSUME TypeOK, RowInv, NEW Before \in [Requests -> SUBSET Requests], Follows(Before), InTurn(Before)',
         NEW k \in Keys, OncePerFault(k), [Next]_vars
  PROVE  OncePerFault(k)'
<1> USE DEF Admitted
<1>0. /\ faults \in Nat /\ applied \subseteq Requests
      /\ Cardinality(Paid(k)) \in Nat /\ IsFiniteSet(Paid(k))
  BY KeyCounts DEF TypeOK, StoreOK
<1> DEFINE n == Cardinality(Paid(k))
<1>1. UNCHANGED applied => n' = n
  BY DEF Paid
<1>2. ASSUME NEW r \in Requests, NEW s \in Requests, r # s, Key[r] = k, Key[s] = k
      PROVE  pc'[r] \in {"check", "done"} \/ pc'[s] \in {"check", "done"}
  BY <1>2 DEF Follows, InTurn
<1>3. ASSUME NEW r \in Requests, Others(r), Key[r] # k,
             Admits(r) \/ Refuses(r) \/ Pays(r) \/ Marks(r) \/ Forgets(r) \/ Goes(r)
      PROVE  OncePerFault(k)'
  <2>1. faults' \in {faults, faults + 1} /\ (k \in used => k \in used')
    BY <1>0, <1>3 DEF Admits, Refuses, Pays, Marks, Forgets, Goes
  <2>2. Paid(k)' = Paid(k)
    BY <1>3 DEF Admits, Refuses, Pays, Marks, Forgets, Goes, Paid
  <2>3. n' = n /\ n \in Nat
    BY <1>0, <2>2
  <2>4. \A s \in Requests : Key[s] = k => pc'[s] = pc[s]
    BY <1>3 DEF Others
  <2> HIDE DEF n
  <2> QED BY <1>0, <2>1, <2>3, <2>4 DEF OncePerFault, n
<1>4. ASSUME NEW r \in Requests, Others(r), Key[r] = k,
             Admits(r) \/ Refuses(r) \/ Pays(r) \/ Marks(r) \/ Forgets(r) \/ Goes(r)
      PROVE  OncePerFault(k)'
  <2>0. \A s \in Requests : s # r => pc'[s] = pc[s]
    BY <1>4 DEF Others
  <2>s. /\ n <= 1 + faults
        /\ n <= faults \/ k \in used \/ \E s \in Requests : Key[s] = k /\ pc[s] = "mark"
        /\ \A s \in Requests : Key[s] = k /\ pc[s] \in Admitted => n <= faults
    BY DEF OncePerFault
  <2>g. ASSUME /\ n' <= 1 + faults'
               /\ n' <= faults' \/ k \in used' \/ \E s \in Requests : Key[s] = k /\ pc'[s] = "mark"
               /\ \A s \in Requests : Key[s] = k /\ pc'[s] \in Admitted => n' <= faults'
        PROVE  OncePerFault(k)'
    BY <2>g DEF OncePerFault
  <2> HIDE DEF n
  <2>1. CASE Admits(r)
    <3>1. ~ \E s \in Requests : Key[s] = k /\ pc[s] = "mark"
      BY <1>2, <1>4, <2>0, <2>1 DEF Admits
    <3>2. n <= faults
      BY <1>4, <2>1, <2>s, <3>1 DEF Admits
    <3> QED BY <1>0, <1>1, <2>1, <2>g, <3>2 DEF Admits, n
  <2>2. CASE Refuses(r) \/ Goes(r)
    <3>1. n' = n /\ faults' \in {faults, faults + 1} /\ used' = used /\ n \in Nat
      BY <1>0, <1>1, <2>2 DEF Refuses, Goes, n
    <3>2. /\ pc[r] # "mark" /\ pc'[r] # "mark"
          /\ pc'[r] \in Admitted => pc[r] \in Admitted
      BY <2>2 DEF Refuses, Goes
    <3>3. \A s \in Requests : /\ pc[s] = "mark" <=> pc'[s] = "mark"
                              /\ pc'[s] \in Admitted => pc[s] \in Admitted
      BY <2>0, <3>2
    <3>a. n <= 1 + faults
      BY <2>s
    <3>b. n' = n /\ n \in Nat /\ faults \in Nat /\ (faults' = faults \/ faults' = faults + 1)
      BY <1>0, <3>1
    <3>4. /\ n' <= 1 + faults'
          /\ n <= faults => n' <= faults'
      BY <3>a, <3>b
    <3>5. n' <= faults' \/ k \in used' \/ \E s \in Requests : Key[s] = k /\ pc'[s] = "mark"
      <4>1. CASE n <= faults
        BY <3>4, <4>1
      <4>2. CASE k \in used
        BY <3>1, <4>2
      <4>3. CASE \E s \in Requests : Key[s] = k /\ pc[s] = "mark"
        BY <3>3, <4>3
      <4> QED BY <2>s, <4>1, <4>2, <4>3
    <3>6. \A s \in Requests : Key[s] = k /\ pc'[s] \in Admitted => n' <= faults'
      <4> SUFFICES ASSUME NEW s \in Requests, Key[s] = k, pc'[s] \in Admitted PROVE n' <= faults'
        OBVIOUS
      <4>1. pc[s] \in Admitted
        BY <3>3
      <4>2. n <= faults
        BY <2>s, <4>1
      <4> QED BY <3>4, <4>2
    <3> QED BY <2>g, <3>4, <3>5, <3>6
  <2>3. CASE Pays(r)
    <3>1. r \notin applied
      BY <2>3 DEF Pays, RowInv, CommittedIsOver
    <3>2. Paid(k)' = Paid(k) \cup {r} /\ r \notin Paid(k)
      BY <1>4, <2>3, <3>1 DEF Paid, Pays
    <3>3. n' = n + 1 /\ n \in Nat
      BY <1>0, <3>2, FS_AddElement DEF n
    <3>4. n <= faults
      BY <1>4, <2>3, <2>s DEF Pays
    <3>5. \A s \in Requests : Key[s] = k /\ pc'[s] \in Admitted => pc'[r] = "release" /\ faults' = faults + 1
      BY <1>2, <1>4, <2>3 DEF Pays
    <3> QED BY <1>0, <1>4, <2>3, <2>g, <3>3, <3>4, <3>5 DEF Pays
  <2>4. CASE Marks(r)
    <3>1. n' = n /\ faults' = faults /\ k \in used'
      BY <1>1, <1>4, <2>4 DEF Marks, n
    <3>2. \A s \in Requests : pc'[s] \in Admitted => pc[s] \in Admitted
      BY <2>0, <2>4 DEF Marks
    <3> QED BY <2>s, <2>g, <3>1, <3>2
  <2>5. CASE Forgets(r)
    <3>1. n' = n /\ faults' = faults + 1 /\ n \in Nat
      BY <1>0, <1>1, <2>5 DEF Forgets, n
    <3> QED BY <1>0, <2>s, <2>g, <3>1
  <2> QED BY <1>4, <2>1, <2>2, <2>3, <2>4, <2>5
<1>5. ASSUME UNCHANGED <<store, calls>>,
             \/ UNCHANGED used /\ faults' \in {faults, faults + 1}
             \/ \E l \in Keys : Lapses(l)
      PROVE  OncePerFault(k)'
  <2>1. n' = n /\ pc' = pc /\ n \in Nat
    BY <1>0, <1>1, <1>5 DEF store, calls
  <2>2. \/ used' = used /\ faults' \in {faults, faults + 1}
        \/ faults' = faults + 1
    BY <1>5 DEF Lapses
  <2> HIDE DEF n
  <2> QED BY <1>0, <2>1, <2>2 DEF OncePerFault, n
<1> QED BY <1>3, <1>4, <1>5, KeyStep

\* A client that retries a request in turn has it applied once, and once more per
\* fault, whatever the other clients do.
THEOREM RetriesAreAppliedOnce ==
  ASSUME RetriesInTurn
  PROVE  Spec => []RetryAppliedOnce
<1>1. PICK Before \in [Requests -> SUBSET Requests] : Follows(Before)
  BY DEF RetriesInTurn
<1> DEFINE Inv == InTurn(Before) /\ \A k \in Keys : OncePerFault(k)
<1>2. Init => Inv
  <2> SUFFICES ASSUME Init PROVE Inv
    OBVIOUS
  <2>1. InTurn(Before)
    BY DEF Init, InTurn
  <2>2. ASSUME NEW k \in Keys PROVE OncePerFault(k)
    <3>1. Paid(k) = {} /\ faults = 0
      BY DEF Init, Paid
    <3>2. Cardinality(Paid(k)) = 0
      BY <3>1, FS_EmptySet
    <3> QED BY <3>1, <3>2 DEF OncePerFault
  <2> QED BY <2>1, <2>2
<1>3. TypeOK /\ RowInv /\ Inv /\ [Next]_vars => Inv'
  BY <1>1, InTurnStep, OncePerFaultStep
<1>4. Inv => RetryAppliedOnce
  BY DEF OncePerFault, RetryAppliedOnce, Paid
<1> QED BY <1>2, <1>3, <1>4, WalletTypeCorrect, RowInvariant, PTL DEF Spec
=============================================================================
