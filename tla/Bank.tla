--------------------------------- MODULE Bank ---------------------------------
(***************************************************************************)
(* What the wallet service promises about money: a request takes effect at *)
(* one instant or not at all, at most once, and never overdraws a wallet.  *)
(***************************************************************************)
EXTENDS Integers

CONSTANTS Wallets, Requests,
          NoWallet,           \* the missing side of a deposit or a withdrawal
          From, To, Amount,   \* the arguments of each request
          Opening             \* the balances the system starts from

VARIABLES balance, applied

bank == <<balance, applied>>

Delta(r, w) == (IF w = To[r] THEN Amount[r] ELSE 0) - (IF w = From[r] THEN Amount[r] ELSE 0)

Init == balance = Opening /\ applied = {}

Apply(r) ==
  /\ r \notin applied
  /\ From[r] # NoWallet => balance[From[r]] >= Amount[r]
  /\ balance' = [w \in Wallets |-> balance[w] + Delta(r, w)]
  /\ applied' = applied \cup {r}

Next == \E r \in Requests : Apply(r)

Spec == Init /\ [][Next]_bank
=============================================================================
