----------------------------- MODULE WalletCreation -----------------------------
(***************************************************************************)
(* CreateWallet of internal/wallet: a look for a wallet of the user in the *)
(* currency, then a transaction that inserts the wallet and saves the      *)
(* event wallet.created in the outbox.  An account is <<user, currency>>;  *)
(* UNIQUE (user_id, currency) makes a second INSERT wait for the open      *)
(* transaction of the first and fail once that has committed.              *)
(***************************************************************************)
EXTENDS Naturals, FiniteSets

CONSTANTS Creates,      \* calls of CreateWallet
          Account,      \* of each call
          Accounts,
          NoCreate

ASSUME WalletCreationConstants ==
  /\ NoCreate \notin Creates
  /\ Account \in [Creates -> Accounts]

VARIABLES wallets,      \* committed rows
          inserting,    \* the open transaction that inserted an account's row
          announced,    \* committed wallet.created events
          phase, result   \* the calls

creation == <<wallets, inserting, announced, phase, result>>

CreationTypeOK ==
  /\ wallets \subseteq Accounts
  /\ inserting \in [Accounts -> Creates \cup {NoCreate}]
  /\ \A a \in Accounts, r \in Creates :
       inserting[a] = r => phase[r] = "commit" /\ Account[r] = a
  /\ announced \in [Accounts -> Nat]
  /\ phase \in [Creates -> {"start", "find", "insert", "commit", "done"}]
  /\ result \in [Creates -> {"none", "ok", "error", "denied"}]

CreationInit ==
  /\ wallets = {}
  /\ inserting = [a \in Accounts |-> NoCreate]
  /\ announced = [a \in Accounts |-> 0]
  /\ phase = [r \in Creates |-> "start"]
  /\ result = [r \in Creates |-> "none"]

Advance(r, l) == phase' = [phase EXCEPT ![r] = l] /\ UNCHANGED result

\* Variants named ...Bug are plausible mistakes in the definition that follows
\* them; nothing uses them, they serve to show what a property depends on.
\* Here: the transaction is left open.
FinishBug(r, o) ==
  /\ phase' = [phase EXCEPT ![r] = "done"]
  /\ result' = [result EXCEPT ![r] = o]
  /\ UNCHANGED inserting

\* An open transaction of the call is rolled back.
Finish(r, o) ==
  /\ phase' = [phase EXCEPT ![r] = "done"]
  /\ result' = [result EXCEPT ![r] = o]
  /\ inserting' = [a \in Accounts |-> IF inserting[a] = r THEN NoCreate ELSE inserting[a]]

Admit(r, allowed) ==
  /\ phase[r] = "start"
  /\ IF allowed THEN Advance(r, "find") /\ UNCHANGED inserting ELSE Finish(r, "denied")
  /\ UNCHANGED <<wallets, announced>>

\* GetWalletByUserAndCurrency.
FindWallet(r) ==
  /\ phase[r] = "find"
  /\ IF Account[r] \in wallets
     THEN Finish(r, "error")
     ELSE Advance(r, "insert") /\ UNCHANGED inserting
  /\ UNCHANGED <<wallets, announced>>

\* Its error is not looked at: no wallet was found.
FindFails(r) ==
  /\ phase[r] = "find"
  /\ Advance(r, "insert")
  /\ UNCHANGED <<wallets, inserting, announced>>

\* The event is saved before the transaction begins.
InsertWalletBug(r) ==
  /\ phase[r] = "insert" /\ inserting[Account[r]] = NoCreate
  /\ IF Account[r] \in wallets
     THEN Finish(r, "error") /\ UNCHANGED announced
     ELSE /\ inserting' = [inserting EXCEPT ![Account[r]] = r]
          /\ announced' = [announced EXCEPT ![Account[r]] = @ + 1]
          /\ Advance(r, "commit")
  /\ UNCHANGED wallets

InsertWallet(r) ==
  /\ phase[r] = "insert" /\ inserting[Account[r]] = NoCreate
  /\ IF Account[r] \in wallets
     THEN Finish(r, "error")
     ELSE /\ inserting' = [inserting EXCEPT ![Account[r]] = r]
          /\ Advance(r, "commit")
  /\ UNCHANGED <<wallets, announced>>

CommitRow(r) ==
  /\ phase[r] = "commit"
  /\ wallets' = wallets \cup {Account[r]}
  /\ announced' = [announced EXCEPT ![Account[r]] = @ + 1]

CommitWallet(r) == CommitRow(r) /\ Finish(r, "ok")

\* The answer of COMMIT is lost.
CommitLost(r) == CommitRow(r) /\ Finish(r, "error")

\* A statement fails, the process dies or the client hangs up.
WalletFails(r) ==
  /\ phase[r] \in {"find", "insert", "commit"}
  /\ Finish(r, "error")
  /\ UNCHANGED <<wallets, announced>>

CreateStep(r) == FindWallet(r) \/ InsertWallet(r) \/ CommitWallet(r)

CreateFault(r) == FindFails(r) \/ CommitLost(r) \/ WalletFails(r)

=============================================================================
