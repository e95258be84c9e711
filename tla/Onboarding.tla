------------------------------- MODULE Onboarding -------------------------------
(***************************************************************************)
(* From registration to the first wallet: the auth service issues tokens,  *)
(* and CreateWallet of the wallet service takes the user from the access   *)
(* token the call comes with.  The two services share a secret, and no     *)
(* data: no foreign key ties wallets.user_id to the table users.           *)
(***************************************************************************)
EXTENDS Auth, WalletCreation

CONSTANT Bearer   \* of each CreateWallet, the call whose access token it carries

ASSUME OnboardingConstants ==
  /\ Bearer \in [Creates -> Calls]
  /\ \A r \in Creates : Account[r][1] = Email[Bearer[r]]

vars == <<authVars, creation>>

TypeOK == AuthTypeOK /\ CreationTypeOK

Init == AuthInit /\ CreationInit

\* The client has its answer; JWTAuth lets it in or does not.
SendCreate(r) ==
  /\ got[Bearer[r]] # NoCall
  /\ Admit(r, Authenticated(Bearer[r]))
  /\ UNCHANGED authVars

Create(r) == SendCreate(r) \/ (CreateStep(r) /\ UNCHANGED authVars)

CreateFails(r) ==
  /\ CreateFault(r)
  /\ Fault
  /\ UNCHANGED <<accounts, clock, calls, marks>>

Next ==
  \/ AuthNext /\ UNCHANGED creation
  \/ \E r \in Creates : Create(r) \/ CreateFails(r)

Spec == Init /\ [][Next]_vars

\* Handlers run on; clients need not send what they could, but each does here.
FairSpec ==
  /\ Spec
  /\ \A c \in Calls : WF_vars(AuthStep(c) /\ UNCHANGED creation)
  /\ \A r \in Creates : WF_vars(Create(r))

-----------------------------------------------------------------------------
\* One wallet per account, whoever asks for it how often and at once: it is
\* announced once, and not before it is there, and one call at most is told
\* that it created it.  Without a fault a call that fails finds it there.
WalletCreatedOnce ==
  /\ \A a \in Accounts :
       /\ announced[a] = IF a \in wallets THEN 1 ELSE 0
       /\ Cardinality({r \in Creates : Account[r] = a /\ result[r] = "ok"}) <= announced[a]
  /\ faults = 0 => \A r \in Creates : result[r] = "error" => Account[r] \in wallets

\* Every CreateWallet that has its token is answered: the wait for another's
\* INSERT ends, by its commit, its failure or the death of its process.
AllAnswered == \A r \in Creates : got[Bearer[r]] # NoCall ~> phase[r] = "done"
=============================================================================
