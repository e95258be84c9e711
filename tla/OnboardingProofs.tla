---------------------------- MODULE OnboardingProofs ----------------------------
(***************************************************************************)
(* Theorems about registration, tokens and the creation of wallets, for    *)
(* any number of calls, accounts and faults and any lifetimes of tokens.   *)
(***************************************************************************)
EXTENDS Onboarding, FiniteSetTheorems, TLAPS

-----------------------------------------------------------------------------
(* The invariant of the auth service.                                      *)

\* Where a call can be, by what it is.
CallShape ==
  \A c \in Calls :
    /\ outcome[c] = "none" <=> pc[c] # "done"
    /\ pc[c] = "create" => Op[c] = "register"
    /\ pc[c] = "revoke" => Op[c] = "refresh"
    /\ Op[c] = "refresh" /\ pc[c] # "start" => Presented(c) # NoCall

\* Each answer has a token of its own.
TokensDistinct ==
  /\ \A c \in Calls : got[c] # NoCall => tokens[got[c]] # "absent"
  /\ \A c, d \in Calls : got[c] # NoCall /\ got[c] = got[d] => c = d

\* A refresh revokes its token before it issues another.
UsedIsRevoked ==
  faults = 0 =>
    \A c \in Calls :
      Op[c] = "refresh" /\ (pc[c] = "issue" \/ outcome[c] = "ok")
        => tokens[Presented(c)] = "revoked"

\* Only a refresh revokes a token.
RevokedByUse ==
  \A t \in Tokens :
    tokens[t] = "revoked" =>
      \E d \in Calls : Op[d] = "refresh" /\ pc[d] \in {"issue", "done"} /\ Presented(d) = t

LateIsOver ==
  faults = 0 => \A c \in late : pc[c] = "done" /\ outcome[c] # "ok"

AuthInv ==
  /\ AuthTypeOK
  /\ CallShape
  /\ TokensDistinct
  /\ UsedIsRevoked
  /\ RevokedByUse
  /\ LateIsOver
  /\ RefusedForAReason

authState == <<accounts, clock, calls, marks>>

USE AuthConstants DEF accounts, calls, marks

-----------------------------------------------------------------------------
(* What a call does to the state it shares with the others.                *)

\* What IssueToken does with a token of second n.
Issued(c, n) ==
  /\ pc[c] = "issue" /\ pc' = [pc EXCEPT ![c] = "done"]
  /\ UNCHANGED <<users, clock, found, late, forked>>
  /\ since' = [since EXCEPT ![c] = 0]
  /\ access' = access \/ \E s \in 0..clock : access' = [access EXCEPT ![c] = s]
  /\ \/ /\ tokens[<<Email[c], n>>] = "absent"
        /\ tokens' = [tokens EXCEPT ![<<Email[c], n>>] = "live"]
        /\ \E x \in Nat : expires' = [expires EXCEPT ![<<Email[c], n>>] = x]
        /\ UNCHANGED collided
        /\ \/ /\ outcome' = [outcome EXCEPT ![c] = "ok"]
              /\ got' = [got EXCEPT ![c] = <<Email[c], n>>]
              /\ NoFault
           \/ outcome' = [outcome EXCEPT ![c] = "error"] /\ UNCHANGED got /\ Fault
     \/ /\ UNCHANGED <<tokens, expires, got>>
        /\ outcome' = [outcome EXCEPT ![c] = "error"]
        /\ \/ collided' = collided \cup {c} /\ NoFault
           \/ UNCHANGED collided /\ Fault

\* IssueToken issues a token of a second gone by or of this one.
LEMMA IssueStep ==
  ASSUME AuthTypeOK, NEW c \in Calls, IssueToken(c)
  PROVE  \E n \in 0..clock : <<Email[c], n>> \in Tokens /\ Issued(c, n)
<1>0. /\ clock \in Nat /\ clock <= MaxTime /\ since[c] \in 0..clock
      /\ Email[c] \in Emails /\ RefreshTTL \in Nat
  BY DEF AuthTypeOK
<1>1. \A n \in since[c]..clock : n \in 0..clock /\ <<Email[c], n>> \in Tokens
  BY <1>0 DEF Tokens
<1>2. ASSUME NEW n \in since[c]..clock, Insert(<<Email[c], n>>)
      PROVE  /\ tokens[<<Email[c], n>>] = "absent"
             /\ tokens' = [tokens EXCEPT ![<<Email[c], n>>] = "live"]
             /\ \E x \in Nat : expires' = [expires EXCEPT ![<<Email[c], n>>] = x]
  <2>1. PICK s \in n..clock : expires' = [expires EXCEPT ![<<Email[c], n>>] = s + RefreshTTL]
    BY <1>2 DEF Insert
  <2>2. s + RefreshTTL \in Nat
    BY <1>0
  <2> QED BY <1>2, <2>1, <2>2 DEF Insert
<1>3. ASSUME NEW n \in since[c]..clock, Answer(c, <<Email[c], n>>)
      PROVE  /\ access' = access \/ \E s \in 0..clock : access' = [access EXCEPT ![c] = s]
             /\ Leave(c, "ok")
             /\ got' = [got EXCEPT ![c] = <<Email[c], n>>]
  <2>1. \A s \in since[c]..n : s \in 0..clock
    BY <1>0
  <2> QED BY <1>3, <2>1 DEF Answer, GenerateToken
<1>4. ASSUME NEW n \in since[c]..clock,
             \/ Insert(<<Email[c], n>>) /\ Answer(c, <<Email[c], n>>) /\ NoFault /\ UNCHANGED collided
             \/ Insert(<<Email[c], n>>) /\ End(c, "error") /\ Fault /\ UNCHANGED collided
             \/ /\ End(c, "error") /\ collided' = collided \cup {c}
                /\ UNCHANGED <<tokens, expires>> /\ NoFault
             \/ End(c, "error") /\ UNCHANGED <<tokens, expires, collided>> /\ Fault
      PROVE  Issued(c, n)
  <2>1. /\ pc[c] = "issue" /\ UNCHANGED <<users, clock, found, late, forked>>
    BY DEF IssueToken
  <2>2. 0 \in 0..clock
    BY <1>0
  <2>3. End(c, "error") =>
          /\ access' = access \/ \E s \in 0..clock : access' = [access EXCEPT ![c] = s]
          /\ Leave(c, "error") /\ UNCHANGED got
    BY <2>2 DEF End
  <2>4. CASE Insert(<<Email[c], n>>) /\ Answer(c, <<Email[c], n>>) /\ NoFault /\ UNCHANGED collided
    BY <1>2, <1>3, <2>1, <2>4 DEF Issued, Leave
  <2>5. CASE Insert(<<Email[c], n>>) /\ End(c, "error") /\ Fault /\ UNCHANGED collided
    BY <1>2, <2>1, <2>3, <2>5 DEF Issued, Leave
  <2>6. CASE /\ End(c, "error") /\ collided' = collided \cup {c}
             /\ UNCHANGED <<tokens, expires>> /\ NoFault
    BY <2>1, <2>3, <2>6 DEF Issued, Leave
  <2>7. CASE End(c, "error") /\ UNCHANGED <<tokens, expires, collided>> /\ Fault
    BY <2>1, <2>3, <2>7 DEF Issued, Leave
  <2> QED BY <1>4, <2>4, <2>5, <2>6, <2>7
<1>5. \E n \in since[c]..clock :
        \/ Insert(<<Email[c], n>>) /\ Answer(c, <<Email[c], n>>) /\ NoFault /\ UNCHANGED collided
        \/ Insert(<<Email[c], n>>) /\ End(c, "error") /\ Fault /\ UNCHANGED collided
        \/ /\ End(c, "error") /\ collided' = collided \cup {c}
           /\ UNCHANGED <<tokens, expires>> /\ NoFault
        \/ End(c, "error") /\ UNCHANGED <<tokens, expires, collided>> /\ Fault
  <2>1. clock \in since[c]..clock
    BY <1>0
  <2> QED BY <2>1 DEF IssueToken
<1> QED BY <1>1, <1>4, <1>5

\* The steps of one call, as far as the others can tell: it moves on and is
\* answered once.
LEMMA CallStep ==
  ASSUME AuthTypeOK, CallShape, NEW c \in Calls, AuthStep(c) \/ Abandon(c)
  PROVE  /\ pc[c] # "done"
         /\ faults' = 0 => faults = 0
         /\ clock' = clock
         /\ \A d \in Calls : got[d] # NoCall => got'[d] = got[d]
         /\ \A d \in Calls \ {c} :
              /\ pc'[d] = pc[d] /\ outcome'[d] = outcome[d]
              /\ got'[d] = got[d] /\ found'[d] = found[d]
         /\ \A e \in Emails : users[e] # NoUser => users'[e] # NoUser
         /\ \A t \in Tokens : /\ tokens[t] # "absent" => tokens'[t] # "absent"
                              /\ tokens[t] = "revoked" => tokens'[t] = "revoked"
                              /\ tokens[t] # "absent" => expires'[t] = expires[t]
         /\ collided \subseteq collided' /\ late' \subseteq late \cup {c}
<1> USE DEF AuthTypeOK, Goto, MoveOn, End, Leave, Insert, Answer, Fault, NoFault
<1>1. CASE GetUserForRegister(c)
  BY <1>1 DEF GetUserForRegister, Sent
<1>2. CASE CreateUser(c)
  BY <1>2 DEF CreateUser
<1>3. CASE GetUserForLogin(c)
  BY <1>3 DEF GetUserForLogin, Sent
<1>4. CASE IssueToken(c)
  <2>1. PICK n \in 0..clock : <<Email[c], n>> \in Tokens /\ Issued(c, n)
    BY <1>4, IssueStep
  <2> DEFINE t == <<Email[c], n>>
  <2>2. /\ pc[c] = "issue" /\ pc' = [pc EXCEPT ![c] = "done"]
        /\ UNCHANGED <<users, clock, found, late, forked>>
        /\ \/ /\ tokens[t] = "absent" /\ tokens' = [tokens EXCEPT ![t] = "live"]
              /\ \E x \in Nat : expires' = [expires EXCEPT ![t] = x]
           \/ UNCHANGED <<tokens, expires>>
        /\ collided' = collided \/ collided' = collided \cup {c}
        /\ \E o : outcome' = [outcome EXCEPT ![c] = o]
        /\ got' = got \/ got' = [got EXCEPT ![c] = t]
        /\ faults' = faults \/ faults' = faults + 1
    BY <2>1 DEF Issued
  <2> HIDE DEF t
  <2>3. \A x \in Tokens : /\ tokens[x] # "absent" => tokens'[x] # "absent"
                          /\ tokens[x] = "revoked" => tokens'[x] = "revoked"
                          /\ tokens[x] # "absent" => expires'[x] = expires[x]
    BY <2>2
  <2>4. got[c] = NoCall
    BY <2>2 DEF CallShape
  <2>5. \A d \in Calls : got[d] # NoCall => got'[d] = got[d]
    BY <2>2, <2>4
  <2>6. \A d \in Calls \ {c} : /\ pc'[d] = pc[d] /\ outcome'[d] = outcome[d]
                               /\ got'[d] = got[d] /\ found'[d] = found[d]
    BY <2>2
  <2> QED BY <2>2, <2>3, <2>5, <2>6
<1>5. CASE GetRefreshToken(c)
  BY <1>5 DEF GetRefreshToken, Present, Sent, NoteLate
<1>6. CASE RevokeRefreshToken(c)
  BY <1>6 DEF RevokeRefreshToken
<1>7. CASE Abandon(c)
  BY <1>7 DEF Abandon
<1> QED BY <1>1, <1>2, <1>3, <1>4, <1>5, <1>6, <1>7 DEF AuthStep

\* The types of the auth service are kept.
LEMMA AuthTypes ==
  ASSUME AuthTypeOK, CallShape, AuthNext
  PROVE  AuthTypeOK'
<1> USE DEF AuthTypeOK, Goto, MoveOn, End, Leave, Insert, Answer, Fault, NoFault
<1>0. CASE Tick
  BY <1>0 DEF Tick
<1> SUFFICES ASSUME NEW c \in Calls, AuthStep(c) \/ Abandon(c)
             PROVE  AuthTypeOK'
  BY <1>0 DEF AuthNext
<1>1. CASE GetUserForRegister(c)
  BY SMTT(30), <1>1 DEF GetUserForRegister, Sent, CallShape
<1>2. CASE CreateUser(c)
  BY <1>2 DEF CreateUser, CallShape
<1>3. CASE GetUserForLogin(c)
  BY <1>3 DEF GetUserForLogin, Sent, CallShape
<1>4. CASE IssueToken(c)
  <2>0. PICK n \in 0..clock : <<Email[c], n>> \in Tokens /\ Issued(c, n)
    BY <1>4, IssueStep
  <2> DEFINE t == <<Email[c], n>>
  <2>1. t \in Tokens /\ t # NoCall
    BY <2>0 DEF Tokens
  <2>2. pc[c] = "issue" /\ outcome[c] = "none"
    BY <2>0 DEF Issued, CallShape
  <2>3. /\ UNCHANGED <<users, clock, found, late, forked>>
        /\ tokens' = tokens \/ tokens' = [tokens EXCEPT ![t] = "live"]
        /\ expires' = expires \/ \E x \in Nat : expires' = [expires EXCEPT ![t] = x]
        /\ collided' = collided \/ collided' = collided \cup {c}
        /\ faults' \in 0..MaxFaults
    BY <2>0 DEF Issued
  <2>4. /\ pc' = [pc EXCEPT ![c] = "done"]
        /\ \/ outcome' = [outcome EXCEPT ![c] = "ok"] /\ got' = [got EXCEPT ![c] = t]
           \/ outcome' = [outcome EXCEPT ![c] = "error"] /\ got' = got
    BY <2>0 DEF Issued
  <2>t. /\ since' = [since EXCEPT ![c] = 0]
        /\ access' = access \/ \E s \in 0..clock : access' = [access EXCEPT ![c] = s]
    BY <2>0 DEF Issued
  <2> HIDE DEF t
  <2>5. \A d \in Calls : got'[d] # NoCall <=> outcome'[d] = "ok"
    BY <2>1, <2>2, <2>4
  <2>6. got' \in [Calls -> Tokens \cup {NoCall}]
    BY <2>1, <2>4
  <2>7. /\ pc' \in [Calls -> {"start", "create", "revoke", "issue", "done"}]
        /\ outcome' \in [Calls -> {"none", "ok", "error", "abandoned"}]
    BY <2>4
  <2>8. tokens' \in [Tokens -> {"absent", "live", "revoked"}] /\ expires' \in [Tokens -> Nat]
    BY <2>1, <2>3
  <2>9. /\ users' \in [Emails -> Passwords \cup {NoUser}] /\ clock' \in 0..MaxTime
        /\ found' \in [Calls -> Passwords \cup {NoUser}]
        /\ collided' \subseteq Calls /\ late' \subseteq Calls /\ forked' \subseteq Calls
    BY <2>3
  <2>10. since' \in [Calls -> 0..clock'] /\ access' \in [Calls -> 0..clock']
    BY <2>3, <2>t
  <2> QED BY <2>3, <2>5, <2>6, <2>7, <2>8, <2>9, <2>10
<1>5. CASE GetRefreshToken(c)
  BY <1>5 DEF GetRefreshToken, Present, Sent, NoteLate, CallShape
<1>6. CASE RevokeRefreshToken(c)
  BY <1>6 DEF RevokeRefreshToken, CallShape
<1>7. CASE Abandon(c)
  BY <1>7 DEF Abandon, CallShape
<1> QED BY <1>1, <1>2, <1>3, <1>4, <1>5, <1>6, <1>7 DEF AuthStep

\* A refresh presents the same token throughout.
LEMMA PresentedStays ==
  ASSUME AuthTypeOK, CallShape, NEW c \in Calls, AuthStep(c) \/ Abandon(c),
         NEW d \in Calls, Op[d] = "refresh", Presented(d) # NoCall
  PROVE  Presented(d)' = Presented(d) /\ Presented(d) \in Tokens
BY CallStep DEF Presented, AuthTypeOK

\* Where the steps of a call lead.
LEMMA ShapeKept ==
  ASSUME AuthTypeOK, CallShape, NEW c \in Calls, AuthStep(c) \/ Abandon(c)
  PROVE  CallShape'
<1>1. ASSUME NEW d \in Calls \ {c}
      PROVE  /\ outcome'[d] = "none" <=> pc'[d] # "done"
             /\ pc'[d] = "create" => Op[d] = "register"
             /\ pc'[d] = "revoke" => Op[d] = "refresh"
             /\ Op[d] = "refresh" /\ pc'[d] # "start" => Presented(d)' # NoCall
  BY <1>1, CallStep, PresentedStays DEF CallShape
<1>2. /\ outcome'[c] = "none" <=> pc'[c] # "done"
      /\ pc'[c] = "create" => Op[c] = "register"
      /\ pc'[c] = "revoke" => Op[c] = "refresh"
      /\ Op[c] = "refresh" => Presented(c) # NoCall
  <2> USE DEF AuthTypeOK, CallShape, Goto, MoveOn, End, Leave, Insert, Answer, Sent
  <2>1. CASE GetUserForRegister(c)  BY <2>1 DEF GetUserForRegister
  <2>2. CASE CreateUser(c)          BY <2>2 DEF CreateUser
  <2>3. CASE GetUserForLogin(c)     BY <2>3 DEF GetUserForLogin
  <2>4. CASE IssueToken(c)
    <3>1. PICK n \in 0..clock : <<Email[c], n>> \in Tokens /\ Issued(c, n)
      BY <2>4, IssueStep
    <3>2. outcome'[c] \in {"ok", "error"} /\ pc'[c] = "done" /\ pc[c] = "issue"
      BY <3>1 DEF Issued
    <3> QED BY <3>2
  <2>5. CASE GetRefreshToken(c)     BY <2>5 DEF GetRefreshToken, Present
  <2>6. CASE RevokeRefreshToken(c)  BY <2>6 DEF RevokeRefreshToken
  <2>7. CASE Abandon(c)             BY <2>7 DEF Abandon
  <2> QED BY <2>1, <2>2, <2>3, <2>4, <2>5, <2>6, <2>7 DEF AuthStep
<1>3. Op[c] = "refresh" => Presented(c)' # NoCall
  BY <1>2, PresentedStays
<1> QED BY <1>1, <1>2, <1>3 DEF CallShape

\* A call that is answered anew is answered a token that was not there.
LEMMA AnswerIsNew ==
  ASSUME AuthTypeOK, CallShape, NEW c \in Calls, AuthStep(c) \/ Abandon(c),
         got'[c] # got[c]
  PROVE  /\ got'[c] \in Tokens /\ tokens[got'[c]] = "absent" /\ tokens'[got'[c]] = "live"
         /\ pc[c] = "issue" /\ outcome'[c] = "ok"
<1> USE DEF AuthTypeOK, Goto, MoveOn, End, Leave, Insert, Answer
<1>1. IssueToken(c)
  BY DEF AuthStep, GetUserForRegister, CreateUser, GetUserForLogin, GetRefreshToken,
         RevokeRefreshToken, Abandon
<1>2. PICK n \in 0..clock : <<Email[c], n>> \in Tokens /\ Issued(c, n)
  BY <1>1, IssueStep
<1> QED BY <1>2 DEF Issued

\* So no two calls are answered the same token.
LEMMA DistinctKept ==
  ASSUME AuthTypeOK, CallShape, TokensDistinct, NEW c \in Calls, AuthStep(c) \/ Abandon(c)
  PROVE  TokensDistinct'
<1>1. ASSUME NEW d \in Calls, got'[d] # NoCall
      PROVE  /\ tokens'[got'[d]] # "absent"
             /\ d # c => got[d] = got'[d] /\ tokens[got[d]] # "absent"
  <2>1. CASE got'[d] = got[d]
    BY <1>1, <2>1, CallStep DEF TokensDistinct, AuthTypeOK
  <2>2. CASE got'[d] # got[d]
    BY <2>2, CallStep, AnswerIsNew
  <2> QED BY <2>1, <2>2
<1>2. ASSUME NEW d \in Calls, NEW e \in Calls, got'[d] # NoCall, got'[d] = got'[e]
      PROVE  d = e
  <2>1. CASE got'[c] = got[c]
    BY <1>2, <2>1, CallStep DEF TokensDistinct
  <2>2. CASE got'[c] # got[c]
    <3>1. tokens[got'[c]] = "absent"
      BY <2>2, AnswerIsNew
    <3>2. /\ d # c => got[d] = got'[d] /\ tokens[got'[d]] # "absent"
          /\ e # c => got[e] = got'[e] /\ tokens[got'[e]] # "absent"
      <4>1. got'[e] # NoCall  BY <1>2
      <4> QED BY <1>1, <1>2, <4>1
    <3> QED BY <1>2, <3>1, <3>2 DEF TokensDistinct
  <2> QED BY <2>1, <2>2
<1> QED BY <1>1, <1>2 DEF TokensDistinct

\* The token of a refresh that goes on to be answered is revoked by then,
\* unless the revocation failed.
LEMMA UsedKept ==
  ASSUME AuthTypeOK, CallShape, UsedIsRevoked, NEW c \in Calls, AuthStep(c) \/ Abandon(c)
  PROVE  UsedIsRevoked'
<1> SUFFICES ASSUME faults' = 0, NEW d \in Calls, Op[d] = "refresh",
                    pc'[d] = "issue" \/ outcome'[d] = "ok"
             PROVE  tokens'[Presented(d)'] = "revoked"
  BY DEF UsedIsRevoked
<1>1. CASE pc[d] = "issue" \/ outcome[d] = "ok"
  <2>1. Presented(d) # NoCall
    BY <1>1 DEF CallShape
  <2>2. tokens[Presented(d)] = "revoked"
    BY <1>1, CallStep DEF UsedIsRevoked
  <2> QED BY <2>1, <2>2, CallStep, PresentedStays
<1>2. CASE ~ (pc[d] = "issue" \/ outcome[d] = "ok")
  <2>1. d = c
    BY <1>2, CallStep
  <2>2. RevokeRefreshToken(c) /\ NoFault
    <3> USE <1>2, <2>1 DEF AuthTypeOK, CallShape, Goto, MoveOn, End, Leave, Insert, Answer, Fault, NoFault
    <3>1. ~ GetUserForRegister(c)  BY DEF GetUserForRegister
    <3>2. ~ CreateUser(c)          BY DEF CreateUser
    <3>3. ~ GetUserForLogin(c)     BY DEF GetUserForLogin
    <3>4. ~ IssueToken(c)          BY DEF IssueToken
    <3>5. ~ GetRefreshToken(c)     BY DEF GetRefreshToken
    <3>6. ~ Abandon(c)             BY DEF Abandon
    <3>7. RevokeRefreshToken(c) => NoFault
      BY DEF RevokeRefreshToken
    <3> QED BY <3>1, <3>2, <3>3, <3>4, <3>5, <3>6, <3>7 DEF AuthStep
  <2>3. Presented(d) \in Tokens /\ Presented(d)' = Presented(d)
    BY <2>1, <2>2, PresentedStays DEF RevokeRefreshToken, CallShape
  <2> QED BY <2>1, <2>2, <2>3 DEF RevokeRefreshToken, NoFault, Fault, AuthTypeOK
<1> QED BY <1>1, <1>2

\* A call past the revocation stays past it.
LEMMA StaysOn ==
  ASSUME AuthTypeOK, CallShape, NEW c \in Calls, AuthStep(c) \/ Abandon(c),
         NEW d \in Calls, pc[d] \in {"issue", "done"}
  PROVE  pc'[d] \in {"issue", "done"}
<1>1. CASE d = c
  <2> USE <1>1 DEF AuthTypeOK, Goto, MoveOn, End, Leave, Insert, Answer, Sent
  <2>1. IssueToken(c) \/ Abandon(c)
    BY CallStep DEF AuthStep, GetUserForRegister, CreateUser, GetUserForLogin,
                    GetRefreshToken, Present, RevokeRefreshToken
  <2>2. CASE IssueToken(c)
    <3>1. PICK n \in 0..clock : <<Email[c], n>> \in Tokens /\ Issued(c, n)
      BY <2>2, IssueStep
    <3> QED BY <3>1 DEF Issued
  <2> QED BY <2>1, <2>2 DEF Abandon
<1> QED BY <1>1, CallStep

\* A revoked token has its user, before and after.
LEMMA RevokedKept ==
  ASSUME AuthTypeOK, CallShape, RevokedByUse, NEW c \in Calls, AuthStep(c) \/ Abandon(c)
  PROVE  RevokedByUse'
<1> SUFFICES ASSUME NEW t \in Tokens, tokens'[t] = "revoked"
             PROVE  \E d \in Calls : /\ Op[d] = "refresh" /\ pc'[d] \in {"issue", "done"}
                                     /\ Presented(d)' = t
  BY DEF RevokedByUse
<1>1. CASE tokens[t] = "revoked"
  <2>1. PICK d \in Calls : Op[d] = "refresh" /\ pc[d] \in {"issue", "done"} /\ Presented(d) = t
    BY <1>1 DEF RevokedByUse
  <2>2. Presented(d)' = t
    BY <2>1, PresentedStays DEF CallShape
  <2>3. pc'[d] \in {"issue", "done"}
    BY <2>1, StaysOn
  <2> QED BY <2>1, <2>2, <2>3
<1>2. CASE tokens[t] # "revoked"
  <2>1. RevokeRefreshToken(c)
    <3>1. CASE IssueToken(c)
      <4>1. PICK n \in 0..clock : <<Email[c], n>> \in Tokens /\ Issued(c, n)
        BY <3>1, IssueStep
      <4>2. tokens' = tokens \/ tokens' = [tokens EXCEPT ![<<Email[c], n>>] = "live"]
        BY <4>1 DEF Issued
      <4> QED BY <1>2, <4>1, <4>2 DEF AuthTypeOK
    <3>2. CASE ~ IssueToken(c)
      BY <1>2, <3>2 DEF AuthStep, AuthTypeOK, GetUserForRegister, CreateUser, GetUserForLogin,
                        GetRefreshToken, Abandon
    <3> QED BY <3>1, <3>2
  <2>2. Op[c] = "refresh" /\ Presented(c) # NoCall
    BY <2>1 DEF RevokeRefreshToken, CallShape
  <2>3. Presented(c) = t
    BY <1>2, <2>1 DEF RevokeRefreshToken, AuthTypeOK
  <2>4. pc'[c] = "issue"
    BY <2>1 DEF RevokeRefreshToken, MoveOn, AuthTypeOK
  <2> QED BY <2>2, <2>3, <2>4, PresentedStays
<1> QED BY <1>1, <1>2

\* A late refresh finds its token revoked.
LEMMA LateKept ==
  ASSUME AuthTypeOK, CallShape, UsedIsRevoked, LateIsOver,
         NEW c \in Calls, AuthStep(c) \/ Abandon(c)
  PROVE  LateIsOver'
<1> SUFFICES ASSUME faults' = 0, NEW d \in late'
             PROVE  pc'[d] = "done" /\ outcome'[d] # "ok"
  BY DEF LateIsOver
<1>1. faults = 0
  BY CallStep
<1>2. CASE d \in late
  <2>1. pc[d] = "done" /\ outcome[d] # "ok"
    BY <1>1, <1>2 DEF LateIsOver
  <2>2. d \in Calls /\ d # c
    BY <1>2, <2>1, CallStep DEF AuthTypeOK
  <2> QED BY <2>1, <2>2, CallStep
<1>3. CASE d \notin late
  <2>1. d = c /\ GetRefreshToken(c)
    <3>1. d = c
      BY <1>3, CallStep
    <3>2. late' # late
      BY <1>3
    <3> QED BY <3>1, <3>2 DEF AuthStep, GetUserForRegister, CreateUser, GetUserForLogin,
                              IssueToken, RevokeRefreshToken, Abandon
  <2>2. PICK x \in SameToken(c) : outcome[x] = "ok"
    BY <1>3, <2>1 DEF GetRefreshToken, NoteLate
  <2>3. x \in Calls /\ Op[x] = "refresh" /\ Presented(x) = Presented(c)
    BY <2>2 DEF SameToken, Presented
  <2>4. tokens[Presented(c)] = "revoked"
    BY <1>1, <2>2, <2>3 DEF UsedIsRevoked
  <2>5. End(c, "error")
    BY <1>1, <2>1, <2>4 DEF GetRefreshToken, Fault
  <2> QED BY <2>1, <2>5 DEF End, Leave, AuthTypeOK
<1> QED BY <1>2, <1>3

\* Why a call may be refused.
Reason(c) ==
  \/ c \in collided
  \/ Op[c] = "register" /\ users[Email[c]] # NoUser
  \/ Op[c] = "login" /\ found[c] # Password[c]
  \/ /\ Op[c] = "refresh"
     /\ \/ MayBeExpired(Presented(c))
        \/ \E d \in SameToken(c) : pc[d] \in {"issue", "done"}

\* The refusal of a refresh: its token has expired, or whoever revoked it has
\* the same token.
LEMMA RefreshReason ==
  ASSUME AuthTypeOK, TokensDistinct, RevokedByUse, NEW c \in Calls, Present(c),
         tokens[Presented(c)] # "live" \/ MayBeExpired(Presented(c))
  PROVE  \/ MayBeExpired(Presented(c))
         \/ \E d \in SameToken(c) : pc[d] \in {"issue", "done"}
<1> SUFFICES ASSUME tokens[Presented(c)] # "live"
             PROVE  \E d \in SameToken(c) : pc[d] \in {"issue", "done"}
  OBVIOUS
<1>1. Uses[c] \in Calls /\ Op[c] = "refresh" /\ Presented(c) # NoCall /\ pc[c] = "start"
  BY DEF Present, Sent
<1>2. Presented(c) \in Tokens /\ tokens[Presented(c)] = "revoked"
  BY <1>1 DEF TokensDistinct, AuthTypeOK, Presented
<1>3. PICK d \in Calls : /\ Op[d] = "refresh" /\ pc[d] \in {"issue", "done"}
                         /\ Presented(d) = Presented(c)
  BY <1>2 DEF RevokedByUse
<1>4. Uses[d] = Uses[c]
  BY <1>1, <1>3 DEF Presented, TokensDistinct
<1> QED BY <1>1, <1>3, <1>4 DEF SameToken

\* A call that is refused in a step has a reason after it.
LEMMA RefusedNow ==
  ASSUME AuthTypeOK, CallShape, TokensDistinct, RevokedByUse,
         NEW c \in Calls, AuthStep(c) \/ Abandon(c), faults' = 0, outcome'[c] = "error"
  PROVE  Reason(c)'
<1> USE DEF AuthTypeOK, Goto, MoveOn, End, Leave, Insert, Answer, Fault, NoFault
<1>0. outcome[c] = "none" /\ faults = 0
  BY CallStep DEF CallShape
<1>1. CASE GetUserForRegister(c)
  BY <1>0, <1>1 DEF GetUserForRegister, Reason
<1>2. CASE CreateUser(c)
  BY <1>0, <1>2 DEF CreateUser, CallShape, Reason
<1>3. CASE GetUserForLogin(c)
  BY <1>0, <1>3 DEF GetUserForLogin, Reason
<1>4. CASE IssueToken(c)
  <2>1. PICK n \in 0..clock : <<Email[c], n>> \in Tokens /\ Issued(c, n)
    BY <1>4, IssueStep
  <2>2. c \in collided'
    BY <1>0, <2>1 DEF Issued
  <2> QED BY <2>2 DEF Reason
<1>5. CASE GetRefreshToken(c)
  <2>1. /\ Op[c] = "refresh" /\ Presented(c) # NoCall
        /\ clock' = clock /\ tokens' = tokens
    BY <1>5 DEF GetRefreshToken, Present
  <2>2. tokens[Presented(c)] # "live" \/ MayBeExpired(Presented(c))
    BY <1>0, <1>5 DEF GetRefreshToken
  <2>3. \/ MayBeExpired(Presented(c))
        \/ \E d \in SameToken(c) : pc[d] \in {"issue", "done"}
    BY <1>5, <2>2, RefreshReason DEF GetRefreshToken
  <2>4. Presented(c)' = Presented(c)
    BY <2>1, PresentedStays
  <2>5. CASE MayBeExpired(Presented(c))
    BY <1>5, <2>1, <2>4, <2>5 DEF MayBeExpired, Reason, GetRefreshToken
  <2>6. CASE \E d \in SameToken(c) : pc[d] \in {"issue", "done"}
    <3>1. PICK d \in SameToken(c) : pc[d] \in {"issue", "done"}
      BY <2>6
    <3>2. pc'[d] \in {"issue", "done"}
      BY <3>1, StaysOn DEF SameToken
    <3> QED BY <2>1, <3>1, <3>2 DEF Reason, SameToken
  <2> QED BY <2>3, <2>5, <2>6
<1>6. CASE RevokeRefreshToken(c)
  BY <1>0, <1>6 DEF RevokeRefreshToken
<1>7. CASE Abandon(c)
  BY <1>7 DEF Abandon
<1> QED BY <1>1, <1>2, <1>3, <1>4, <1>5, <1>6, <1>7 DEF AuthStep

\* And keeps having it.
LEMMA ReasonKept ==
  ASSUME AuthTypeOK, CallShape, TokensDistinct, RevokedByUse, RefusedForAReason,
         NEW c \in Calls, AuthStep(c) \/ Abandon(c)
  PROVE  RefusedForAReason'
<1> SUFFICES ASSUME faults' = 0, NEW d \in Calls, outcome'[d] = "error"
             PROVE  Reason(d)'
  BY DEF RefusedForAReason, Reason
<1>1. CASE outcome[d] = "error"
  <2>1. Reason(d) /\ pc[d] = "done" /\ d # c
    BY <1>1, CallStep DEF RefusedForAReason, Reason, CallShape
  <2>2. CASE d \in collided
    BY <2>2, CallStep DEF Reason
  <2>3. CASE Op[d] = "register" /\ users[Email[d]] # NoUser
    BY <2>3, CallStep DEF Reason
  <2>4. CASE Op[d] = "login" /\ found[d] # Password[d]
    BY <2>1, <2>4, CallStep DEF Reason
  <2>5. CASE Op[d] = "refresh" /\ MayBeExpired(Presented(d))
    <3>1. Presented(d)' = Presented(d)
      BY <2>1, <2>5, PresentedStays DEF CallShape
    <3>2. Presented(d) \in Tokens /\ tokens[Presented(d)] # "absent"
      <4>1. Presented(d) # NoCall
        BY <2>1, <2>5 DEF CallShape
      <4> QED BY <2>5, <4>1 DEF TokensDistinct, Presented, AuthTypeOK
    <3> QED BY <2>5, <3>1, <3>2, CallStep DEF MayBeExpired, Reason
  <2>6. CASE Op[d] = "refresh" /\ \E x \in SameToken(d) : pc[x] \in {"issue", "done"}
    <3>1. PICK x \in SameToken(d) : pc[x] \in {"issue", "done"}
      BY <2>6
    <3>2. pc'[x] \in {"issue", "done"}
      BY <3>1, StaysOn DEF SameToken
    <3> QED BY <2>6, <3>1, <3>2 DEF Reason, SameToken
  <2> QED BY <2>1, <2>2, <2>3, <2>4, <2>5, <2>6 DEF Reason
<1>2. CASE outcome[d] # "error"
  BY <1>2, CallStep, RefusedNow
<1> QED BY <1>1, <1>2

\* It holds at the start.
LEMMA AuthInvInit == AuthInit => AuthInv
<1> SUFFICES ASSUME AuthInit PROVE AuthInv
  OBVIOUS
<1> USE DEF AuthInit
<1>1. AuthTypeOK        BY DEF AuthTypeOK
<1>2. CallShape         BY DEF CallShape
<1>3. TokensDistinct    BY DEF TokensDistinct
<1>4. UsedIsRevoked     BY DEF UsedIsRevoked
<1>5. RevokedByUse      BY DEF RevokedByUse
<1>6. LateIsOver        BY DEF LateIsOver
<1>7. RefusedForAReason BY DEF RefusedForAReason
<1> QED BY <1>1, <1>2, <1>3, <1>4, <1>5, <1>6, <1>7 DEF AuthInv

\* A step that leaves the auth service alone, or only tells it of the time or of
\* a fault elsewhere.
LEMMA AuthInvFrame ==
  ASSUME AuthInv, UNCHANGED <<accounts, calls, marks>>,
         clock' \in clock..MaxTime, NoFault \/ Fault
  PROVE  AuthInv'
<1> USE DEF AuthInv
<1>0. faults' = 0 => faults = 0
  BY DEF NoFault, Fault, AuthTypeOK
<1>1. AuthTypeOK'
  BY DEF AuthTypeOK, NoFault, Fault
<1>2. CallShape'
  BY DEF CallShape, Presented
<1>3. TokensDistinct'
  BY DEF TokensDistinct
<1>4. UsedIsRevoked'
  BY <1>0 DEF UsedIsRevoked, Presented
<1>5. RevokedByUse'
  BY DEF RevokedByUse, Presented
<1>6. LateIsOver'
  BY <1>0 DEF LateIsOver
<1>7. RefusedForAReason'
  <2> SUFFICES ASSUME faults = 0, NEW c \in Calls, outcome[c] = "error"
               PROVE  Reason(c)'
    BY <1>0 DEF RefusedForAReason, Reason
  <2>1. Reason(c)
    BY DEF RefusedForAReason, Reason
  <2>2. Op[c] = "refresh" => Presented(c) \in Tokens /\ Presented(c)' = Presented(c)
    BY DEF CallShape, AuthTypeOK, Presented
  <2>3. Op[c] = "refresh" /\ MayBeExpired(Presented(c)) => MayBeExpired(Presented(c))'
    <3> SUFFICES ASSUME Op[c] = "refresh", clock >= expires[Presented(c)]
                 PROVE  clock' >= expires[Presented(c)]
      BY <2>2 DEF MayBeExpired
    <3>1. expires[Presented(c)] \in Nat
      BY <2>2 DEF AuthTypeOK
    <3> QED BY <3>1 DEF AuthTypeOK
  <2>4. CASE Op[c] = "refresh" /\ MayBeExpired(Presented(c))
    BY <2>3, <2>4 DEF Reason
  <2>5. CASE ~ (Op[c] = "refresh" /\ MayBeExpired(Presented(c)))
    BY <2>1, <2>5 DEF Reason, SameToken
  <2> QED BY <2>4, <2>5
<1> QED BY <1>1, <1>2, <1>3, <1>4, <1>5, <1>6, <1>7

\* Every step of the auth service keeps it.
LEMMA AuthInvKept ==
  ASSUME AuthInv, AuthNext
  PROVE  AuthInv'
<1>1. CASE Tick
  BY <1>1, AuthInvFrame DEF Tick, AuthInv, AuthTypeOK, NoFault
<1>2. ASSUME NEW c \in Calls, AuthStep(c) \/ Abandon(c)
      PROVE  AuthInv'
  <2> USE <1>2 DEF AuthInv
  <2>1. AuthTypeOK'         BY AuthTypes DEF AuthNext
  <2>2. CallShape'          BY ShapeKept
  <2>3. TokensDistinct'     BY DistinctKept
  <2>4. UsedIsRevoked'      BY UsedKept
  <2>5. RevokedByUse'       BY RevokedKept
  <2>6. LateIsOver'         BY LateKept
  <2>7. RefusedForAReason'  BY ReasonKept
  <2> QED BY <2>1, <2>2, <2>3, <2>4, <2>5, <2>6, <2>7
<1> QED BY <1>1, <1>2 DEF AuthNext

-----------------------------------------------------------------------------
(* The invariant of the creation of wallets.                               *)

\* A row being inserted is the only one of its account, and what was answered
\* is in the table.
CreationInv ==
  /\ CreationTypeOK
  /\ \A r \in Creates :
       /\ result[r] = "none" <=> phase[r] # "done"
       /\ phase[r] = "commit" => inserting[Account[r]] = r
       /\ result[r] = "ok" => Account[r] \in wallets
       /\ faults = 0 /\ result[r] = "error" => Account[r] \in wallets
  /\ \A r, s \in Creates :
       result[r] = "ok" /\ result[s] = "ok" /\ Account[r] = Account[s] => r = s
  /\ \A a \in Accounts :
       /\ inserting[a] # NoCreate => a \notin wallets
       /\ announced[a] = IF a \in wallets THEN 1 ELSE 0

USE WalletCreationConstants, OnboardingConstants

\* It holds at the start.
LEMMA CreationInvInit == Init => CreationInv
BY DEF Init, CreationInit, CreationInv, CreationTypeOK

\* Steps of the auth service keep it.
LEMMA CreationInvFrame ==
  ASSUME CreationInv, UNCHANGED creation, faults' = 0 => faults = 0
  PROVE  CreationInv'
BY DEF CreationInv, CreationTypeOK, creation

\* A step of CreateWallet; its faults are known as such.
LEMMA CreationInvKept ==
  ASSUME CreationInv, faults \in Nat, NEW r \in Creates,
         \/ CreateStep(r) /\ faults' = faults
         \/ CreateFault(r) /\ faults' = faults + 1
         \/ (\E allowed \in BOOLEAN : Admit(r, allowed)) /\ faults' = faults
  PROVE  CreationInv'
<1> USE DEF CreationInv, CreationTypeOK
<1>1. CASE FindWallet(r) /\ faults' = faults
  BY <1>1 DEF FindWallet, Finish, Advance
<1>2. CASE InsertWallet(r) /\ faults' = faults
  <2>1. CASE Account[r] \in wallets
    BY SMTT(30), <1>2, <2>1 DEF InsertWallet, Finish
  <2>2. CASE Account[r] \notin wallets
    BY SMTT(30), <1>2, <2>2 DEF InsertWallet, Advance
  <2> QED BY <2>1, <2>2
<1>3. CASE CommitRow(r) /\ (Finish(r, "ok") \/ Finish(r, "error"))
  <2> DEFINE a == Account[r]
  <2>1. a \in Accounts /\ inserting[a] = r /\ a \notin wallets /\ r # NoCreate
    BY <1>3 DEF CommitRow
  <2>2. faults' = 0 => faults = 0
    OBVIOUS
  <2>3. /\ wallets' = wallets \cup {a} /\ announced' = [announced EXCEPT ![a] = @ + 1]
        /\ phase' = [phase EXCEPT ![r] = "done"]
        /\ result' = [result EXCEPT ![r] = "ok"] \/ result' = [result EXCEPT ![r] = "error"]
        /\ inserting' = [b \in Accounts |-> IF inserting[b] = r THEN NoCreate ELSE inserting[b]]
    BY <1>3 DEF CommitRow, Finish
  <2> HIDE DEF a
  <2>4. CreationTypeOK'
    <3>1. /\ wallets' \subseteq Accounts
          /\ announced' \in [Accounts -> Nat]
          /\ phase' \in [Creates -> {"start", "find", "insert", "commit", "done"}]
          /\ result' \in [Creates -> {"none", "ok", "error", "denied"}]
      BY SMTT(30), <2>1, <2>3
    <3>2. inserting' \in [Accounts -> Creates \cup {NoCreate}]
      BY <2>3
    <3>3. ASSUME NEW b \in Accounts, NEW s \in Creates, inserting'[b] = s
          PROVE  phase'[s] = "commit" /\ Account[s] = b
      <4>1. inserting[b] = s /\ s # r
        BY <2>3, <3>3
      <4>2. phase[s] = "commit" /\ Account[s] = b
        BY <4>1
      <4> QED BY <2>3, <4>1, <4>2
    <3> QED BY <3>1, <3>2, <3>3
  <2>5. \A s \in Creates :
          /\ result'[s] = "none" <=> phase'[s] # "done"
          /\ result'[s] = "ok" => Account[s] \in wallets'
          /\ faults' = 0 /\ result'[s] = "error" => Account[s] \in wallets'
    BY <2>1, <2>2, <2>3 DEF a
  <2>6. \A s \in Creates : phase'[s] = "commit" => inserting'[Account[s]] = s
    BY <2>3
  <2>7. \A s, t \in Creates :
          result'[s] = "ok" /\ result'[t] = "ok" /\ Account[s] = Account[t] => s = t
    BY <2>1, <2>3 DEF a
  <2>8. \A b \in Accounts : /\ inserting'[b] # NoCreate => b \notin wallets'
                            /\ announced'[b] = IF b \in wallets' THEN 1 ELSE 0
    BY <2>1, <2>3
  <2> QED BY <2>4, <2>5, <2>6, <2>7, <2>8
<1>4. CASE FindFails(r) /\ faults' = faults + 1
  BY <1>4 DEF FindFails, Advance
<1>5. CASE WalletFails(r) /\ faults' = faults + 1
  BY <1>5 DEF WalletFails, Finish
<1>6. CASE (\E allowed \in BOOLEAN : Admit(r, allowed)) /\ faults' = faults
  BY <1>6 DEF Admit, Finish, Advance
<1> QED BY <1>1, <1>2, <1>3, <1>4, <1>5, <1>6
        DEF CreateStep, CreateFault, CommitWallet, CommitLost

-----------------------------------------------------------------------------
(* The two services together.                                              *)

Inv == AuthInv /\ CreationInv

\* Both invariants hold throughout.
LEMMA Invariant == Spec => []Inv
<1>1. Init => Inv
  BY AuthInvInit, CreationInvInit DEF Init, Inv
<1>2. Inv /\ [Next]_vars => Inv'
  <2> SUFFICES ASSUME Inv, [Next]_vars PROVE Inv'
    OBVIOUS
  <2>0. AuthInv /\ CreationInv /\ clock \in 0..MaxTime /\ faults \in Nat
    BY DEF Inv, AuthInv, AuthTypeOK
  <2>1. ASSUME AuthNext, UNCHANGED creation PROVE Inv'
    <3>1. faults' = 0 => faults = 0
      BY <2>0, <2>1, CallStep DEF AuthNext, Tick, AuthInv
    <3> QED BY <2>0, <2>1, <3>1, AuthInvKept, CreationInvFrame DEF Inv
  <2>2. ASSUME NEW r \in Creates, Create(r) PROVE Inv'
    <3>1. UNCHANGED authVars
      BY <2>2 DEF Create, SendCreate
    <3>2. AuthInv'
      <4>1. UNCHANGED <<accounts, calls, marks>> /\ clock' \in clock..MaxTime /\ NoFault
        BY <2>0, <3>1 DEF authVars, NoFault
      <4> QED BY <2>0, <4>1, AuthInvFrame
    <3>3. faults' = faults
      BY <3>1 DEF authVars
    <3>4. CASE CreateStep(r)
      BY <2>0, <3>2, <3>3, <3>4, CreationInvKept DEF Inv
    <3>5. CASE SendCreate(r)
      <4>1. Authenticated(Bearer[r]) \in BOOLEAN
        BY DEF Authenticated
      <4>2. \E allowed \in BOOLEAN : Admit(r, allowed)
        BY <3>5, <4>1 DEF SendCreate
      <4> QED BY <2>0, <3>2, <3>3, <4>2, CreationInvKept DEF Inv
    <3> QED BY <2>2, <3>4, <3>5 DEF Create
  <2>3. ASSUME NEW r \in Creates, CreateFails(r) PROVE Inv'
    <3>1. /\ UNCHANGED <<accounts, calls, marks>> /\ clock' \in clock..MaxTime
          /\ Fault /\ CreateFault(r)
      BY <2>0, <2>3 DEF CreateFails
    <3>2. AuthInv'
      BY <2>0, <3>1, AuthInvFrame
    <3>3. CreationInv'
      BY <2>0, <3>1, CreationInvKept DEF Fault
    <3> QED BY <3>2, <3>3 DEF Inv
  <2>4. CASE UNCHANGED vars
    <3>1. /\ UNCHANGED <<accounts, calls, marks>> /\ clock' \in clock..MaxTime
          /\ NoFault /\ UNCHANGED creation
      BY <2>0, <2>4 DEF vars, authVars, NoFault
    <3> QED BY <2>0, <3>1, AuthInvFrame, CreationInvFrame DEF Inv, NoFault
  <2> QED BY <2>1, <2>2, <2>3, <2>4 DEF Next
<1> QED BY <1>1, <1>2, PTL DEF Spec

\* Every reachable state has the types of the tables and of the calls.
THEOREM OnboardingTypeCorrect == Spec => []TypeOK
<1>1. Inv => TypeOK
  BY DEF Inv, AuthInv, CreationInv, TypeOK
<1> QED BY <1>1, Invariant, PTL

\* A refresh token works once: whatever the other calls do and however slowly,
\* a refresh sent after another with the token succeeded is refused, unless the
\* revocation failed.
THEOREM TokensWorkOnce == Spec => []ReplayRefused
<1>1. Inv => ReplayRefused
  BY DEF Inv, AuthInv, AuthTypeOK, LateIsOver, ReplayRefused
<1> QED BY <1>1, Invariant, PTL

\* Without faults no call of the auth service is refused but for the account,
\* the password, a used or expired token, or two tokens in one second.
THEOREM RefusalsHaveReasons == Spec => []RefusedForAReason
<1>1. Inv => RefusedForAReason
  BY DEF Inv, AuthInv
<1> QED BY <1>1, Invariant, PTL

\* One wallet, one announcement and one success per account, by the UNIQUE
\* constraint alone.
THEOREM WalletsCreatedOnce == Spec => []WalletCreatedOnce
<1>1. Inv => WalletCreatedOnce
  <2> SUFFICES ASSUME CreationInv PROVE WalletCreatedOnce
    BY DEF Inv
  <2>1. ASSUME NEW a \in Accounts
        PROVE  Cardinality({r \in Creates : Account[r] = a /\ result[r] = "ok"}) <= announced[a]
    <3> DEFINE S == {r \in Creates : Account[r] = a /\ result[r] = "ok"}
    <3>1. CASE S = {}
      <4>1. Cardinality(S) = 0
        BY <3>1, FS_EmptySet
      <4>2. announced[a] \in Nat
        BY DEF CreationInv, CreationTypeOK
      <4> HIDE DEF S
      <4>3. Cardinality(S) <= announced[a]
        BY <4>1, <4>2
      <4> QED BY <4>3 DEF S
    <3>2. CASE S # {}
      <4>0. PICK r \in S : TRUE
        BY <3>2
      <4>1. S = {r} /\ a \in wallets
        <5>1. r \in Creates /\ Account[r] = a /\ result[r] = "ok"
          BY <4>0
        <5>2. \A s \in S : s = r
          BY <5>1 DEF CreationInv
        <5>3. a \in wallets
          BY <5>1 DEF CreationInv
        <5> HIDE DEF S
        <5> QED BY <4>0, <5>2, <5>3
      <4>2. announced[a] = 1
        BY <4>1 DEF CreationInv
      <4>3. Cardinality({r}) = 1
        BY FS_Singleton
      <4> HIDE DEF S
      <4>4. Cardinality(S) <= announced[a]
        BY <4>1, <4>2, <4>3
      <4> QED BY <4>4 DEF S
    <3> QED BY <3>1, <3>2
  <2> QED BY <2>1 DEF WalletCreatedOnce, CreationInv
<1> QED BY <1>1, Invariant, PTL

-----------------------------------------------------------------------------
(* How many tokens of an account are live.                                 *)

Live(e)   == {t \in Tokens : t[1] = e /\ tokens[t] = "live"}
Firsts(e) == {c \in Calls : Email[c] = e /\ Op[c] # "refresh" /\ outcome[c] = "ok"}
Forks(e)  == {c \in forked : Email[c] = e}

\* The refreshes that are done with the old token and may add the new one.
Pending(e) == {c \in Calls : Email[c] = e /\ Op[c] = "refresh" /\ pc[c] = "issue"}

\* An answer is a token of the account's own; a fork is a refresh past the
\* revocation.
OwnTokens ==
  /\ \A c \in Calls : got[c] # NoCall => got[c][1] = Email[c]
  /\ \A c \in forked : Op[c] = "refresh" /\ pc[c] \in {"issue", "done"}

\* A refresh that may add a token has taken one away, or is a fork or a fault.
\* The sets stay finite whether Calls is or not: they grow by one at a time.
Balanced(e) ==
  /\ IsFiniteSet(Live(e)) /\ IsFiniteSet(Firsts(e))
  /\ IsFiniteSet(Forks(e)) /\ IsFiniteSet(Pending(e))
  /\ Cardinality(Live(e)) + Cardinality(Pending(e))
       <= Cardinality(Firsts(e)) + Cardinality(Forks(e)) + faults

LiveInv == OwnTokens /\ \A e \in Emails : Balanced(e)

\* Answers carry the account's own tokens.
LEMMA OwnKept ==
  ASSUME AuthTypeOK, CallShape, OwnTokens, NEW c \in Calls, AuthStep(c) \/ Abandon(c)
  PROVE  OwnTokens'
<1> USE DEF AuthTypeOK, Goto, MoveOn, End, Leave, Insert, Answer
<1>1. ASSUME NEW d \in Calls, got'[d] # NoCall
      PROVE  got'[d][1] = Email[d]
  <2>1. CASE got'[d] = got[d]
    BY <1>1, <2>1 DEF OwnTokens
  <2>2. CASE got'[d] # got[d]
    <3>1. d = c
      BY <2>2, CallStep
    <3>2. IssueToken(c)
      BY <2>2, <3>1 DEF AuthStep, GetUserForRegister, CreateUser, GetUserForLogin,
                        GetRefreshToken, RevokeRefreshToken, Abandon
    <3>3. PICK n \in 0..clock : <<Email[c], n>> \in Tokens /\ Issued(c, n)
      BY <3>2, IssueStep
    <3> QED BY <2>2, <3>1, <3>3 DEF Issued
  <2> QED BY <2>1, <2>2
<1>2. ASSUME NEW d \in forked'
      PROVE  Op[d] = "refresh" /\ pc'[d] \in {"issue", "done"}
  <2>1. CASE d \in forked
    BY <2>1, StaysOn DEF OwnTokens
  <2>2. CASE d \notin forked
    <3>1. RevokeRefreshToken(c)
      BY <2>2 DEF AuthStep, GetUserForRegister, CreateUser, GetUserForLogin,
                  IssueToken, GetRefreshToken, Abandon
    <3>2. d = c
      BY <2>2, <3>1 DEF RevokeRefreshToken
    <3> QED BY <3>1, <3>2 DEF RevokeRefreshToken, CallShape
  <2> QED BY <2>1, <2>2
<1> QED BY <1>1, <1>2 DEF OwnTokens

\* The sets of the other accounts stay as they are.
LEMMA OtherAccounts ==
  ASSUME AuthTypeOK, CallShape, OwnTokens, NEW c \in Calls, AuthStep(c) \/ Abandon(c),
         NEW e \in Emails, e # Email[c]
  PROVE  /\ Live(e)' = Live(e) /\ Firsts(e)' = Firsts(e)
         /\ Forks(e)' = Forks(e) /\ Pending(e)' = Pending(e)
<1> USE DEF AuthTypeOK, Goto, MoveOn, End, Leave, Insert, Answer
<1>1. Firsts(e)' = Firsts(e) /\ Pending(e)' = Pending(e)
  BY CallStep DEF Firsts, Pending
<1>2. Forks(e)' = Forks(e)
  <2>1. forked' = forked \/ forked' = forked \cup {c}
    BY DEF AuthStep, GetUserForRegister, CreateUser, GetUserForLogin, IssueToken,
           GetRefreshToken, RevokeRefreshToken, Abandon
  <2> QED BY <2>1 DEF Forks
<1>3. Live(e)' = Live(e)
  <2>1. CASE IssueToken(c)
    <3>1. PICK n \in 0..clock : <<Email[c], n>> \in Tokens /\ Issued(c, n)
      BY <2>1, IssueStep
    <3> QED BY <3>1 DEF Issued, Live
  <2>2. CASE RevokeRefreshToken(c)
    <3>1. Presented(c)[1] = Email[c]
      <4>1. Op[c] = "refresh" /\ Presented(c) # NoCall
        BY <2>2 DEF RevokeRefreshToken, CallShape
      <4> QED BY <4>1 DEF OwnTokens, Presented
    <3> QED BY <2>2, <3>1 DEF RevokeRefreshToken, Live
  <2>3. CASE tokens' = tokens
    BY <2>3 DEF Live
  <2> QED BY <2>1, <2>2, <2>3 DEF AuthStep, GetUserForRegister, CreateUser, GetUserForLogin,
                                  GetRefreshToken, Abandon
<1> QED BY <1>1, <1>2, <1>3

\* What a step may do to the sets of its account: nothing (and perhaps fail),
\* answer a first token, answer a refresh, give up a refresh, or take the old
\* token of one away.
LEMMA SetsOfAStep ==
  ASSUME AuthTypeOK, CallShape, TokensDistinct, OwnTokens,
         NEW c \in Calls, AuthStep(c) \/ Abandon(c), NEW e \in Emails, e = Email[c]
  PROVE  \/ /\ Live(e)' = Live(e) /\ Firsts(e)' = Firsts(e)
            /\ Forks(e)' = Forks(e) /\ Pending(e)' = Pending(e)
            /\ faults' \in {faults, faults + 1}
         \/ /\ \E t : Live(e)' = Live(e) \cup {t}
            /\ Forks(e)' = Forks(e) /\ Pending(e)' = Pending(e)
            /\ \/ c \notin Firsts(e) /\ Firsts(e)' = Firsts(e) \cup {c} /\ faults' = faults
               \/ Firsts(e)' = Firsts(e) /\ faults' = faults + 1
         \/ /\ Live(e)' = Live(e) \/ \E t : Live(e)' = Live(e) \cup {t}
            /\ Firsts(e)' = Firsts(e) /\ Forks(e)' = Forks(e)
            /\ c \in Pending(e) /\ Pending(e)' = Pending(e) \ {c}
            /\ faults' \in {faults, faults + 1}
         \/ /\ Firsts(e)' = Firsts(e) /\ Pending(e)' = Pending(e) \cup {c}
            /\ \/ /\ \E t \in Live(e) : Live(e)' = Live(e) \ {t}
                  /\ Forks(e)' = Forks(e) /\ faults' = faults
               \/ /\ Live(e)' = Live(e) /\ c \notin Forks(e)
                  /\ Forks(e)' = Forks(e) \cup {c} /\ faults' = faults
               \/ /\ Live(e)' = Live(e) /\ Forks(e)' = Forks(e) /\ faults' = faults + 1
<1> USE DEF AuthTypeOK, Goto, MoveOn, End, Leave, Insert, Answer, Fault, NoFault
<1>1. CASE GetUserForRegister(c) \/ GetUserForLogin(c) \/ CreateUser(c) \/ GetRefreshToken(c)
  <2>1. /\ UNCHANGED <<tokens, forked>> /\ faults' \in {faults, faults + 1}
        /\ pc[c] # "issue" /\ outcome[c] = "none" /\ outcome'[c] # "ok"
        /\ pc'[c] = "issue" => Op[c] # "refresh"
    <3>1. CASE GetUserForRegister(c)
      BY <3>1 DEF GetUserForRegister, Sent, CallShape
    <3>2. CASE GetUserForLogin(c)
      BY <3>2 DEF GetUserForLogin, Sent, CallShape
    <3>3. CASE CreateUser(c)
      BY <3>3 DEF CreateUser, CallShape
    <3>4. CASE GetRefreshToken(c)
      BY <3>4 DEF GetRefreshToken, Present, Sent, CallShape
    <3> QED BY <1>1, <3>1, <3>2, <3>3, <3>4
  <2>2. Firsts(e)' = Firsts(e) /\ Pending(e)' = Pending(e)
    BY <2>1, CallStep DEF Firsts, Pending
  <2>3. Live(e)' = Live(e) /\ Forks(e)' = Forks(e)
    BY <2>1 DEF Live, Forks
  <2> QED BY <2>1, <2>2, <2>3
<1>2. CASE IssueToken(c)
  <2>0. PICK n \in 0..clock : <<Email[c], n>> \in Tokens /\ Issued(c, n)
    BY <1>2, IssueStep
  <2> DEFINE t == <<Email[c], n>>
  <2>1. t \in Tokens /\ t[1] = e
    BY <2>0 DEF Tokens
  <2>2. /\ pc[c] = "issue" /\ outcome[c] = "none" /\ pc'[c] = "done" /\ forked' = forked
        /\ \/ tokens[t] = "absent" /\ tokens' = [tokens EXCEPT ![t] = "live"]
              /\ \/ outcome'[c] = "ok" /\ faults' = faults
                 \/ outcome'[c] # "ok" /\ faults' = faults + 1
           \/ tokens' = tokens /\ outcome'[c] # "ok" /\ faults' \in {faults, faults + 1}
    BY <2>0 DEF Issued, CallShape
  <2>3. Forks(e)' = Forks(e)
    BY <2>2 DEF Forks
  <2>4. /\ tokens' = tokens => Live(e)' = Live(e)
        /\ tokens' = [tokens EXCEPT ![t] = "live"] => Live(e)' = Live(e) \cup {t}
    <3> HIDE DEF t
    <3> QED BY <2>1 DEF Live
  <2>5. CASE Op[c] = "refresh"
    <3>1. Firsts(e)' = Firsts(e)
      BY <2>5, CallStep DEF Firsts
    <3>2. c \in Pending(e) /\ Pending(e)' = Pending(e) \ {c}
      BY <2>2, <2>5, CallStep DEF Pending
    <3>3. Live(e)' = Live(e) \/ \E x : Live(e)' = Live(e) \cup {x}
      BY <2>2, <2>4
    <3> QED BY <2>2, <2>3, <3>1, <3>2, <3>3
  <2>6. CASE Op[c] # "refresh"
    <3>1. Pending(e)' = Pending(e)
      BY <2>6, CallStep DEF Pending
    <3>2. /\ c \notin Firsts(e)
          /\ outcome'[c] = "ok" => Firsts(e)' = Firsts(e) \cup {c}
          /\ outcome'[c] # "ok" => Firsts(e)' = Firsts(e)
      BY <2>2, <2>6, CallStep DEF Firsts
    <3>3. CASE tokens' = tokens
      <4>1. Live(e)' = Live(e)
        BY <2>4, <3>3
      <4>2. outcome'[c] # "ok" /\ faults' \in {faults, faults + 1}
        BY <2>1, <2>2, <3>3
      <4> QED BY <2>3, <3>1, <3>2, <4>1, <4>2
    <3>4. CASE tokens' # tokens
      <4>1. \E x : Live(e)' = Live(e) \cup {x}
        BY <2>2, <2>4, <3>4
      <4>2. \/ outcome'[c] = "ok" /\ faults' = faults
            \/ outcome'[c] # "ok" /\ faults' = faults + 1
        BY <2>2, <3>4
      <4> QED BY <2>3, <3>1, <3>2, <4>1, <4>2
    <3> QED BY <3>3, <3>4
  <2> QED BY <2>5, <2>6
<1>3. CASE RevokeRefreshToken(c)
  <2> DEFINE t == Presented(c)
  <2>1. /\ Op[c] = "refresh" /\ pc[c] = "revoke" /\ pc'[c] = "issue"
        /\ outcome' = outcome
    BY <1>3 DEF RevokeRefreshToken, CallShape
  <2>2. t \in Tokens /\ tokens[t] # "absent" /\ t[1] = e
    <3>1. Presented(c) # NoCall /\ Uses[c] \in Calls
      BY <2>1 DEF CallShape
    <3> QED BY <2>1, <3>1 DEF Presented, TokensDistinct, OwnTokens
  <2>3. Firsts(e)' = Firsts(e)
    BY <2>1 DEF Firsts
  <2>4. Pending(e)' = Pending(e) \cup {c}
    BY <2>1, CallStep DEF Pending
  <2>5. CASE tokens' = tokens /\ forked' = forked /\ faults' = faults + 1
    BY <2>3, <2>4, <2>5 DEF Live, Forks
  <2>6. CASE tokens[t] = "live" /\ tokens' = [tokens EXCEPT ![t] = "revoked"] /\ forked' = forked
             /\ faults' = faults
    <3>1. t \in Live(e) /\ Live(e)' = Live(e) \ {t}
      <4> HIDE DEF t
      <4> QED BY <2>2, <2>6 DEF Live
    <3>2. Forks(e)' = Forks(e)
      BY <2>6 DEF Forks
    <3> HIDE DEF t
    <3> QED BY <2>3, <2>4, <2>6, <3>1, <3>2
  <2>7. CASE tokens[t] = "revoked" /\ tokens' = [tokens EXCEPT ![t] = "revoked"]
             /\ forked' = forked \cup {c} /\ faults' = faults
    <3>1. Live(e)' = Live(e)
      <4> HIDE DEF t
      <4> QED BY <2>2, <2>7 DEF Live
    <3>2. c \notin forked
      BY <2>1 DEF OwnTokens
    <3>3. c \notin Forks(e) /\ Forks(e)' = Forks(e) \cup {c}
      BY <2>7, <3>2 DEF Forks
    <3> QED BY <2>3, <2>4, <2>7, <3>1, <3>3
  <2>8. \/ tokens' = tokens /\ forked' = forked /\ faults' = faults + 1
        \/ tokens[t] = "live" /\ tokens' = [tokens EXCEPT ![t] = "revoked"] /\ forked' = forked
             /\ faults' = faults
        \/ tokens[t] = "revoked" /\ tokens' = [tokens EXCEPT ![t] = "revoked"]
             /\ forked' = forked \cup {c} /\ faults' = faults
    BY <1>3, <2>2 DEF RevokeRefreshToken
  <2> QED BY <2>5, <2>6, <2>7, <2>8
<1>4. CASE Abandon(c)
  <2>1. /\ UNCHANGED <<tokens, forked>> /\ faults' = faults + 1
        /\ outcome[c] = "none" /\ outcome'[c] # "ok" /\ pc'[c] = "done"
    BY <1>4 DEF Abandon, CallShape
  <2>2. Live(e)' = Live(e) /\ Forks(e)' = Forks(e)
    BY <2>1 DEF Live, Forks
  <2>3. Firsts(e)' = Firsts(e)
    BY <2>1, CallStep DEF Firsts
  <2>4. Pending(e)' = Pending(e) \ {c}
    BY <2>1, CallStep DEF Pending
  <2>5. c \notin Pending(e) => Pending(e)' = Pending(e)
    BY <2>4
  <2>6. CASE c \in Pending(e)
    BY <2>1, <2>2, <2>3, <2>4, <2>6
  <2>7. CASE c \notin Pending(e)
    BY <2>1, <2>2, <2>3, <2>5, <2>7
  <2> QED BY <2>6, <2>7
<1> QED BY <1>1, <1>2, <1>3, <1>4 DEF AuthStep

\* An element more, an element less.
LEMMA OneMoreOrLess ==
  ASSUME NEW S, IsFiniteSet(S), NEW x
  PROVE  /\ Cardinality(S) \in Nat
         /\ IsFiniteSet(S \cup {x}) /\ IsFiniteSet(S \ {x})
         /\ Cardinality(S \cup {x}) \in Cardinality(S)..Cardinality(S) + 1
         /\ x \notin S => Cardinality(S \cup {x}) = Cardinality(S) + 1
         /\ x \in S => Cardinality(S \ {x}) = Cardinality(S) - 1
<1>1. Cardinality(S) \in Nat
  BY FS_CardinalityType
<1>2. IsFiniteSet(S \cup {x}) /\ Cardinality(S \cup {x}) = IF x \in S THEN Cardinality(S) ELSE Cardinality(S) + 1
  BY FS_AddElement
<1>3. IsFiniteSet(S \ {x}) /\ Cardinality(S \ {x}) = IF x \in S THEN Cardinality(S) - 1 ELSE Cardinality(S)
  BY FS_RemoveElement
<1> QED BY <1>1, <1>2, <1>3

\* A step keeps the balance of its account.
LEMMA BalanceKept ==
  ASSUME AuthTypeOK, CallShape, TokensDistinct, OwnTokens,
         NEW c \in Calls, AuthStep(c) \/ Abandon(c), NEW e \in Emails, Balanced(e)
  PROVE  Balanced(e)'
<1> DEFINE L == Live(e)  F == Firsts(e)  K == Forks(e)  P == Pending(e)
<1>1. /\ IsFiniteSet(L) /\ IsFiniteSet(F) /\ IsFiniteSet(K) /\ IsFiniteSet(P)
      /\ Cardinality(L) \in Nat /\ Cardinality(F) \in Nat
      /\ Cardinality(K) \in Nat /\ Cardinality(P) \in Nat /\ faults \in Nat
      /\ Cardinality(L) + Cardinality(P) <= Cardinality(F) + Cardinality(K) + faults
  BY FS_CardinalityType DEF Balanced, AuthTypeOK
<1> SUFFICES /\ IsFiniteSet(L') /\ IsFiniteSet(F') /\ IsFiniteSet(K') /\ IsFiniteSet(P')
             /\ Cardinality(L') + Cardinality(P') <= Cardinality(F') + Cardinality(K') + faults'
  BY DEF Balanced
<1>2. CASE e # Email[c]
  <2>1. L' = L /\ F' = F /\ K' = K /\ P' = P
    BY <1>2, OtherAccounts
  <2>2. faults' \in {faults, faults + 1}
    BY DEF AuthStep, GetUserForRegister, CreateUser, GetUserForLogin, IssueToken,
           GetRefreshToken, RevokeRefreshToken, Abandon, Fault, NoFault
  <2> HIDE DEF L, F, K, P
  <2> QED BY <1>1, <2>1, <2>2
<1>3. CASE e = Email[c]
  <2>0. \/ /\ L' = L /\ F' = F /\ K' = K /\ P' = P /\ faults' \in {faults, faults + 1}
        \/ /\ \E t : L' = L \cup {t}
           /\ K' = K /\ P' = P
           /\ \/ c \notin F /\ F' = F \cup {c} /\ faults' = faults
              \/ F' = F /\ faults' = faults + 1
        \/ /\ L' = L \/ \E t : L' = L \cup {t}
           /\ F' = F /\ K' = K
           /\ c \in P /\ P' = P \ {c} /\ faults' \in {faults, faults + 1}
        \/ /\ F' = F /\ P' = P \cup {c}
           /\ \/ (\E t \in L : L' = L \ {t}) /\ K' = K /\ faults' = faults
              \/ L' = L /\ c \notin K /\ K' = K \cup {c} /\ faults' = faults
              \/ L' = L /\ K' = K /\ faults' = faults + 1
    BY <1>3, SetsOfAStep
  <2> HIDE DEF L, F, K, P
  <2>1. CASE L' = L /\ F' = F /\ K' = K /\ P' = P /\ faults' \in {faults, faults + 1}
    BY <1>1, <2>1
  <2>2. CASE /\ \E t : L' = L \cup {t}
             /\ K' = K /\ P' = P
             /\ \/ c \notin F /\ F' = F \cup {c} /\ faults' = faults
                \/ F' = F /\ faults' = faults + 1
    <3>1. IsFiniteSet(L') /\ Cardinality(L') \in Cardinality(L)..Cardinality(L) + 1
      <4>1. PICK t : L' = L \cup {t}
        BY <2>2
      <4> QED BY <1>1, <4>1, OneMoreOrLess
    <3>2. /\ IsFiniteSet(F')
          /\ \/ Cardinality(F') = Cardinality(F) + 1 /\ faults' = faults
             \/ Cardinality(F') = Cardinality(F) /\ faults' = faults + 1
      BY <1>1, <2>2, OneMoreOrLess
    <3> QED BY <1>1, <2>2, <3>1, <3>2
  <2>3. CASE /\ L' = L \/ \E t : L' = L \cup {t}
             /\ F' = F /\ K' = K
             /\ c \in P /\ P' = P \ {c} /\ faults' \in {faults, faults + 1}
    <3>1. IsFiniteSet(L') /\ Cardinality(L') \in Cardinality(L)..Cardinality(L) + 1
      <4>1. CASE L' = L
        BY <1>1, <4>1
      <4>2. ASSUME NEW t, L' = L \cup {t}
            PROVE  IsFiniteSet(L') /\ Cardinality(L') \in Cardinality(L)..Cardinality(L) + 1
        BY <1>1, <4>2, OneMoreOrLess
      <4> QED BY <2>3, <4>1, <4>2
    <3>2. IsFiniteSet(P') /\ Cardinality(P') = Cardinality(P) - 1
      BY <1>1, <2>3, OneMoreOrLess
    <3> QED BY <1>1, <2>3, <3>1, <3>2
  <2>4. CASE /\ F' = F /\ P' = P \cup {c}
             /\ \/ (\E t \in L : L' = L \ {t}) /\ K' = K /\ faults' = faults
                \/ L' = L /\ c \notin K /\ K' = K \cup {c} /\ faults' = faults
                \/ L' = L /\ K' = K /\ faults' = faults + 1
    <3>1. IsFiniteSet(P') /\ Cardinality(P') \in Cardinality(P)..Cardinality(P) + 1
      BY <1>1, <2>4, OneMoreOrLess
    <3>2. CASE (\E t \in L : L' = L \ {t}) /\ K' = K /\ faults' = faults
      <4>1. IsFiniteSet(L') /\ Cardinality(L') = Cardinality(L) - 1
        BY <1>1, <3>2, OneMoreOrLess
      <4> QED BY <1>1, <2>4, <3>1, <3>2, <4>1
    <3>3. CASE L' = L /\ c \notin K /\ K' = K \cup {c} /\ faults' = faults
      <4>1. IsFiniteSet(K') /\ Cardinality(K') = Cardinality(K) + 1
        BY <1>1, <3>3, OneMoreOrLess
      <4> QED BY <1>1, <2>4, <3>1, <3>3, <4>1
    <3>4. CASE L' = L /\ K' = K /\ faults' = faults + 1
      BY <1>1, <2>4, <3>1, <3>4
    <3> QED BY <2>4, <3>2, <3>3, <3>4
  <2> QED BY <2>0, <2>1, <2>2, <2>3, <2>4
<1> QED BY <1>2, <1>3

\* A step that leaves the auth service alone but for the time and the faults.
LEMMA LiveInvFrame ==
  ASSUME AuthTypeOK, LiveInv, UNCHANGED <<accounts, calls, marks>>, NoFault \/ Fault
  PROVE  LiveInv'
<1>1. OwnTokens'
  BY DEF LiveInv, OwnTokens
<1>2. ASSUME NEW e \in Emails PROVE Balanced(e)'
  <2>1. /\ Live(e)' = Live(e) /\ Firsts(e)' = Firsts(e)
        /\ Forks(e)' = Forks(e) /\ Pending(e)' = Pending(e)
    BY DEF Live, Firsts, Forks, Pending
  <2>2. faults \in Nat /\ faults' \in {faults, faults + 1}
    BY DEF AuthTypeOK, NoFault, Fault
  <2>3. Balanced(e)
    BY DEF LiveInv
  <2>4. /\ Cardinality(Live(e)) \in Nat /\ Cardinality(Firsts(e)) \in Nat
        /\ Cardinality(Forks(e)) \in Nat /\ Cardinality(Pending(e)) \in Nat
    BY <2>3, FS_CardinalityType DEF Balanced
  <2> QED BY <2>1, <2>2, <2>3, <2>4 DEF Balanced
<1> QED BY <1>1, <1>2 DEF LiveInv

\* The balance holds throughout.
LEMMA LiveInvariant == Spec => []LiveInv
<1>1. Init => LiveInv
  <2> SUFFICES ASSUME Init PROVE LiveInv
    OBVIOUS
  <2> USE DEF Init, AuthInit
  <2>1. OwnTokens
    BY DEF OwnTokens
  <2>2. ASSUME NEW e \in Emails PROVE Balanced(e)
    <3>1. Live(e) = {} /\ Firsts(e) = {} /\ Forks(e) = {} /\ Pending(e) = {}
      BY DEF Live, Firsts, Forks, Pending
    <3>2. IsFiniteSet({}) /\ Cardinality({}) = 0
      BY FS_EmptySet
    <3> QED BY <3>1, <3>2 DEF Balanced
  <2> QED BY <2>1, <2>2 DEF LiveInv
<1>2. Inv /\ LiveInv /\ [Next]_vars => LiveInv'
  <2> SUFFICES ASSUME Inv, LiveInv, [Next]_vars PROVE LiveInv'
    OBVIOUS
  <2>0. AuthTypeOK /\ CallShape /\ TokensDistinct /\ OwnTokens
    BY DEF Inv, AuthInv, LiveInv
  <2>1. ASSUME NEW c \in Calls, AuthStep(c) \/ Abandon(c) PROVE LiveInv'
    <3>1. OwnTokens'
      BY <2>0, <2>1, OwnKept
    <3>2. ASSUME NEW e \in Emails PROVE Balanced(e)'
      BY <2>0, <2>1, BalanceKept DEF LiveInv
    <3> QED BY <3>1, <3>2 DEF LiveInv
  <2>2. CASE /\ UNCHANGED <<accounts, calls, marks>>
             /\ NoFault \/ Fault
    BY <2>0, <2>2, LiveInvFrame
  <2>3. CASE Tick
    BY <2>2, <2>3 DEF Tick, NoFault
  <2>4. CASE \E r \in Creates : Create(r) \/ CreateFails(r)
    BY <2>2, <2>4 DEF Create, SendCreate, CreateFails, authVars, NoFault
  <2>5. CASE UNCHANGED vars
    BY <2>2, <2>5 DEF vars, authVars, NoFault
  <2> QED BY <2>1, <2>3, <2>4, <2>5 DEF Next, AuthNext
<1> QED BY <1>1, <1>2, Invariant, PTL DEF Spec

\* Rotation replaces tokens: however many refreshes race, an account has a live
\* token at most for each successful register or login, each refresh that found
\* its token revoked under its hands, and each fault.
THEOREM LiveTokensBounded == Spec => []LiveBounded
<1>1. LiveInv /\ Inv => LiveBounded
  <2> SUFFICES ASSUME LiveInv, Inv, NEW e \in Emails
               PROVE  Cardinality(Live(e))
                        <= Cardinality(Firsts(e)) + Cardinality(Forks(e)) + faults
    BY DEF LiveBounded, Live, Firsts, Forks
  <2>1. Balanced(e) /\ faults \in Nat
    BY DEF LiveInv, Inv, AuthInv, AuthTypeOK
  <2>2. /\ Cardinality(Live(e)) \in Nat /\ Cardinality(Firsts(e)) \in Nat
        /\ Cardinality(Forks(e)) \in Nat /\ Cardinality(Pending(e)) \in Nat
    BY <2>1, FS_CardinalityType DEF Balanced
  <2> QED BY <2>1, <2>2 DEF Balanced
<1> QED BY <1>1, LiveInvariant, Invariant, PTL
=============================================================================
