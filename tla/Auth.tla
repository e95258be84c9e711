---------------------------------- MODULE Auth ----------------------------------
(***************************************************************************)
(* internal/auth: Register, Login and RefreshAccessToken as concurrent     *)
(* calls to any number of instances, over the tables users and             *)
(* refresh_tokens, where every statement commits by itself.                *)
(*                                                                         *)
(* A refresh token is a JWT of the user and the times of issue and expiry  *)
(* in whole seconds: two tokens of one user in one second are the same     *)
(* string, and UNIQUE (token_hash) admits one of them.  A token is         *)
(* therefore <<e-mail, second of issue>>.  Seconds may pass between that   *)
(* second, the one that expires_at is counted from and the INSERT; of an   *)
(* access token, only its second matters.                                  *)
(*                                                                         *)
(* A fault is a query that fails, a statement whose answer is lost, or a   *)
(* call that stops: a dead process or a client that hangs up.              *)
(***************************************************************************)
EXTENDS Naturals, FiniteSets

CONSTANTS Calls,
          Op,          \* "register", "login" or "refresh"
          Emails, Passwords,
          Email,       \* whose account a call is about
          Password,    \* what a register or a login comes with
          Uses,        \* a refresh presents the token this call was answered
          After,       \* the client sends a call once this one is over
          NoCall, NoUser,
          RefreshTTL, AccessTTL,   \* seconds
          MaxTime, MaxFaults

ASSUME AuthConstants ==
  /\ NoCall \notin Calls /\ NoCall \notin Emails \X Nat
  /\ NoUser \notin Passwords
  /\ Op \in [Calls -> {"register", "login", "refresh"}]
  /\ Email \in [Calls -> Emails]
  /\ Password \in [Calls -> Passwords]
  /\ Uses \in [Calls -> Calls \cup {NoCall}]
  /\ \A c \in Calls : Op[c] = "refresh" => Uses[c] # NoCall /\ Email[Uses[c]] = Email[c]
  /\ After \in [Calls -> Calls \cup {NoCall}]
  /\ RefreshTTL \in Nat \ {0} /\ AccessTTL \in Nat \ {0}
  /\ MaxTime \in Nat /\ MaxFaults \in Nat

Tokens == Emails \X (0..MaxTime)

VARIABLES users,     \* table users: the password of each account
          tokens,    \* table refresh_tokens: status of the row of each token
          expires,   \* and its expires_at, in whole seconds
          clock,     \* seconds
          pc, outcome, got,   \* the calls; the token a call was answered
          found,     \* the password a login or register found for its e-mail
          since,     \* the second of the last statement of an open call
          access,    \* the second of the access token of a call
          collided,  \* history: calls whose token was refused by UNIQUE
          late,      \* history: refreshes sent after another with the same token succeeded
          forked,    \* history: refreshes that revoked a token revoked already
          faults

accounts == <<users, tokens, expires>>
calls    == <<pc, outcome, got, found, since, access>>
marks    == <<collided, late, forked>>
authVars == <<accounts, clock, calls, marks, faults>>

AuthTypeOK ==
  /\ users \in [Emails -> Passwords \cup {NoUser}]
  /\ tokens \in [Tokens -> {"absent", "live", "revoked"}]
  /\ expires \in [Tokens -> Nat]
  /\ clock \in 0..MaxTime
  /\ pc \in [Calls -> {"start", "create", "revoke", "issue", "done"}]
  /\ outcome \in [Calls -> {"none", "ok", "error", "abandoned"}]
  /\ got \in [Calls -> Tokens \cup {NoCall}]
  /\ \A c \in Calls : got[c] # NoCall <=> outcome[c] = "ok"
  /\ found \in [Calls -> Passwords \cup {NoUser}]
  /\ since \in [Calls -> 0..clock] /\ access \in [Calls -> 0..clock]
  /\ collided \subseteq Calls /\ late \subseteq Calls /\ forked \subseteq Calls
  /\ faults \in 0..MaxFaults

AuthInit ==
  /\ users = [e \in Emails |-> NoUser]
  /\ tokens = [t \in Tokens |-> "absent"]
  /\ expires = [t \in Tokens |-> 0]
  /\ clock = 0
  /\ pc = [c \in Calls |-> "start"]
  /\ outcome = [c \in Calls |-> "none"]
  /\ got = [c \in Calls |-> NoCall]
  /\ found = [c \in Calls |-> NoUser]
  /\ since = [c \in Calls |-> 0] /\ access = [c \in Calls |-> 0]
  /\ collided = {} /\ late = {} /\ forked = {}
  /\ faults = 0

Fault == faults < MaxFaults /\ faults' = faults + 1
NoFault == UNCHANGED faults

\* Variants named ...Bug are plausible mistakes in the definition that follows
\* them; nothing uses them, they serve to show what a property depends on.

\* The time counts where a token is generated next.
MoveOn(c, l) ==
  /\ pc' = [pc EXCEPT ![c] = l]
  /\ since' = [since EXCEPT ![c] = IF l \in {"revoke", "issue"} THEN clock ELSE 0]
  /\ UNCHANGED <<outcome, got>>

Goto(c, l) == MoveOn(c, l) /\ UNCHANGED access

\* The call is over.
Leave(c, o) ==
  /\ pc' = [pc EXCEPT ![c] = "done"]
  /\ outcome' = [outcome EXCEPT ![c] = o]
  /\ since' = [since EXCEPT ![c] = 0]

End(c, o) == Leave(c, o) /\ access' = [access EXCEPT ![c] = 0] /\ UNCHANGED got

Sent(c) ==
  /\ pc[c] = "start"
  /\ \A d \in {After[c]} \ {NoCall} : pc[d] = "done"

-----------------------------------------------------------------------------
(* Register and Login.                                                     *)

\* Any error of the look-up counts as "no such user".
GetUserForRegister(c) ==
  /\ Op[c] = "register" /\ Sent(c)
  /\ \/ /\ found' = [found EXCEPT ![c] = users[Email[c]]]
        /\ IF users[Email[c]] = NoUser THEN Goto(c, "create") ELSE End(c, "error")
        /\ NoFault
     \/ Goto(c, "create") /\ UNCHANGED found /\ Fault
  /\ UNCHANGED <<accounts, clock, marks>>

\* UNIQUE (email) refuses a second row.
CreateUser(c) ==
  /\ pc[c] = "create"
  /\ \/ /\ users[Email[c]] = NoUser
        /\ users' = [users EXCEPT ![Email[c]] = Password[c]]
        /\ \/ Goto(c, "issue") /\ NoFault
           \/ End(c, "error") /\ Fault              \* its answer is lost
     \/ users[Email[c]] # NoUser /\ End(c, "error") /\ UNCHANGED users /\ NoFault
     \/ End(c, "error") /\ UNCHANGED users /\ Fault
  /\ UNCHANGED <<tokens, expires, clock, found, marks>>

GetUserForLogin(c) ==
  /\ Op[c] = "login" /\ Sent(c)
  /\ \/ /\ found' = [found EXCEPT ![c] = users[Email[c]]]
        /\ IF users[Email[c]] = Password[c] THEN Goto(c, "issue") ELSE End(c, "error")
        /\ NoFault
     \/ End(c, "error") /\ UNCHANGED found /\ Fault
  /\ UNCHANGED <<accounts, clock, marks>>

-----------------------------------------------------------------------------
(* The tokens.                                                             *)

\* The row is inserted: its expires_at is of a second between its issue and now.
Insert(t) ==
  /\ tokens[t] = "absent"
  /\ tokens' = [tokens EXCEPT ![t] = "live"]
  /\ \E s \in t[2]..clock : expires' = [expires EXCEPT ![t] = s + RefreshTTL]

\* A register or a login generates the access token just before; a refresh has.
GenerateToken(c, t) ==
  IF Op[c] = "refresh" THEN UNCHANGED access
  ELSE \E s \in since[c]..t[2] : access' = [access EXCEPT ![c] = s]

Answer(c, t) ==
  /\ GenerateToken(c, t)
  /\ Leave(c, "ok")
  /\ got' = [got EXCEPT ![c] = t]

\* GenerateRefreshToken, some time since the last statement of the call, and
\* CreateRefreshToken.
IssueToken(c) ==
  /\ pc[c] = "issue"
  /\ \/ \E n \in since[c]..clock :
          LET t == <<Email[c], n>> IN
          \/ /\ Insert(t)
             /\ \/ Answer(c, t) /\ NoFault
                \/ End(c, "error") /\ Fault           \* its answer is lost
             /\ UNCHANGED collided
          \/ /\ tokens[t] # "absent"
             /\ End(c, "error")
             /\ collided' = collided \cup {c}
             /\ UNCHANGED <<tokens, expires>> /\ NoFault
     \/ End(c, "error") /\ UNCHANGED <<tokens, expires, collided>> /\ Fault
  /\ UNCHANGED <<users, clock, found, late, forked>>

Presented(c) == got[Uses[c]]

\* expires_at carries a fraction of a second, the clock does not.
MayBeExpired(t) == clock >= expires[t]
MayBeValid(t)   == clock <= expires[t]

Present(c) == Op[c] = "refresh" /\ Sent(c) /\ Presented(c) # NoCall

SameToken(c) == {d \in Calls \ {c} : Op[d] = "refresh" /\ Uses[d] = Uses[c]}

NoteLate(c) ==
  late' = IF \E d \in SameToken(c) : outcome[d] = "ok" THEN late \cup {c} ELSE late

\* The column revoked is not looked at.
GetRefreshTokenBug(c) ==
  /\ Present(c)
  /\ Goto(c, "revoke")
  /\ NoteLate(c)
  /\ UNCHANGED <<accounts, clock, found, collided, forked, faults>>

\* The row expires with the access token.
GetRefreshTokenEarlyBug(c) ==
  /\ Present(c)
  /\ IF tokens[Presented(c)] = "live" /\ clock < Presented(c)[2] + AccessTTL
     THEN Goto(c, "revoke") ELSE End(c, "error")
  /\ NoteLate(c)
  /\ UNCHANGED <<accounts, clock, found, collided, forked, faults>>

GetRefreshToken(c) ==
  /\ Present(c)
  /\ \/ /\ tokens[Presented(c)] = "live" /\ MayBeValid(Presented(c))
        /\ Goto(c, "revoke") /\ NoFault
     \/ /\ tokens[Presented(c)] # "live" \/ MayBeExpired(Presented(c))
        /\ End(c, "error") /\ NoFault
     \/ End(c, "error") /\ Fault
  /\ NoteLate(c)
  /\ UNCHANGED <<accounts, clock, found, collided, forked>>

\* The old token stays as it is.
RevokeRefreshTokenBug(c) ==
  /\ pc[c] = "revoke"
  /\ Goto(c, "issue")
  /\ UNCHANGED <<accounts, clock, found, marks, faults>>

\* The access token is generated before; a failure is only logged.
RevokeRefreshToken(c) ==
  /\ pc[c] = "revoke"
  /\ \/ /\ tokens' = [tokens EXCEPT ![Presented(c)] = "revoked"]
        /\ forked' = IF tokens[Presented(c)] = "revoked" THEN forked \cup {c} ELSE forked
        /\ NoFault
     \/ UNCHANGED <<tokens, forked>> /\ Fault
  /\ \E s \in since[c]..clock : access' = [access EXCEPT ![c] = s]
  /\ MoveOn(c, "issue")
  /\ UNCHANGED <<users, expires, clock, found, collided, late>>

-----------------------------------------------------------------------------
Abandon(c) ==
  /\ pc[c] \notin {"start", "done"}
  /\ End(c, "abandoned")
  /\ Fault
  /\ UNCHANGED <<accounts, clock, found, marks>>

Tick ==
  /\ clock < MaxTime
  /\ clock' = clock + 1
  /\ UNCHANGED <<accounts, calls, marks, faults>>

AuthStep(c) ==
  \/ GetUserForRegister(c) \/ CreateUser(c) \/ GetUserForLogin(c) \/ IssueToken(c)
  \/ GetRefreshToken(c) \/ RevokeRefreshToken(c)

AuthNext == Tick \/ \E c \in Calls : AuthStep(c) \/ Abandon(c)

AuthSpec == AuthInit /\ [][AuthNext]_authVars

\* JWTAuth: the access token that came with the answer has not expired.
Authenticated(c) == got[c] # NoCall /\ clock < access[c] + AccessTTL

-----------------------------------------------------------------------------
(* Safety.                                                                 *)

\* A token works once: a refresh sent after another one with the same token
\* succeeded is refused, unless a fault kept the token from being revoked.
ReplayRefused == \A c \in late : outcome[c] = "ok" => faults > 0

\* Rotation replaces a token, it does not add one: an account has at most a
\* live token for each register or login that succeeded, one for each refresh
\* that raced another for the same token, and one for each fault.
LiveBounded ==
  \A e \in Emails :
    Cardinality({t \in Tokens : t[1] = e /\ tokens[t] = "live"})
      <= Cardinality({c \in Calls : Email[c] = e /\ Op[c] # "refresh" /\ outcome[c] = "ok"})
           + Cardinality({c \in forked : Email[c] = e}) + faults

\* A call fails only for a reason: the account exists, the password is not its
\* password, the token was used by another call or has expired, or a token of
\* the account was issued in the same second.  The last is no fault of the
\* client's: a refresh in that second has revoked its token and issued none.
RefusedForAReason ==
  faults = 0 =>
    \A c \in Calls :
      outcome[c] = "error" =>
        \/ c \in collided
        \/ Op[c] = "register" /\ users[Email[c]] # NoUser
        \/ Op[c] = "login" /\ found[c] # Password[c]
        \/ /\ Op[c] = "refresh"
           /\ \/ MayBeExpired(Presented(c))
              \/ \E d \in SameToken(c) : pc[d] \in {"issue", "done"}
=============================================================================
