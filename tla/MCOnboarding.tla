------------------------------ MODULE MCOnboarding ------------------------------
(***************************************************************************)
(* One e-mail.  r1 and r2 register it at once, with different passwords;   *)
(* f1 and f2 refresh the token of r1, f1 once r2 is over and f2 at any     *)
(* time; l logs in once f1 is over; w1 and w2 create the same wallet.      *)
(***************************************************************************)
EXTENDS Onboarding, TLC

CONSTANTS r1, r2, l, f1, f2, w1, w2, e, p1, p2

MCOp == [c \in Calls |->
           CASE c \in {r1, r2} -> "register" [] c = l -> "login" [] OTHER -> "refresh"]
MCEmail == [c \in Calls |-> e]
MCPassword == [c \in Calls |-> IF c = r2 THEN p2 ELSE p1]
MCUses == [c \in Calls |-> CASE c \in {f1, f2} -> r1 [] OTHER -> NoCall]
MCAfter == [c \in Calls |-> CASE c = l -> f1 [] c = f1 -> r2 [] OTHER -> NoCall]
MCAccounts == {<<e, "USD">>}
MCAccount == [r \in Creates |-> <<e, "USD">>]
MCBearer == [r \in Creates |-> IF r = w1 THEN r1 ELSE l]
=============================================================================
