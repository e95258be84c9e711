------------------------------- MODULE MCWallet -------------------------------
(***************************************************************************)
(* Scenarios for module Wallet.  A request is named for what it does:      *)
(* t12 and t21 transfer between wallets 1 and 2, dN and wN deposit to and  *)
(* withdraw from wallet N, and x is a second call under the key of another. *)
(* It also tries the amount arithmetic with a mantissa of five bits.       *)
(***************************************************************************)
EXTENDS Wallet, Amounts, TLC

CONSTANTS t12, t21, d1, d2, w1, d1x, w1x, g1, g2, k1, k2, k3

MCFrom == [r \in Requests |->
             CASE r \in {t12, w1, w1x} -> 1 [] r = t21 -> 2 [] OTHER -> NoWallet]
MCTo == [r \in Requests |->
           CASE r \in {t21, d1, d1x} -> 1 [] r \in {t12, d2} -> 2 [] OTHER -> NoWallet]
MCAmount == [r \in Requests |-> IF r \in {t12, w1, w1x} THEN 2 ELSE 1]
MCKey == [r \in Requests |->
            CASE r \in {t12, d1, d1x} -> k1 [] r \in {t21, d2} -> k2 [] OTHER -> k3]

\* Each request under its own key but the second call.
OwnKey == [MCKey EXCEPT ![t12] = k3]

\* The second call under a key is a retry, or a concurrent duplicate.  Beside
\* the client that retries, another sends d2 after t12.
Retries == [r \in Requests |->
              CASE r = w1x -> w1 [] r = d1x -> d1 [] r = d2 -> t12 [] OTHER -> NoRequest]
Concurrent == [r \in Requests |-> NoRequest]

MCAsks == [g \in Readers |-> 1]

MCOpening == [w \in Wallets |-> 2]

\* Floats with a mantissa of five bits, for amounts with one decimal: in the
\* 1/128 of a unit of 0.1 that Amounts counts in, m * 5 * 2^e with 16 <= m < 32.
MCPrecision == 32
MCGrid == 128
MCAmounts == -12 .. 12

\* The sums of floats that occur are multiples of 5.
MCExact == {a * MCGrid : a \in MCAmounts} \union {5 * i : i \in -640 .. 640}

MCSpacing(m) == CHOOSE s \in {5 * 2^e : e \in 0 .. 6} :
                  /\ m < 32 * s
                  /\ s = 5 \/ m >= 16 * s

\* To nearest, a tie away from zero.
MCNearest(m) == LET s == MCSpacing(m) IN s * ((2 * m + s) \div (2 * s))

MCRounded == [x \in MCExact |-> IF x < 0 THEN -MCNearest(-x) ELSE MCNearest(x)]

MCRound(x) == MCRounded[x]

\* What AmountsProofs shows for every precision, and that it is lost further up.
ASSUME SmallAmountsExact ==
  \A a, b \in MCAmounts :
    Small(a, b) => /\ addAmounts(a, b) = {a + b}
                   /\ subtractAmounts(a, b) = {a - b}
                   /\ hasSufficientBalance(a, b) <=> a >= b

ASSUME LargeAmountsRounded ==
  \E a, b \in MCAmounts : a + b \notin addAmounts(a, b)

\* The total of a batch, whose floats are rounded at each addition.
ASSUME SmallBatchExact ==
  \A transfers \in BoundedSeq(1 .. 2, 3) :
    CalculateBatchTotal(transfers) = {FoldLeft(+, 0, transfers)}
=============================================================================
