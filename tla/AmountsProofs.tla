----------------------------- MODULE AmountsProofs -----------------------------
(***************************************************************************)
(* Sums and differences of small amounts are exact, and a balance is found *)
(* sufficient if it is; proved from the contract of the rounding alone.    *)
(***************************************************************************)
EXTENDS Amounts, TLAPS

\* An error of less than half a unit: what is printed is the exact amount.
LEMMA TextExact ==
  ASSUME NEW n \in Int, NEW f \in Int, Grid \in Nat \ {0},
         2 * Magnitude(f - n * Grid) < Grid
  PROVE  Text(f) = {n}
PROOF
<1> DEFINE q == f \div Grid
<1>1. /\ q \in Int
      /\ q * Grid <= f
      /\ f < (q + 1) * Grid
  OBVIOUS
<1>2. n * Grid \in Int /\ q * Grid \in Int /\ (q + 1) * Grid = q * Grid + Grid
  BY <1>1
<1>3. n \in q .. q + 1
  <2>1. CASE n < q
    <3>1. (n + 1) * Grid <= q * Grid  BY <2>1, <1>1
    <3>2. (n + 1) * Grid = n * Grid + Grid  OBVIOUS
    <3> QED BY <3>1, <3>2, <1>1, <1>2 DEF Magnitude
  <2>2. CASE n > q + 1
    <3>1. (q + 2) * Grid <= n * Grid  BY <2>2, <1>1
    <3>2. (q + 2) * Grid = (q + 1) * Grid + Grid  BY <1>1
    <3> QED BY <3>1, <3>2, <1>1, <1>2 DEF Magnitude
  <2> QED BY <2>1, <2>2, <1>1
<1>4. 2 * Magnitude(n * Grid - f) <= Grid
  BY <1>2 DEF Magnitude
<1>5. ASSUME NEW m \in q .. q + 1, 2 * Magnitude(m * Grid - f) <= Grid
      PROVE  m = n
  <2>1. m \in Int /\ m * Grid \in Int  BY <1>1
  <2>2. CASE m < n
    <3>1. (m + 1) * Grid <= n * Grid  BY <2>1, <2>2
    <3>2. (m + 1) * Grid = m * Grid + Grid  BY <2>1
    <3> QED BY <3>1, <3>2, <1>2, <1>5, <2>1 DEF Magnitude
  <2>3. CASE m > n
    <3>1. (n + 1) * Grid <= m * Grid  BY <2>1, <2>3
    <3>2. (n + 1) * Grid = n * Grid + Grid  OBVIOUS
    <3> QED BY <3>1, <3>2, <1>2, <1>5, <2>1 DEF Magnitude
  <2> QED BY <2>1, <2>2, <2>3
<1> QED BY <1>3, <1>4, <1>5 DEF Text

\* The errors of the two operands and of the result, together.
LEMMA ErrorBound ==
  ASSUME NEW x \in Int, NEW y \in Int, NEW X \in Int, NEW Y \in Int, NEW R \in Int,
         NEW P \in Nat \ {0},
         Magnitude(X - x) * P <= Magnitude(x),
         Magnitude(Y - y) * P <= Magnitude(y),
         Magnitude(R - (X + Y)) * P <= Magnitude(X + Y)
  PROVE  Magnitude(R - (x + y)) * P <= 3 * (Magnitude(x) + Magnitude(y))
PROOF
<1> DEFINE dx == Magnitude(X - x)
           dy == Magnitude(Y - y)
           dr == Magnitude(R - (X + Y))
           d  == Magnitude(R - (x + y))
<1>1. dx \in Nat /\ dy \in Nat /\ dr \in Nat /\ d \in Nat
  BY DEF Magnitude
<1>2. d <= dx + dy + dr
  BY DEF Magnitude
<1>3. dx <= dx * P /\ dy <= dy * P
  BY <1>1
<1>4. Magnitude(X + Y) <= Magnitude(x) + Magnitude(y) + dx + dy
  BY DEF Magnitude
<1>5. d * P <= (dx + dy + dr) * P
  BY <1>1, <1>2
<1>6. (dx + dy + dr) * P = dx * P + dy * P + dr * P
  BY <1>1
<1>7. /\ Magnitude(x) \in Nat /\ Magnitude(y) \in Nat /\ Magnitude(X + Y) \in Nat
      /\ dx * P \in Int /\ dy * P \in Int /\ dr * P \in Int /\ d * P \in Int
  BY <1>1 DEF Magnitude
<1> HIDE DEF dx, dy, dr, d
<1>8. d * P <= 3 * (Magnitude(x) + Magnitude(y))
  <2>1. dx * P <= Magnitude(x) /\ dy * P <= Magnitude(y) /\ dr * P <= Magnitude(X + Y)
    BY DEF dx, dy, dr
  <2> QED BY <2>1, <1>1, <1>3, <1>4, <1>5, <1>6, <1>7
<1> QED BY <1>8 DEF d

\* A relative error of 3 / Precision of a small amount is less than half a unit.
LEMMA HalfUnit ==
  ASSUME NEW d \in Nat, NEW s \in Nat, NEW P \in Nat \ {0}, NEW G \in Nat \ {0},
         d * P <= 3 * (s * G), 6 * s < P
  PROVE  2 * d < G
PROOF
<1>1. SUFFICES ASSUME 2 * d >= G PROVE FALSE
  OBVIOUS
<1>2. G * P <= (2 * d) * P
  BY <1>1
<1>3. (6 * s) * G < P * G
  OBVIOUS
<1>4. /\ (2 * d) * P = 2 * (d * P) /\ (6 * s) * G = 6 * (s * G) /\ P * G = G * P
      /\ d * P \in Int /\ s * G \in Int /\ G * P \in Int
  OBVIOUS
<1> QED BY <1>2, <1>3, <1>4

\* The scaling of an amount to the grid commutes with the arithmetic.
LEMMA Products ==
  ASSUME NEW a \in Int, NEW b \in Int, NEW G \in Nat \ {0}
  PROVE  /\ Magnitude(a * G) = Magnitude(a) * G
         /\ Magnitude(a * G) + Magnitude(b * G) = (Magnitude(a) + Magnitude(b)) * G
         /\ a * G + b * G = (a + b) * G
         /\ a * G \in Int /\ (-a) * G = -(a * G)
         /\ Magnitude(a) \in Nat /\ Magnitude(-a) = Magnitude(a)
PROOF
<1>1. \A c \in Int : Magnitude(c * G) = Magnitude(c) * G
  <2> TAKE c \in Int
  <2>1. CASE c < 0
    <3>1. c * G < 0 BY <2>1
    <3> QED BY <2>1, <3>1 DEF Magnitude
  <2>2. CASE c >= 0
    <3>1. c * G >= 0 BY <2>2
    <3> QED BY <2>2, <3>1 DEF Magnitude
  <2> QED BY <2>1, <2>2
<1>2. Magnitude(a) \in Nat /\ Magnitude(b) \in Nat /\ Magnitude(-a) = Magnitude(a)
  BY DEF Magnitude
<1>3. Magnitude(a) * G + Magnitude(b) * G = (Magnitude(a) + Magnitude(b)) * G
  BY <1>2
<1>4. a * G + b * G = (a + b) * G /\ a * G \in Int /\ (-a) * G = -(a * G)
  OBVIOUS
<1> QED BY <1>1, <1>2, <1>3, <1>4
\* The rounded sum of two rounded operands lies within half a unit of the sum.
LEMMA RoundedSum ==
  ASSUME NEW a \in Int, NEW b \in Int, Small(a, b),
         a * Grid \in Exact, b * Grid \in Exact, SetString(a) + SetString(b) \in Exact
  PROVE  LET f == Round(SetString(a) + SetString(b))
         IN  f \in Int /\ 2 * Magnitude(f - (a + b) * Grid) < Grid
PROOF
<1> DEFINE x == a * Grid
           y == b * Grid
           X == Round(x)
           Y == Round(y)
           R == Round(X + Y)
<1>1. Grid \in Nat \ {0} /\ Precision \in Nat \ {0}
  BY AmountsConstants
<1>2. /\ x \in Int /\ y \in Int
      /\ Magnitude(x) + Magnitude(y) = (Magnitude(a) + Magnitude(b)) * Grid
      /\ x + y = (a + b) * Grid
      /\ Magnitude(a) \in Nat /\ Magnitude(b) \in Nat
  BY <1>1, Products
<1>3. X \in Int /\ Magnitude(X - x) * Precision <= Magnitude(x)
  BY <1>2, AmountsConstants
<1>4. Y \in Int /\ Magnitude(Y - y) * Precision <= Magnitude(y)
  BY <1>2, AmountsConstants
<1>5. X + Y \in Int /\ X + Y \in Exact
  BY <1>3, <1>4 DEF SetString
<1>6. R \in Int /\ Magnitude(R - (X + Y)) * Precision <= Magnitude(X + Y)
  BY <1>5, AmountsConstants
<1>7. Magnitude(R - (x + y)) * Precision <= 3 * (Magnitude(x) + Magnitude(y))
  <2> HIDE DEF x, y, X, Y, R
  <2> QED BY <1>1, <1>2, <1>3, <1>4, <1>6, ErrorBound
<1>8. Magnitude(R - (x + y)) \in Nat
  <2> HIDE DEF x, y, X, Y, R
  <2> QED BY <1>2, <1>6 DEF Magnitude
<1>9. 6 * (Magnitude(a) + Magnitude(b)) < Precision
  BY DEF Small
<1>10. 2 * Magnitude(R - (x + y)) < Grid
  <2> DEFINE d == Magnitude(R - (x + y))
             s == Magnitude(a) + Magnitude(b)
  <2>1. d * Precision <= 3 * (s * Grid)
    BY <1>7, <1>2
  <2>2. d \in Nat /\ s \in Nat /\ 6 * s < Precision
    BY <1>2, <1>8, <1>9
  <2> HIDE DEF d, s
  <2>3. 2 * d < Grid
    BY <2>1, <2>2, <1>1, HalfUnit
  <2> QED BY <2>3 DEF d
<1> QED BY <1>2, <1>6, <1>10 DEF SetString

\* addAmounts is exact on small amounts, whatever the tie rule of the printing:
\* a balance gains what is deposited, to the last decimal.
THEOREM AddExact ==
  ASSUME NEW a \in Int, NEW b \in Int, Small(a, b),
         a * Grid \in Exact, b * Grid \in Exact, SetString(a) + SetString(b) \in Exact
  PROVE  addAmounts(a, b) = {a + b}
PROOF
<1> DEFINE f == Round(SetString(a) + SetString(b))
<1>1. f \in Int /\ 2 * Magnitude(f - (a + b) * Grid) < Grid
  BY RoundedSum
<1>2. Grid \in Nat \ {0} /\ a + b \in Int
  BY AmountsConstants
<1> HIDE DEF f
<1>3. Text(f) = {a + b}
  BY <1>1, <1>2, TextExact
<1> QED BY <1>3 DEF addAmounts, f

\* subtractAmounts is exact on small amounts: a balance loses what is withdrawn.
THEOREM SubtractExact ==
  ASSUME NEW a \in Int, NEW b \in Int, Small(a, b),
         a * Grid \in Exact, b * Grid \in Exact, SetString(a) - SetString(b) \in Exact
  PROVE  subtractAmounts(a, b) = {a - b}
PROOF
<1> DEFINE x == a * Grid
           y == b * Grid
           X == Round(x)
           Y == Round(y)
           R == Round(X - Y)
<1>1. Grid \in Nat \ {0} /\ Precision \in Nat \ {0}
  BY AmountsConstants
<1>2. /\ x \in Int /\ y \in Int
      /\ Magnitude(x) + Magnitude(y) = (Magnitude(a) + Magnitude(b)) * Grid
      /\ Magnitude(a) \in Nat /\ Magnitude(b) \in Nat
  BY <1>1, Products
<1>3. X \in Int /\ Magnitude(X - x) * Precision <= Magnitude(x)
  BY <1>2, AmountsConstants
<1>4. Y \in Int /\ Magnitude(Y - y) * Precision <= Magnitude(y)
  BY <1>2, AmountsConstants
<1>5. X - Y \in Int /\ X - Y \in Exact
  BY <1>3, <1>4 DEF SetString
<1>6. R \in Int /\ Magnitude(R - (X - Y)) * Precision <= Magnitude(X - Y)
  BY <1>5, AmountsConstants
<1> HIDE DEF X, Y, R
\* The negated second operand turns the difference into a sum.
<1>7. /\ -y \in Int /\ -Y \in Int
      /\ Magnitude(-Y - (-y)) = Magnitude(Y - y) /\ Magnitude(-y) = Magnitude(y)
      /\ X + (-Y) = X - Y
  BY <1>2, <1>3, <1>4 DEF Magnitude
<1>8. Magnitude(R - (x + (-y))) * Precision <= 3 * (Magnitude(x) + Magnitude(-y))
  <2> HIDE DEF x, y
  <2> QED BY <1>1, <1>2, <1>3, <1>4, <1>6, <1>7, ErrorBound
<1>9. /\ (a - b) * Grid = x + (-y) /\ a - b \in Int
      /\ Magnitude(x) + Magnitude(-y) = (Magnitude(a) + Magnitude(b)) * Grid
  <2>1. (a - b) * Grid = x - y  BY <1>1
  <2> HIDE DEF x, y
  <2> QED BY <2>1, <1>2, <1>7
<1>10. 2 * Magnitude(R - (a - b) * Grid) < Grid
  <2> DEFINE d == Magnitude(R - (x + (-y)))
             s == Magnitude(a) + Magnitude(b)
  <2>1. d * Precision <= 3 * (s * Grid)
    BY <1>8, <1>9
  <2>2. s \in Nat /\ 6 * s < Precision
    BY <1>2 DEF Small
  <2>3. d \in Nat
    <3> HIDE DEF x, y
    <3> QED BY <1>2, <1>6, <1>7 DEF Magnitude
  <2> HIDE DEF d, s
  <2>4. 2 * d < Grid
    BY <2>1, <2>2, <2>3, <1>1, HalfUnit
  <2> QED BY <2>4, <1>9 DEF d
<1> HIDE DEF x, y
<1>11. Text(R) = {a - b}
  BY <1>1, <1>6, <1>9, <1>10, TextExact
<1> QED BY <1>11 DEF subtractAmounts, SetString, R, X, Y, x, y

\* hasSufficientBalance accepts every balance that covers the amount, of any
\* size, and on small amounts refuses every one that does not.
THEOREM SufficientExact ==
  ASSUME NEW balance \in Int, NEW amount \in Int,
         balance * Grid \in Exact, amount * Grid \in Exact
  PROVE  /\ balance >= amount => hasSufficientBalance(balance, amount)
         /\ Small(balance, amount) /\ balance < amount
               => ~ hasSufficientBalance(balance, amount)
PROOF
<1> DEFINE x == balance * Grid
           y == amount * Grid
           X == Round(x)
           Y == Round(y)
<1>1. Grid \in Nat \ {0} /\ Precision \in Nat \ {0}
  BY AmountsConstants
<1>2. x \in Int /\ y \in Int
  BY <1>1
<1>3. ASSUME balance >= amount PROVE Y <= X
  <2>1. y <= x  BY <1>1, <1>3
  <2> QED BY <2>1, <1>2, AmountsConstants
<1>4. X \in Int /\ Magnitude(X - x) * Precision <= Magnitude(x)
  BY <1>2, AmountsConstants
<1>5. Y \in Int /\ Magnitude(Y - y) * Precision <= Magnitude(y)
  BY <1>2, AmountsConstants
<1>6. ASSUME Small(balance, amount), balance < amount
      PROVE  X < Y
  <2> DEFINE s == Magnitude(balance) + Magnitude(amount)
             d == Magnitude(X - x) + Magnitude(Y - y)
  <2>1. x + Grid <= y
    <3>1. (balance + 1) * Grid <= amount * Grid  BY <1>1, <1>6
    <3>2. (balance + 1) * Grid = x + Grid  BY <1>1
    <3> QED BY <3>1, <3>2
  <2>2. Magnitude(x) + Magnitude(y) = s * Grid /\ s \in Nat
    <3>1. /\ Magnitude(x) + Magnitude(y) = (Magnitude(balance) + Magnitude(amount)) * Grid
          /\ Magnitude(balance) \in Nat /\ Magnitude(amount) \in Nat
      BY <1>1, Products
    <3> QED BY <3>1
  <2>3. d * Precision <= 3 * (s * Grid)
    <3> DEFINE dx == Magnitude(X - x)
               dy == Magnitude(Y - y)
               mx == Magnitude(x)
               my == Magnitude(y)
    <3>1. /\ dx \in Nat /\ dx * Precision <= mx /\ mx \in Nat
          /\ dy \in Nat /\ dy * Precision <= my /\ my \in Nat
      <4> HIDE DEF X, Y, x, y
      <4> QED BY <1>2, <1>4, <1>5 DEF Magnitude
    <3> HIDE DEF dx, dy, mx, my
    <3>2. (dx + dy) * Precision = dx * Precision + dy * Precision
      BY <3>1, <1>1
    <3>3. /\ (dx + dy) * Precision \in Int
          /\ dx * Precision \in Int /\ dy * Precision \in Int
      BY <3>1, <1>1
    <3>4. (dx + dy) * Precision <= 3 * (mx + my)
      BY <3>1, <3>2, <3>3
    <3> HIDE DEF s
    <3> QED BY <3>4, <2>2 DEF dx, dy, mx, my
  <2>4. d \in Nat
    <3> HIDE DEF X, Y, x, y
    <3> QED BY <1>2, <1>4, <1>5 DEF Magnitude
  <2>5. 2 * d < Grid
    <3>1. 6 * s < Precision  BY <1>6 DEF Small
    <3> HIDE DEF s, d
    <3> QED BY <3>1, <2>2, <2>3, <2>4, <1>1, HalfUnit
  <2> HIDE DEF X, Y, x, y
  <2> QED BY <2>1, <2>5, <1>1, <1>2, <1>4, <1>5 DEF Magnitude
<1>7. (Y <= X <=> hasSufficientBalance(balance, amount))
  BY <1>4, <1>5 DEF hasSufficientBalance, SetString
<1> HIDE DEF X, Y
<1> QED BY <1>3, <1>4, <1>5, <1>6, <1>7
=============================================================================
