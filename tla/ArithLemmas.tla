---------------------------- MODULE ArithLemmas -----------------------------
(* Integer division by a positive number, for every dividend, and the      *)
(* conversions between atoms and shares that are built from it.            *)
EXTENDS Fp48Math, TLAPS

\* The quotient is the floor.
LEMMA DivFloor ==
    ASSUME NEW a \in Nat, NEW c \in Nat \ {0}
    PROVE  /\ a \div c \in Nat
           /\ c * (a \div c) <= a
           /\ a < c * (a \div c) + c
  BY SMT

\* Floors keep the order of the dividends.
LEMMA DivMono ==
    ASSUME NEW a \in Nat, NEW b \in Nat, NEW c \in Nat \ {0}, a <= b
    PROVE  a \div c <= b \div c
  BY SMT

\* Two floors never exceed the floor of the sum.
LEMMA DivSuper ==
    ASSUME NEW a \in Nat, NEW b \in Nat, NEW c \in Nat \ {0}
    PROVE  a \div c + b \div c <= (a + b) \div c
  BY SMT

\* A larger divisor never yields a larger quotient.
LEMMA DivAnti ==
    ASSUME NEW a \in Nat, NEW c \in Nat \ {0}, NEW d \in Nat \ {0}, c <= d
    PROVE  a \div d <= a \div c
  BY SMT

\* Scaling down by a ratio of at most one never grows.
LEMMA MulDivBack ==
    ASSUME NEW a \in Nat, NEW c \in Nat \ {0}, NEW d \in Nat, d <= c
    PROVE  (a * d) \div c <= a
  BY SMT

\* The floor of a sum exceeds the two floors by at most one.
LEMMA DivSub ==
    ASSUME NEW a \in Nat, NEW b \in Nat, NEW c \in Nat \ {0}
    PROVE  (a + b) \div c <= a \div c + b \div c + 1
  BY SMT

-----------------------------------------------------------------------------
(* Shares *)

\* Converting atoms to shares yields a natural number, zero for zero.
LEMMA SharesTyped ==
    ASSUME NEW a \in Nat, NEW v \in Nat \ {0}
    PROVE  /\ amount_to_asset_shares(a, v) \in Nat
           /\ amount_to_asset_shares(0, v) = 0
<1>1. (a * SCALE) * SCALE \in Nat /\ (0 * SCALE) * SCALE = 0
  BY ScaleAssumption, SMT
<1>2. 0 \div v = 0
  BY SMT
<1> QED BY <1>1, <1>2, DivFloor DEF amount_to_asset_shares, div_scale, to_scaled

\* Splitting atoms in two never yields more shares than the whole.
LEMMA SharesSuperadditive ==
    ASSUME NEW a \in Nat, NEW b \in Nat, NEW v \in Nat \ {0}
    PROVE  amount_to_asset_shares(a, v) + amount_to_asset_shares(b, v)
             <= amount_to_asset_shares(a + b, v)
<1> DEFINE x == (a * SCALE) * SCALE
           y == (b * SCALE) * SCALE
<1>1. x \in Nat /\ y \in Nat /\ ((a + b) * SCALE) * SCALE = x + y
  BY ScaleAssumption, SMT
<1>2. /\ amount_to_asset_shares(a, v) = x \div v
      /\ amount_to_asset_shares(b, v) = y \div v
      /\ amount_to_asset_shares(a + b, v) = (x + y) \div v
  BY <1>1 DEF amount_to_asset_shares, div_scale, to_scaled
<1> HIDE DEF x, y
<1> QED BY <1>1, <1>2, DivSuper

\* The same atoms are fewer shares once the share value has grown.
LEMMA SharesAntitone ==
    ASSUME NEW a \in Nat, NEW v \in Nat \ {0}, NEW w \in Nat \ {0}, v <= w
    PROVE  amount_to_asset_shares(a, w) <= amount_to_asset_shares(a, v)
<1> DEFINE x == (a * SCALE) * SCALE
<1>1. x \in Nat
  BY ScaleAssumption, SMT
<1>2. /\ amount_to_asset_shares(a, v) = x \div v
      /\ amount_to_asset_shares(a, w) = x \div w
  BY DEF amount_to_asset_shares, div_scale, to_scaled
<1> HIDE DEF x
<1> QED BY <1>1, <1>2, DivAnti

\* Atoms converted to shares and back never grow.
LEMMA RoundTripLoses ==
    ASSUME NEW a \in Nat, NEW v \in Nat \ {0}
    PROVE  /\ shares_to_amount(amount_to_asset_shares(a, v), v) \in Nat
           /\ shares_to_amount(amount_to_asset_shares(a, v), v) <= a
<1> DEFINE x == (a * SCALE) * SCALE
           q == x \div v
           z == (q * v) \div SCALE
<1>1. x \in Nat /\ a * SCALE \in Nat /\ SCALE \in Nat \ {0}
  BY ScaleAssumption, SMT
<1>2. q \in Nat /\ v * q <= x
  <2> HIDE DEF x
  <2> QED BY <1>1, DivFloor
<1>3. q * v \in Nat /\ q * v <= (a * SCALE) * SCALE
  <2> HIDE DEF q
  <2>1. q * v = v * q BY <1>2, SMT
  <2>2. q * v \in Nat BY <1>2, SMT
  <2> QED BY <1>2, <2>1, <2>2
<1>4. z \in Nat /\ z <= a * SCALE
  <2> DEFINE y == q * v
             s == a * SCALE
  <2>1. y \in Nat /\ s \in Nat /\ y <= s * SCALE
    BY <1>1, <1>3
  <2> SUFFICES y \div SCALE \in Nat /\ y \div SCALE <= s OBVIOUS
  <2> HIDE DEF y, s, q, x, z
  <2>2. SCALE * (y \div SCALE) <= y /\ y \div SCALE \in Nat
    BY <1>1, <2>1, DivFloor
  <2> DEFINE m == y \div SCALE
  <2> HIDE DEF m
  <2>3. m \in Nat /\ SCALE * m <= s * SCALE
    <3>1. m \in Nat /\ SCALE * m <= y BY <2>2 DEF m
    <3> QED BY <1>1, <2>1, <3>1, SMT
  <2>4. m <= s
    BY <1>1, <2>1, <2>3, SMT
  <2> QED BY <2>3, <2>4 DEF m
<1>5. z \div SCALE \in Nat /\ z \div SCALE <= a
  <2> HIDE DEF z
  <2>1. SCALE * (z \div SCALE) <= z /\ z \div SCALE \in Nat
    BY <1>1, <1>4, DivFloor
  <2> DEFINE m == z \div SCALE
  <2> HIDE DEF m
  <2>2. m \in Nat /\ SCALE * m <= a * SCALE
    <3>1. m \in Nat /\ SCALE * m <= z BY <2>1 DEF m
    <3> QED BY <1>1, <1>4, <3>1, SMT
  <2>3. m <= a
    BY <1>1, <2>2, SMT
  <2> QED BY <2>2, <2>3 DEF m
<1> QED BY <1>5 DEF shares_to_amount, amount_to_asset_shares, div_scale, to_scaled,
                    mul_scale, from_scaled_floor

\* More atoms are at least as many shares.
LEMMA SharesMonotone ==
    ASSUME NEW a \in Nat, NEW b \in Nat, NEW v \in Nat \ {0}, a <= b
    PROVE  amount_to_asset_shares(a, v) <= amount_to_asset_shares(b, v)
<1> DEFINE x == (a * SCALE) * SCALE
           y == (b * SCALE) * SCALE
<1>1. x \in Nat /\ y \in Nat /\ x <= y
  <2>1. a * SCALE \in Nat /\ b * SCALE \in Nat /\ a * SCALE <= b * SCALE
    BY ScaleAssumption, SMT
  <2> DEFINE d == a * SCALE
             e == b * SCALE
  <2> HIDE DEF d, e
  <2>2. d * SCALE \in Nat /\ e * SCALE \in Nat /\ d * SCALE <= e * SCALE
    BY <2>1, ScaleAssumption, SMT DEF d, e
  <2> QED BY <2>2 DEF d, e
<1>2. /\ amount_to_asset_shares(a, v) = x \div v
      /\ amount_to_asset_shares(b, v) = y \div v
  BY DEF amount_to_asset_shares, div_scale, to_scaled
<1> HIDE DEF x, y
<1> QED BY <1>1, <1>2, DivMono

\* Shares are worth a natural number of atoms, and more shares at least as many.
LEMMA AmountMonotone ==
    ASSUME NEW n \in Nat, NEW m \in Nat, NEW v \in Nat, n <= m
    PROVE  /\ shares_to_amount(n, v) \in Nat
           /\ shares_to_amount(n, v) <= shares_to_amount(m, v)
<1>1. n * v \in Nat /\ m * v \in Nat /\ n * v <= m * v
  BY SMT
<1> DEFINE x == n * v
           y == m * v
<1>2. x \in Nat /\ y \in Nat /\ x <= y
  BY <1>1
<1> HIDE DEF x, y
<1>3. /\ x \div SCALE \in Nat /\ y \div SCALE \in Nat
      /\ x \div SCALE <= y \div SCALE
  BY <1>2, ScaleAssumption, DivFloor, DivMono
<1>4. /\ (x \div SCALE) \div SCALE \in Nat
      /\ (x \div SCALE) \div SCALE <= (y \div SCALE) \div SCALE
  BY <1>3, ScaleAssumption, DivFloor, DivMono
<1> QED BY <1>4 DEF x, y, shares_to_amount, from_scaled_floor, mul_scale

\* Shares converted to atoms and back never grow.
LEMMA ShareRoundTrip ==
    ASSUME NEW n \in Nat, NEW v \in Nat \ {0}
    PROVE  amount_to_asset_shares(shares_to_amount(n, v), v) <= n
<1> DEFINE x == n * v
           y == x \div SCALE
           z == y \div SCALE
<1>1. x \in Nat
  BY SMT
<1>2. y \in Nat /\ SCALE * y <= x
  <2> HIDE DEF x
  <2> QED BY <1>1, ScaleAssumption, DivFloor
<1>3. z \in Nat /\ SCALE * z <= y
  <2> HIDE DEF y
  <2> QED BY <1>2, ScaleAssumption, DivFloor
<1>4. (z * SCALE) * SCALE \in Nat /\ (z * SCALE) * SCALE <= n * v
  <2> HIDE DEF z, y, x
  <2>1. z * SCALE \in Nat /\ z * SCALE <= y
    BY <1>2, <1>3, ScaleAssumption, SMT
  <2> DEFINE u == z * SCALE
  <2> HIDE DEF u
  <2>2. u \in Nat /\ u <= y BY <2>1 DEF u
  <2>3. u * SCALE \in Nat /\ u * SCALE <= SCALE * y
    BY <1>2, <2>2, ScaleAssumption, SMT
  <2> DEFINE w == u * SCALE
             q == SCALE * y
  <2>4. w \in Nat /\ w <= q /\ q <= x /\ q \in Nat
    BY <1>2, <2>3, ScaleAssumption, SMT
  <2> HIDE DEF w, q
  <2>5. w \in Nat /\ w <= x
    BY <1>1, <2>4, SMT
  <2> QED BY <2>5 DEF w, u, x
<1>5. ((z * SCALE) * SCALE) \div v <= n
  <2> DEFINE w == (z * SCALE) * SCALE
  <2>1. w \in Nat /\ w <= n * v BY <1>4
  <2> HIDE DEF w
  <2>2. w \div v <= n BY <2>1, SMT
  <2> QED BY <2>2 DEF w
<1> QED BY <1>5 DEF shares_to_amount, from_scaled_floor, mul_scale,
                    amount_to_asset_shares, div_scale, to_scaled

\* Splitting an amount of atoms costs at most one share.
LEMMA SharesSplit ==
    ASSUME NEW a \in Nat, NEW b \in Nat, NEW v \in Nat \ {0}
    PROVE  amount_to_asset_shares(a + b, v)
             <= amount_to_asset_shares(a, v) + amount_to_asset_shares(b, v) + 1
<1> DEFINE x == (a * SCALE) * SCALE
           y == (b * SCALE) * SCALE
<1>1. x \in Nat /\ y \in Nat /\ ((a + b) * SCALE) * SCALE = x + y
  BY ScaleAssumption, SMT
<1>2. /\ amount_to_asset_shares(a, v) = x \div v
      /\ amount_to_asset_shares(b, v) = y \div v
      /\ amount_to_asset_shares(a + b, v) = (x + y) \div v
  BY <1>1 DEF amount_to_asset_shares, div_scale, to_scaled
<1> HIDE DEF x, y
<1> QED BY <1>1, <1>2, DivSub

=============================================================================
