---------------------------- MODULE P2PoolProofs -----------------------------
(***************************************************************************)
(* Safety of pool loans, for every set of borrowers and sub-vaults, every  *)
(* price and share value, and every interleaving of orders, repayments,    *)
(* liquidations, settlements and conversions.                              *)
(*                                                                         *)
(* Two things have to be shown of every payment.  What it releases on a    *)
(* seat, the seat holds, and what it takes out of the marginfi account,    *)
(* the seat has lost (PaymentKeeps, on top of OrderBookProofs).  And the   *)
(* shares it burns in the shared account are those that leave the loan's   *)
(* record, but for the rounding that marginfi's whole atoms cost: Agree    *)
(* bounds the difference by the number of loans closed so far.             *)
(*                                                                         *)
(* A conversion walks the asks while the old loan still stands, so that    *)
(* the shares its fills have taken over are counted twice; Refinancing is  *)
(* the invariant of that walk, with those shares in flight.                *)
(***************************************************************************)
EXTENDS P2Pool, OrderBookProofs

-----------------------------------------------------------------------------
(* One loan's part of the shared account: rounding *)

Ceil(s, v) == from_scaled_ceil(mul_scale(s, v))

\* Rounding up to whole atoms takes less than one atom more.
LEMMA CeilTyped ==
    ASSUME NEW s \in Nat, NEW v \in Nat \ {0}
    PROVE  /\ Ceil(s, v) \in Nat
           /\ s * v < Ceil(s, v) * (SCALE * SCALE) + SCALE
           /\ Ceil(s, v) * (SCALE * SCALE) < s * v + SCALE * SCALE
           /\ s > 0 /\ Ceil(s, v) = 0 => s * v < SCALE
<1> DEFINE x == s * v
           y == x \div SCALE
           z == y \div SCALE
<1>0. SCALE \in Nat \ {0} BY ScaleAssumption
<1>1. x \in Nat BY SMT
<1> HIDE DEF x
<1>2. y \in Nat /\ SCALE * y <= x /\ x < SCALE * y + SCALE BY <1>0, <1>1, DivFloor
<1> HIDE DEF y
<1>3. z \in Nat /\ SCALE * z <= y /\ y < SCALE * z + SCALE BY <1>0, <1>2, DivFloor
<1>4. PICK c : c = IF y % SCALE # 0 THEN z + 1 ELSE z OBVIOUS
<1>5. y = (SCALE * z) + (y % SCALE) BY <1>0, <1>2
<1> HIDE DEF z
<1>6. c \in Nat /\ y <= SCALE * c /\ SCALE * c < y + SCALE
  <2>1. CASE y % SCALE # 0 BY <1>0, <1>2, <1>3, <1>4, <1>5, <2>1
  <2>2. CASE y % SCALE = 0 BY <1>0, <1>2, <1>3, <1>4, <1>5, <2>2
  <2> QED BY <2>1, <2>2
<1>7. Ceil(s, v) = c BY <1>4 DEF x, y, z, Ceil, from_scaled_ceil, mul_scale
<1>8. c * (SCALE * SCALE) = SCALE * (SCALE * c) BY <1>0, <1>6
<1>9. PICK u \in Nat : u = SCALE * c BY <1>0, <1>6
<1>10. SCALE * y <= SCALE * u BY <1>0, <1>2, <1>6, <1>9
<1>11. SCALE * u < SCALE * y + SCALE * SCALE
  <2>1. u + 1 <= y + SCALE BY <1>0, <1>2, <1>6, <1>9
  <2>2. SCALE * (u + 1) <= SCALE * (y + SCALE) BY <1>0, <1>2, <1>9, <2>1
  <2>3. SCALE * (u + 1) = SCALE * u + SCALE /\ SCALE * (y + SCALE) = SCALE * y + SCALE * SCALE
    BY <1>0, <1>2, <1>9
  <2> QED BY <1>0, <1>2, <1>9, <2>2, <2>3
<1>12. x < c * (SCALE * SCALE) + SCALE BY <1>0, <1>1, <1>2, <1>8, <1>9, <1>10
<1>13. c * (SCALE * SCALE) < x + SCALE * SCALE BY <1>0, <1>1, <1>2, <1>8, <1>9, <1>11
<1>14. c = 0 => x < SCALE BY <1>0, <1>1, <1>12
<1> QED BY <1>6, <1>7, <1>12, <1>13, <1>14 DEF x

\* The shares of a number of atoms, as a quotient.
LEMMA SharesFloor ==
    ASSUME NEW a \in Nat, NEW v \in Nat \ {0}
    PROVE  /\ amount_to_asset_shares(a, v) \in Nat
           /\ v * amount_to_asset_shares(a, v) <= a * (SCALE * SCALE)
           /\ a * (SCALE * SCALE) < v * amount_to_asset_shares(a, v) + v
<1>0. SCALE \in Nat BY ScaleAssumption
<1>1. PICK x \in Nat : x = a * (SCALE * SCALE) BY <1>0
<1>2. amount_to_asset_shares(a, v) = x \div v
  <2>1. (a * SCALE) * SCALE = x BY <1>0, <1>1
  <2> QED BY <2>1 DEF amount_to_asset_shares, div_scale, to_scaled
<1> QED BY <1>1, <1>2, DivFloor

\* Paying no more than a loan's live debt burns at most one atom's shares more than
\* the loan has.
LEMMA BurnsAtMost ==
    ASSUME NEW s \in Nat, NEW v \in Nat \ {0}, NEW a \in Nat, a <= Ceil(s, v)
    PROVE  amount_to_asset_shares(a, v) <= s + amount_to_asset_shares(1, v)
<1>1. PICK T \in Nat : T = SCALE * SCALE BY ScaleAssumption
<1>2. PICK c \in Nat : c = Ceil(s, v) /\ c * T < s * v + T BY <1>1, CeilTyped
<1>3. PICK q \in Nat : q = amount_to_asset_shares(a, v) /\ v * q <= a * T
  BY <1>1, SharesFloor
<1>4. PICK f \in Nat : f = amount_to_asset_shares(1, v) /\ T < v * f + v
  <2>1. 1 * T = T BY <1>1
  <2> QED BY <1>1, <2>1, SharesFloor
<1>5. a * T <= c * T BY <1>1, <1>2
<1>6. v * q < s * v + (v * f + v) BY <1>1, <1>2, <1>3, <1>4, <1>5
<1>7. s * v + (v * f + v) = v * (s + f + 1) BY <1>4
<1>8. v * q < v * (s + f + 1) BY <1>6, <1>7
<1>9. q < s + f + 1
  <2>1. ASSUME s + f + 1 <= q PROVE FALSE
    <3>1. v * (s + f + 1) <= v * q BY <1>3, <1>4, <2>1
    <3> QED BY <1>3, <1>4, <1>8, <3>1
  <2> QED BY <1>3, <1>4, <2>1
<1> QED BY <1>3, <1>4, <1>9

\* Paying all of it leaves less than one share and one unit of scale.
LEMMA LeavesAtMost ==
    ASSUME NEW s \in Nat, NEW v \in Nat \ {0}, NEW p \in Nat,
           p = s - amount_to_asset_shares(Ceil(s, v), v)
    PROVE  p * v < SCALE + v
<1>1. PICK T \in Nat : T = SCALE * SCALE BY ScaleAssumption
<1>2. PICK c \in Nat : c = Ceil(s, v) /\ s * v < c * T + SCALE BY <1>1, CeilTyped
<1>3. PICK q \in Nat : q = amount_to_asset_shares(c, v) /\ c * T < v * q + v
  BY <1>1, SharesFloor
<1>4. s = p + q BY <1>2, <1>3
<1>5. s * v = p * v + v * q BY <1>3, <1>4
<1>6. SCALE \in Nat BY ScaleAssumption
<1>7. PICK x, y, z, ct : /\ x = p * v /\ y = v * q /\ z = s * v /\ ct = c * T
                         /\ x \in Nat /\ y \in Nat /\ z \in Nat /\ ct \in Nat
  BY <1>1, <1>2, <1>3
<1> QED BY <1>2, <1>3, <1>5, <1>6, <1>7

\* A remainder counts as paid exactly when it is worth less than two atoms.
LEMMA PaidMeans ==
    ASSUME NEW p \in Nat, NEW v \in Nat \ {0}
    PROVE  shares_to_amount(p, v) <= 1 <=> p * v < 2 * (SCALE * SCALE)
<1> DEFINE x == p * v
           y == x \div SCALE
           z == y \div SCALE
<1>0. SCALE \in Nat \ {0} BY ScaleAssumption
<1>1. x \in Nat BY SMT
<1> HIDE DEF x
<1>2. y \in Nat /\ SCALE * y <= x /\ x < SCALE * y + SCALE BY <1>0, <1>1, DivFloor
<1> HIDE DEF y
<1>3. z \in Nat /\ SCALE * z <= y /\ y < SCALE * z + SCALE BY <1>0, <1>2, DivFloor
<1> HIDE DEF z
<1>4. shares_to_amount(p, v) = z
  BY DEF x, y, z, shares_to_amount, from_scaled_floor, mul_scale
<1>5. ASSUME z <= 1 PROVE x < 2 * (SCALE * SCALE)
  <2>1. SCALE * z <= SCALE BY <1>0, <1>3, <1>5
  <2>2. y + 1 <= 2 * SCALE BY <1>0, <1>2, <1>3, <2>1
  <2>3. SCALE * (y + 1) <= SCALE * (2 * SCALE) BY <1>0, <1>2, <2>2
  <2>4. SCALE * (y + 1) = SCALE * y + SCALE /\ SCALE * (2 * SCALE) = 2 * (SCALE * SCALE)
    BY <1>0, <1>2
  <2> QED BY <1>0, <1>1, <1>2, <2>3, <2>4
<1>6. ASSUME ~(z <= 1) PROVE ~(x < 2 * (SCALE * SCALE))
  <2>1. 2 <= z BY <1>3, <1>6
  <2>2. SCALE * 2 <= SCALE * z BY <1>0, <1>3, <2>1
  <2>3. SCALE * 2 <= y BY <1>0, <1>2, <1>3, <2>2
  <2>4. SCALE * (SCALE * 2) <= SCALE * y BY <1>0, <1>2, <2>3
  <2>5. SCALE * (SCALE * 2) = 2 * (SCALE * SCALE) BY <1>0
  <2> QED BY <1>0, <1>1, <1>2, <2>4, <2>5
<1> QED BY <1>4, <1>5, <1>6 DEF x

\* Such a remainder is less than two atoms' shares, and one of each's rounding.
LEMMA PaidLeaves ==
    ASSUME NEW p \in Nat, NEW v \in Nat \ {0}, shares_to_amount(p, v) <= 1
    PROVE  p <= 2 * (amount_to_asset_shares(1, v) + 1)
<1>1. PICK T \in Nat : T = SCALE * SCALE BY ScaleAssumption
<1>2. p * v < 2 * T BY <1>1, PaidMeans
<1>3. PICK f \in Nat : f = amount_to_asset_shares(1, v) /\ T < v * f + v
  <2>1. 1 * T = T BY <1>1
  <2> QED BY <1>1, <2>1, SharesFloor
<1>4. v * f + v = v * (f + 1) BY <1>3
<1>5. ASSUME p > 2 * (f + 1) PROVE FALSE
  <2>1. v * (2 * (f + 1)) <= v * p BY <1>3, <1>5
  <2>2. v * (2 * (f + 1)) = 2 * (v * (f + 1)) /\ v * p = p * v BY <1>3
  <2>3. PICK g, h : g = v * (f + 1) /\ h = p * v /\ g \in Nat /\ h \in Nat BY <1>3
  <2> QED BY <1>1, <1>2, <1>3, <1>4, <2>1, <2>2, <2>3
<1> QED BY <1>3, <1>5

-----------------------------------------------------------------------------
(* The book when a pool loan changes *)

\* Fewer shares in flight ask less of the seat.
LEMMA FewerInFlight ==
    ASSUME NEW m, NEW L, NEW b, NEW n \in Int, NEW k \in Int, k <= n,
           Book(m, L, b, n, "AtLeast")
    PROVE  Book(m, L, b, k, "AtLeast")
<1>1. m \in Markets /\ \A c : Due(m, L, c) \in Nat BY BookSets DEF Book
<1>2. ASSUME NEW c \in Traders
      PROVE  Due(m, L, c) + At(c, b, k) <= m.seats[c].encumbered
  <2>1. m.seats[c].encumbered \in Int BY <1>1 DEF Markets, Seat
  <2>2. Due(m, L, c) + At(c, b, n) <= m.seats[c].encumbered BY DEF Book, EncumberedOK
  <2> QED BY <1>1, <2>1, <2>2 DEF At
<1>3. EncumberedOK(m, L, b, k, "AtLeast") BY <1>2 DEF EncumberedOK
<1> QED BY <1>3 DEF Book

\* One seat's balances change, and its count of loans may.
SeatChanged(m, m2, b, d) ==
    /\ m2.asks = m.asks /\ m2.bids = m.bids /\ m2.nodes = m.nodes
    /\ m2.order_seq = m.order_seq /\ m2.loan_seq = m.loan_seq
    /\ m2.blocks = m.blocks /\ m2.free = m.free
    /\ \A t \in Traders :
          /\ m2.seats[t].claimed = m.seats[t].claimed
          /\ m2.seats[t].encumbered = m.seats[t].encumbered + At(t, b, d)
          /\ m2.seats[t].open_lend = m.seats[t].open_lend

\* Shares that leave the encumbered balance were in flight.
LEMMA SeatKeepsBook ==
    ASSUME NEW m, NEW m2 \in Markets, NEW L, NEW b, NEW n \in Int, NEW d \in Int,
           Book(m, L, b, n, "AtLeast"), SeatChanged(m, m2, b, d)
    PROVE  Book(m2, L, b, n + d, "AtLeast")
<1>1. m \in Markets /\ \A c : Due(m, L, c) \in Nat BY BookSets DEF Book
<1>2. OrdersOK(m2) /\ LoansOK(m2, L) BY DEF Book, OrdersOK, LoansOK, SeatChanged
<1>3. CountsOK(m2, L, "AtLeast") BY DEF Book, CountsOK, SeatChanged, Traders
<1>4. Claimed(m2) = Claimed(m) BY DEF Claimed, SeatChanged
<1>5. BlocksOK(m2) BY <1>4 DEF Book, BlocksOK, SeatChanged
<1>6. ASSUME NEW c \in Traders
      PROVE  Due(m2, L, c) + At(c, b, n + d) <= m2.seats[c].encumbered
  <2>1. m.seats[c].encumbered \in Int BY <1>1 DEF Markets, Seat
  <2>2. Due(m, L, c) + At(c, b, n) <= m.seats[c].encumbered BY DEF Book, EncumberedOK
  <2>3. m2.seats[c].encumbered = m.seats[c].encumbered + At(c, b, d) BY DEF SeatChanged
  <2>4. Due(m2, L, c) = Due(m, L, c) BY DEF Due, SeatChanged
  <2> QED BY <1>1, <2>1, <2>2, <2>3, <2>4 DEF At
<1>7. EncumberedOK(m2, L, b, n + d, "AtLeast") BY <1>6 DEF EncumberedOK
<1> QED BY <1>2, <1>3, <1>5, <1>7 DEF Book

\* A pool loan that ends puts its shares in flight.
LEMMA LoanLeaves ==
    ASSUME NEW m, NEW L, NEW l \in L, NEW n \in Int, l.lender = NIL,
           Book(m, L, l.borrower, n, "AtLeast")
    PROVE  Book(m, L \ {l}, l.borrower, n + LoanShares(l), "AtLeast")
<1> DEFINE S == m.nodes \cup (L \ {l})
<1>1. m \in Markets /\ LoanSet(m.nodes \cup L) /\ \A c : Due(m, L, c) \in Nat
  BY BookSets DEF Book
<1>2. l \notin m.nodes /\ l \in MatchedLoan /\ l.snapshot > 0 BY DEF Book, LoansOK
<1>3. m.nodes \cup L = S \cup {l} /\ l \notin S BY <1>2
<1>4. S \subseteq m.nodes \cup L OBVIOUS
<1>5. LoanSet(S) BY <1>1, <1>4, FS_Subset DEF LoanSet
<1>6. l.lender \notin SubVaults BY BookAssumption
<1> HIDE DEF S
<1>7. LoanShares(l) \in Nat BY <1>2, LoanSharesTyped
<1>8. ASSUME NEW c
      PROVE  /\ Cardinality(LentBy(S \cup {l}, c))
                  = Cardinality(LentBy(S, c)) + At(c, l.lender, 1)
             /\ Cardinality(LentBy(S, c)) \in Nat
             /\ Sum(LoansBy(S \cup {l}, c), ShareOf)
                  = Sum(LoansBy(S, c), ShareOf) + At(c, l.borrower, LoanShares(l))
             /\ Sum(LoansBy(S, c), ShareOf) \in Nat
  BY <1>2, <1>3, <1>5, LoanAdds, LoanSums
<1>9. LoansOK(m, L \ {l})
  <2>1. IsFiniteSet(L \ {l}) BY FS_RemoveElement DEF Book, LoansOK
  <2> QED BY <2>1 DEF Book, LoansOK
<1>10. CountsOK(m, L \ {l}, "AtLeast")
  <2>1. ASSUME NEW v \in SubVaults
        PROVE  m.seats[v].open_lend = Cardinality(By(m.asks, v)) + Cardinality(LentBy(S, v))
    <3>1. Cardinality(LentBy(m.nodes \cup L, v)) = Cardinality(LentBy(S, v))
      <4>1. At(v, l.lender, 1) = 0 BY <1>6 DEF At
      <4> QED BY <1>3, <1>8, <4>1
    <3> QED BY <3>1 DEF Book, CountsOK
  <2> QED BY <2>1 DEF CountsOK, S
<1>11. ASSUME NEW c \in Traders
       PROVE  Due(m, L \ {l}, c) + At(c, l.borrower, n + LoanShares(l))
                <= m.seats[c].encumbered
  <2>1. m.seats[c].encumbered \in Int BY <1>1 DEF Markets, Seat
  <2>2. Due(m, L, c) + At(c, l.borrower, n) <= m.seats[c].encumbered
    BY DEF Book, EncumberedOK
  <2>3. PICK d : d = Sum(By(m.bids, c), BidShares) OBVIOUS
  <2>4. d \in Nat
    <3>1. BidSet(m.bids) BY BookSets
    <3> QED BY <2>3, <3>1, BidSums
  <2>5. Due(m, L, c) = d + Sum(LoansBy(S \cup {l}, c), ShareOf) BY <1>3, <2>3 DEF Due
  <2>6. Due(m, L \ {l}, c) = d + Sum(LoansBy(S, c), ShareOf) BY <2>3 DEF Due, S
  <2>7. PICK e \in Nat : e = Sum(LoansBy(S, c), ShareOf) BY <1>8
  <2>8. Due(m, L, c) = d + (e + At(c, l.borrower, LoanShares(l))) BY <1>8, <2>5, <2>7
  <2>9. CASE c = l.borrower BY <1>7, <2>1, <2>2, <2>4, <2>6, <2>7, <2>8, <2>9 DEF At
  <2>10. CASE c # l.borrower BY <1>7, <2>1, <2>2, <2>4, <2>6, <2>7, <2>8, <2>10 DEF At
  <2> QED BY <2>9, <2>10
<1>12. EncumberedOK(m, L \ {l}, l.borrower, n + LoanShares(l), "AtLeast")
  BY <1>11 DEF EncumberedOK
<1> QED BY <1>9, <1>10, <1>12 DEF Book

\* A pool loan that lives on under its sequence takes its shares back.
LEMMA LoanReturns ==
    ASSUME NEW m, NEW L, NEW l \in MatchedLoan, NEW n \in Int, l.lender = NIL,
           l.snapshot > 0, l.snapshot <= world.asv, l.seq < m.loan_seq,
           \A x \in m.nodes \cup L : x.seq # l.seq,
           Book(m, L, l.borrower, n, "AtLeast")
    PROVE  Book(m, L \cup {l}, l.borrower, n - LoanShares(l), "AtLeast")
<1> DEFINE S == m.nodes \cup L
<1>1. m \in Markets /\ LoanSet(S) /\ \A c : Due(m, L, c) \in Nat
  BY BookSets DEF Book
<1>2. m.nodes \cup (L \cup {l}) = S \cup {l} /\ l \notin S OBVIOUS
<1>3. l.lender \notin SubVaults BY BookAssumption
<1>4. LoansOK(m, L \cup {l})
  <2>1. IsFiniteSet(L \cup {l}) BY FS_AddElement DEF Book, LoansOK
  <2>2. m.nodes \cap (L \cup {l}) = {} BY <1>2 DEF Book, LoansOK
  <2> QED BY <2>1, <2>2 DEF Book, LoansOK
<1> HIDE DEF S
<1>5. LoanShares(l) \in Nat BY LoanSharesTyped
<1>6. ASSUME NEW c
      PROVE  /\ Cardinality(LentBy(S \cup {l}, c))
                  = Cardinality(LentBy(S, c)) + At(c, l.lender, 1)
             /\ Cardinality(LentBy(S, c)) \in Nat
             /\ Sum(LoansBy(S \cup {l}, c), ShareOf)
                  = Sum(LoansBy(S, c), ShareOf) + At(c, l.borrower, LoanShares(l))
             /\ Sum(LoansBy(S, c), ShareOf) \in Nat
  BY <1>1, <1>2, LoanAdds, LoanSums
<1>7. CountsOK(m, L \cup {l}, "AtLeast")
  <2>1. ASSUME NEW v \in SubVaults
        PROVE  m.seats[v].open_lend
                 = Cardinality(By(m.asks, v)) + Cardinality(LentBy(S \cup {l}, v))
    <3>1. Cardinality(LentBy(S \cup {l}, v)) = Cardinality(LentBy(S, v))
      <4>1. At(v, l.lender, 1) = 0 BY <1>3 DEF At
      <4> QED BY <1>6, <4>1
    <3> QED BY <3>1 DEF Book, CountsOK, S
  <2> QED BY <1>2, <2>1 DEF CountsOK
<1>8. ASSUME NEW c \in Traders
      PROVE  Due(m, L \cup {l}, c) + At(c, l.borrower, n - LoanShares(l))
               <= m.seats[c].encumbered
  <2>1. m.seats[c].encumbered \in Int BY <1>1 DEF Markets, Seat
  <2>2. Due(m, L, c) + At(c, l.borrower, n) <= m.seats[c].encumbered
    BY DEF Book, EncumberedOK
  <2>3. PICK d : d = Sum(By(m.bids, c), BidShares) OBVIOUS
  <2>4. d \in Nat
    <3>1. BidSet(m.bids) BY BookSets
    <3> QED BY <2>3, <3>1, BidSums
  <2>5. Due(m, L \cup {l}, c) = d + Sum(LoansBy(S \cup {l}, c), ShareOf)
    BY <1>2, <2>3 DEF Due
  <2>6. Due(m, L, c) = d + Sum(LoansBy(S, c), ShareOf) BY <2>3 DEF Due, S
  <2>7. PICK e \in Nat : e = Sum(LoansBy(S, c), ShareOf) BY <1>6
  <2>8. Due(m, L \cup {l}, c) = d + (e + At(c, l.borrower, LoanShares(l)))
    BY <1>6, <2>5, <2>7
  <2>9. CASE c = l.borrower BY <1>5, <2>1, <2>2, <2>4, <2>6, <2>7, <2>8, <2>9 DEF At
  <2>10. CASE c # l.borrower BY <1>5, <2>1, <2>2, <2>4, <2>6, <2>7, <2>8, <2>10 DEF At
  <2> QED BY <2>9, <2>10
<1>9. EncumberedOK(m, L \cup {l}, l.borrower, n - LoanShares(l), "AtLeast")
  BY <1>8 DEF EncumberedOK
<1> QED BY <1>4, <1>7, <1>9 DEF Book

-----------------------------------------------------------------------------
(* Debts on record *)

\* Shares an atom of debt is worth when it is worth most: no less than in any world.
LEMMA AtomSharesBound ==
    /\ AtomShares \in Nat
    /\ \A w \in Worlds : amount_to_asset_shares(1, w.lsv) + 1 <= AtomShares
<1> DEFINE W == {amount_to_asset_shares(1, w.lsv) : w \in Worlds}
<1>1. PICK T \in Nat : T = SCALE * SCALE BY ScaleAssumption
<1>2. \A w \in Worlds : w.lsv \in Nat \ {0} BY BookAssumption
<1>3. ASSUME NEW w \in Worlds PROVE amount_to_asset_shares(1, w.lsv) \in 0..T
  <2>1. PICK v \in Nat \ {0} : v = w.lsv BY <1>2
  <2>2. PICK q \in Nat : q = amount_to_asset_shares(1, v) /\ v * q <= 1 * T
    BY <1>1, SharesFloor
  <2>3. q <= v * q /\ 1 * T = T BY <1>1, <2>1, <2>2
  <2>4. v * q \in Nat BY <2>1, <2>2
  <2> QED BY <1>1, <2>1, <2>2, <2>3, <2>4
<1>4. W \subseteq 0..T BY <1>3
<1>5. IsFiniteSet(W)
  <2>1. IsFiniteSet(0..T) BY <1>1, FS_Interval
  <2> QED BY <1>4, <2>1, FS_Subset
<1>6. W # {} BY BookAssumption
<1>7. \A w \in Worlds : amount_to_asset_shares(1, w.lsv) \in W OBVIOUS
<1>8. AtomShares = (CHOOSE x \in W : \A y \in W : y <= x) + 1 BY DEF AtomShares
<1> HIDE DEF W
<1>9. W \subseteq Nat BY <1>1, <1>4
<1>10. \E x \in W : \A y \in W : y <= x BY <1>5, <1>6, <1>9, LargestIn
<1>11. PICK z : z = (CHOOSE x \in W : \A y \in W : y <= x) OBVIOUS
<1>12. z \in W /\ \A y \in W : y <= z BY <1>10, <1>11
<1>13. z \in Nat BY <1>9, <1>12
<1>14. ASSUME NEW w \in Worlds PROVE amount_to_asset_shares(1, w.lsv) + 1 <= z + 1
  <2>1. amount_to_asset_shares(1, w.lsv) \in Nat BY <1>7, <1>9
  <2> QED BY <1>7, <1>12, <1>13, <2>1
<1> QED BY <1>8, <1>11, <1>13, <1>14

Debts == [l \in MatchedLoan |-> l.shares]

\* The liability shares on record, and the loans closed so far.
Owed(m, L) == Sum(PoolOf(m.nodes \cup L), Debts)

Gone(m, L) == m.loan_seq - Cardinality(m.nodes \cup L)

\* Records R and account Y differ by the rounding of K loans that closed.
Agree(R, Y, K) ==
    /\ K \in Nat
    /\ R <= Y + K * AtomShares
    /\ Y <= R + 2 * (K * AtomShares)

\* Both may change by the same, and more loans may close.
LEMMA AgreeMoves ==
    ASSUME NEW R \in Nat, NEW Y \in Nat, NEW K, NEW R2 \in Nat, NEW Y2 \in Nat, NEW K2 \in Int,
           Agree(R, Y, K), K <= K2, R2 - Y2 = R - Y
    PROVE  Agree(R2, Y2, K2)
<1>1. AtomShares \in Nat BY AtomSharesBound
<1>2. K \in Nat /\ K2 \in Nat BY DEF Agree
<1>3. K * AtomShares <= K2 * AtomShares BY <1>1, <1>2
<1>4. K * AtomShares \in Nat /\ K2 * AtomShares \in Nat BY <1>1, <1>2
<1> QED BY <1>2, <1>3, <1>4 DEF Agree

\* A loan that closes may burn one atom's shares too many or leave two atoms' behind.
LEMMA AgreeCloses ==
    ASSUME NEW R \in Nat, NEW Y \in Nat, NEW K, NEW sh \in Nat, NEW burned \in Nat,
           Agree(R, Y, K), sh <= R, burned <= Y, burned <= sh + AtomShares,
           \/ sh <= burned + 2 * AtomShares
           \/ Y - burned <= 2 * AtomShares
    PROVE  Agree(R - sh, Y - burned, K + 1)
<1>1. AtomShares \in Nat BY AtomSharesBound
<1>2. K \in Nat BY DEF Agree
<1>3. (K + 1) * AtomShares = K * AtomShares + AtomShares BY <1>1, <1>2
<1>4. K * AtomShares \in Nat BY <1>1, <1>2
<1> QED BY <1>1, <1>2, <1>3, <1>4 DEF Agree

\* A loan that lives on loses the shares that were burned, and those it could not
\* owe because the account did not.
LEMMA AgreeShrinks ==
    ASSUME NEW R \in Nat, NEW Y \in Nat, NEW K, NEW sh \in Nat, NEW burned \in Nat, NEW p \in Nat,
           Agree(R, Y, K), sh <= R, burned <= Y, p + burned <= sh,
           p + burned = sh \/ p = Y - burned
    PROVE  Agree((R - sh) + p, Y - burned, K)
<1>1. AtomShares \in Nat BY AtomSharesBound
<1>2. K \in Nat BY DEF Agree
<1>3. K * AtomShares \in Nat BY <1>1, <1>2
<1> QED BY <1>2, <1>3 DEF Agree

\* A loan is queued or promoted, never both.
Separate(m, L) ==
    /\ IsFiniteSet(m.nodes) /\ IsFiniteSet(L) /\ L \subseteq MatchedLoan
    /\ m.nodes \cap L = {}

\* Loans of a market and what they owe are finite.
LEMMA OwedTyped ==
    ASSUME NEW m \in Markets, NEW L, Separate(m, L)
    PROVE  /\ IsFiniteSet(m.nodes \cup L) /\ m.nodes \cup L \subseteq MatchedLoan
           /\ IsFiniteSet(PoolOf(m.nodes \cup L)) /\ Owed(m, L) \in Nat
           /\ Cardinality(m.nodes \cup L) \in Nat
           /\ Cardinality(m.nodes \cup L) = Cardinality(m.nodes) + Cardinality(L)
           /\ Cardinality(m.nodes) \in Nat /\ Cardinality(L) \in Nat /\ m.loan_seq \in Nat
           /\ Gone(m, L) \in Int
           /\ \A l \in m.nodes \cup L : Debts[l] = l.shares /\ l.shares \in Nat
<1>1. IsFiniteSet(m.nodes) /\ IsFiniteSet(L) /\ m.nodes \cap L = {} BY DEF Separate
<1>2. m.nodes \cup L \subseteq MatchedLoan /\ m.loan_seq \in Nat BY DEF Separate, Markets
<1>3. IsFiniteSet(m.nodes \cup L) BY <1>1, FS_Union
<1>4. Cardinality(m.nodes \cup L) = Cardinality(m.nodes) + Cardinality(L)
  <2>1. /\ Cardinality(m.nodes) \in Nat /\ Cardinality(L) \in Nat
        /\ Cardinality(m.nodes \cup L)
             = Cardinality(m.nodes) + Cardinality(L) - Cardinality(m.nodes \cap L)
        /\ Cardinality(m.nodes \cap L) = 0
    BY <1>1, FS_Union, FS_EmptySet, FS_CardinalityType
  <2> QED BY <2>1
<1>5. /\ Cardinality(m.nodes) \in Nat /\ Cardinality(L) \in Nat
      /\ Cardinality(m.nodes \cup L) \in Nat
  BY <1>1, <1>3, FS_CardinalityType
<1>6. \A l \in m.nodes \cup L : Debts[l] = l.shares /\ l.shares \in Nat
  BY <1>2 DEF Debts, MatchedLoan
<1>7. IsFiniteSet(PoolOf(m.nodes \cup L)) BY <1>3, FS_Subset DEF PoolOf
<1>8. Owed(m, L) \in Nat
  <2>1. \A l \in PoolOf(m.nodes \cup L) : Debts[l] \in Nat BY <1>6 DEF PoolOf
  <2> QED BY <1>7, <2>1, SumTyped DEF Owed
<1> QED BY <1>2, <1>3, <1>4, <1>5, <1>6, <1>7, <1>8 DEF Gone

\* A pool loan that closes takes its record along.
LEMMA OwedLeaves ==
    ASSUME NEW m \in Markets, NEW L, Separate(m, L), NEW l \in L, l.lender = NIL
    PROVE  /\ Owed(m, L) = Owed(m, L \ {l}) + l.shares /\ Owed(m, L \ {l}) \in Nat
           /\ Gone(m, L \ {l}) = Gone(m, L) + 1
<1>1. PICK P : P = m.nodes \cup L OBVIOUS
<1>2. m.nodes \cup (L \ {l}) = P \ {l} /\ l \in P BY <1>1 DEF Separate
<1>3. PoolOf(P \ {l}) = PoolOf(P) \ {l} /\ l \in PoolOf(P) BY <1>2 DEF PoolOf
<1>4. /\ IsFiniteSet(PoolOf(P)) /\ IsFiniteSet(P) /\ m.loan_seq \in Nat
      /\ \A x \in PoolOf(P) : Debts[x] = x.shares /\ Debts[x] \in Nat
  BY <1>1, OwedTyped DEF PoolOf
<1>5. /\ Sum(PoolOf(P) \ {l}, Debts) \in Nat
      /\ Sum(PoolOf(P), Debts) = Sum(PoolOf(P) \ {l}, Debts) + Debts[l]
  BY <1>3, <1>4, SumSplit
<1>6. /\ Cardinality(P) \in Nat /\ Cardinality(P \ {l}) \in Nat
      /\ Cardinality(P) = Cardinality(P \ {l}) + 1
  BY <1>2, <1>4, CardRemove
<1>7. Owed(m, L) = Owed(m, L \ {l}) + l.shares /\ Owed(m, L \ {l}) \in Nat
  BY <1>1, <1>2, <1>3, <1>4, <1>5 DEF Owed
<1>8. Gone(m, L \ {l}) = Gone(m, L) + 1
  <2>1. Gone(m, L) = m.loan_seq - Cardinality(P) BY <1>1, Zenon DEF Gone
  <2>2. Gone(m, L \ {l}) = m.loan_seq - Cardinality(P \ {l}) BY <1>2, Zenon DEF Gone
  <2> QED BY <1>4, <1>6, <2>1, <2>2
<1> QED BY <1>7, <1>8

\* One that lives on, or is queued, brings its own.
LEMMA OwedReturns ==
    ASSUME NEW m \in Markets, NEW L, Separate(m, L), NEW l \in MatchedLoan, l.lender = NIL,
           l \notin m.nodes \cup L
    PROVE  /\ Owed(m, L \cup {l}) = Owed(m, L) + l.shares
           /\ Gone(m, L \cup {l}) = Gone(m, L) - 1
<1>1. PICK P : P = m.nodes \cup L OBVIOUS
<1>2. m.nodes \cup (L \cup {l}) = P \cup {l} /\ l \notin P BY <1>1
<1>3. PoolOf(P \cup {l}) = PoolOf(P) \cup {l} /\ l \notin PoolOf(P) BY <1>2 DEF PoolOf
<1>4. /\ IsFiniteSet(PoolOf(P)) /\ IsFiniteSet(P) /\ m.loan_seq \in Nat
      /\ \A x \in PoolOf(P) : Debts[x] \in Nat
  BY <1>1, OwedTyped DEF PoolOf
<1>5. Debts[l] = l.shares /\ l.shares \in Nat BY DEF Debts, MatchedLoan
<1>6. Sum(PoolOf(P) \cup {l}, Debts) = Sum(PoolOf(P), Debts) + Debts[l]
  <2>1. \A x \in PoolOf(P) \cup {l} : Debts[x] \in Nat BY <1>4, <1>5
  <2> QED BY <1>3, <1>4, <2>1, SumAdd
<1>7. Cardinality(P) \in Nat /\ Cardinality(P \cup {l}) = Cardinality(P) + 1
  BY <1>2, <1>4, CardAdd
<1>8. Owed(m, L \cup {l}) = Owed(m, L) + l.shares BY <1>1, <1>2, <1>3, <1>5, <1>6 DEF Owed
<1>9. Gone(m, L \cup {l}) = Gone(m, L) - 1
  <2>1. Gone(m, L) = m.loan_seq - Cardinality(P) BY <1>1, Zenon DEF Gone
  <2>2. Gone(m, L \cup {l}) = m.loan_seq - Cardinality(P \cup {l}) BY <1>2, Zenon DEF Gone
  <2> QED BY <1>4, <1>7, <2>1, <2>2
<1> QED BY <1>8, <1>9

\* Loans queued in between count, and one of them may borrow n shares from the pool.
LEMMA OwedGrows ==
    ASSUME NEW m \in Markets, NEW m2 \in Markets, NEW L, NEW n \in Nat,
           Separate(m, L), Separate(m2, L), PoolGrows(m, m2, n)
    PROVE  Owed(m2, L) = Owed(m, L) + n /\ Gone(m2, L) = Gone(m, L)
<1>1. Gone(m2, L) = Gone(m, L)
  <2>1. /\ Cardinality(m.nodes \cup L) = Cardinality(m.nodes) + Cardinality(L)
        /\ Cardinality(m.nodes) \in Nat /\ Cardinality(L) \in Nat /\ m.loan_seq \in Nat
    BY OwedTyped
  <2>2. /\ Cardinality(m2.nodes \cup L) = Cardinality(m2.nodes) + Cardinality(L)
        /\ Cardinality(m2.nodes) \in Nat /\ m2.loan_seq \in Nat
    BY OwedTyped
  <2> QED BY <2>1, <2>2 DEF Gone, PoolGrows
<1>2. Owed(m, L) \in Nat BY OwedTyped
<1>3. CASE n = 0 /\ PoolOf(m2.nodes) = PoolOf(m.nodes)
  <2>1. PoolOf(m2.nodes \cup L) = PoolOf(m.nodes \cup L) BY <1>3 DEF PoolOf
  <2> QED BY <1>1, <1>2, <1>3, <2>1 DEF Owed
<1>4. ASSUME NEW l \in PoolOf(m2.nodes), l.shares = n, l \notin m.nodes,
             PoolOf(m2.nodes) = PoolOf(m.nodes) \cup {l}
      PROVE  Owed(m2, L) = Owed(m, L) + n
  <2>1. l \in MatchedLoan /\ l.lender = NIL /\ l \notin L
    BY <1>4 DEF PoolOf, Markets, Separate
  <2>2. PoolOf(m2.nodes \cup L) = PoolOf(m.nodes \cup L) \cup {l}
    BY <1>4, <2>1 DEF PoolOf
  <2>3. l \notin PoolOf(m.nodes \cup L) BY <1>4, <2>1 DEF PoolOf
  <2>4. /\ IsFiniteSet(PoolOf(m.nodes \cup L))
        /\ \A x \in PoolOf(m.nodes \cup L) : Debts[x] \in Nat
    BY OwedTyped DEF PoolOf
  <2>5. Debts[l] = n BY <1>4, <2>1 DEF Debts
  <2>6. \A x \in PoolOf(m.nodes \cup L) \cup {l} : Debts[x] \in Nat BY <2>4, <2>5
  <2>7. Sum(PoolOf(m.nodes \cup L) \cup {l}, Debts) = Sum(PoolOf(m.nodes \cup L), Debts) + Debts[l]
    BY <2>3, <2>4, <2>6, SumAdd
  <2> QED BY <2>2, <2>5, <2>7 DEF Owed
<1> QED BY <1>1, <1>3, <1>4, Zenon DEF PoolGrows

-----------------------------------------------------------------------------
(* The invariant, and the order book's steps *)

PoolInv ==
    /\ Inv("AtLeast")
    /\ Agree(Owed(market, loans), account.liability, Gone(market, loans))

\* A promoted loan keeps its record.
LEMMA OwedPromoted ==
    ASSUME NEW m \in Markets, NEW L, LoansOK(m, L), NEW node \in m.nodes, NEW x \in Nat,
           NEW m2, NEW L2, m2.nodes = m.nodes \ {node}, m2.loan_seq = m.loan_seq,
           L2 = L \cup {[node EXCEPT !.matures = x]}
    PROVE  Owed(m2, L2) = Owed(m, L) /\ Gone(m2, L2) = Gone(m, L)
<1>1. PICK l : l = [node EXCEPT !.matures = x] OBVIOUS
<1>2. node \in MatchedLoan BY DEF Markets
<1>3. /\ l \in MatchedLoan /\ l.seq = node.seq /\ l.lender = node.lender
      /\ l.shares = node.shares
  BY <1>1, <1>2 DEF MatchedLoan
<1>4. Separate(m, L) BY DEF LoansOK, Separate
<1>5. PICK P : P = m.nodes \cup L OBVIOUS
<1>6. node \in P /\ node \notin L BY <1>5 DEF LoansOK
<1>7. m2.nodes \cup L2 = (P \ {node}) \cup {l} BY <1>1, <1>5, <1>6
<1>8. l \notin P \ {node} BY <1>3, <1>5, <1>6 DEF LoansOK
<1>9. /\ IsFiniteSet(P) /\ IsFiniteSet(PoolOf(P)) /\ m.loan_seq \in Nat
      /\ \A y \in PoolOf(P) : Debts[y] \in Nat
  BY <1>4, <1>5, OwedTyped DEF PoolOf
<1>10. /\ IsFiniteSet(P \ {node}) /\ Cardinality(P \ {node}) \in Nat
       /\ Cardinality(P) = Cardinality(P \ {node}) + 1
  BY <1>6, <1>9, CardRemove
<1>11. Cardinality((P \ {node}) \cup {l}) = Cardinality(P \ {node}) + 1
  BY <1>8, <1>10, CardAdd
<1>12. Gone(m2, L2) = Gone(m, L)
  <2>1. Gone(m, L) = m.loan_seq - Cardinality(P) BY <1>5, Zenon DEF Gone
  <2>2. Gone(m2, L2) = m.loan_seq - Cardinality((P \ {node}) \cup {l}) BY <1>7, Zenon DEF Gone
  <2>3. Cardinality((P \ {node}) \cup {l}) = Cardinality(P) BY <1>10, <1>11, Zenon
  <2> QED BY <2>1, <2>2, <2>3, Zenon
<1>13. CASE node.lender = NIL
  <2>1. PoolOf((P \ {node}) \cup {l}) = (PoolOf(P) \ {node}) \cup {l}
    BY <1>3, <1>13 DEF PoolOf
  <2>2. node \in PoolOf(P) /\ l \notin PoolOf(P) \ {node} BY <1>6, <1>8, <1>13 DEF PoolOf
  <2>3. /\ Sum(PoolOf(P) \ {node}, Debts) \in Nat
        /\ Sum(PoolOf(P), Debts) = Sum(PoolOf(P) \ {node}, Debts) + Debts[node]
    BY <1>9, <2>2, SumSplit
  <2>4. Debts[l] = Debts[node] /\ Debts[l] \in Nat BY <1>2, <1>3 DEF Debts, MatchedLoan
  <2>5. IsFiniteSet(PoolOf(P) \ {node}) BY <1>9, FS_RemoveElement
  <2>6. \A y \in (PoolOf(P) \ {node}) \cup {l} : Debts[y] \in Nat BY <1>9, <2>4
  <2>7. Sum((PoolOf(P) \ {node}) \cup {l}, Debts)
          = Sum(PoolOf(P) \ {node}, Debts) + Debts[l]
    <3>1. PICK Q : Q = PoolOf(P) \ {node} OBVIOUS
    <3>2. IsFiniteSet(Q) /\ l \notin Q /\ \A y \in Q \cup {l} : Debts[y] \in Nat
      BY <2>2, <2>5, <2>6, <3>1
    <3>3. Sum(Q \cup {l}, Debts) = Sum(Q, Debts) + Debts[l] BY <3>2, SumAdd
    <3> QED BY <3>1, <3>3, Zenon
  <2>8. Sum(PoolOf((P \ {node}) \cup {l}), Debts) = Sum(PoolOf(P), Debts)
    BY <2>1, <2>3, <2>4, <2>7
  <2> QED BY <1>5, <1>7, <1>12, <2>8, Zenon DEF Owed
<1>14. CASE node.lender # NIL
  <2>1. PoolOf((P \ {node}) \cup {l}) = PoolOf(P) BY <1>3, <1>14 DEF PoolOf
  <2> QED BY <1>5, <1>7, <1>12, <2>1, Zenon DEF Owed
<1> QED BY <1>13, <1>14

\* A fixed loan that closes has none.
LEMMA OwedFixedLeaves ==
    ASSUME NEW m \in Markets, NEW L, LoansOK(m, L), NEW l \in L, l.lender # NIL,
           NEW m2, m2.nodes = m.nodes, m2.loan_seq = m.loan_seq
    PROVE  Owed(m2, L \ {l}) = Owed(m, L) /\ Gone(m2, L \ {l}) = Gone(m, L) + 1
<1>1. Separate(m, L) BY DEF LoansOK, Separate
<1>2. PICK P : P = m.nodes \cup L OBVIOUS
<1>3. m2.nodes \cup (L \ {l}) = P \ {l} /\ l \in P BY <1>2 DEF LoansOK
<1>4. IsFiniteSet(P) /\ m.loan_seq \in Nat BY <1>1, <1>2, OwedTyped
<1>5. /\ Cardinality(P) \in Nat /\ Cardinality(P \ {l}) \in Nat
      /\ Cardinality(P) = Cardinality(P \ {l}) + 1
  BY <1>3, <1>4, CardRemove
<1>6. PoolOf(P \ {l}) = PoolOf(P) BY DEF PoolOf
<1>7. Owed(m2, L \ {l}) = Owed(m, L) BY <1>2, <1>3, <1>6, Zenon DEF Owed
<1>8. Gone(m2, L \ {l}) = Gone(m, L) + 1
  <2>1. Gone(m, L) = m.loan_seq - Cardinality(P) BY <1>2, Zenon DEF Gone
  <2>2. Gone(m2, L \ {l}) = m.loan_seq - Cardinality(P \ {l}) BY <1>3, Zenon DEF Gone
  <2> QED BY <1>4, <1>5, <2>1, <2>2
<1> QED BY <1>7, <1>8

\* What the proofs need of the state.
LEMMA PoolState ==
    ASSUME Inv("AtLeast")
    PROVE  /\ market \in Markets /\ LoansOK(market, loans) /\ Separate(market, loans)
           /\ account.liability \in Nat /\ account.collateral \in Nat
           /\ Owed(market, loans) \in Nat /\ Gone(market, loans) \in Int
           /\ world \in Worlds /\ world.lsv \in Nat \ {0} /\ world.asv \in Nat \ {0}
           /\ now \in Nat /\ vault \in Lenders
<1>1. market \in Markets /\ LoansOK(market, loans) BY DEF Inv, Book
<1>2. Separate(market, loans) BY <1>1 DEF LoansOK, Separate
<1>3. Owed(market, loans) \in Nat /\ Gone(market, loans) \in Int BY <1>1, <1>2, OwedTyped
<1>4. world \in Worlds /\ world.lsv \in Nat \ {0} /\ world.asv \in Nat \ {0}
  BY BookAssumption DEF Inv
<1> QED BY <1>1, <1>2, <1>3, <1>4 DEF Inv

\* So does the next state.
LEMMA PoolStateNext ==
    ASSUME Inv("AtLeast")'
    PROVE  /\ market' \in Markets /\ Separate(market', loans')
           /\ account'.liability \in Nat
           /\ Owed(market', loans') \in Nat /\ Gone(market', loans') \in Int
<1>1. market' \in Markets /\ Separate(market', loans')
  BY DEF Inv, Book, LoansOK, Separate
<1>2. Owed(market', loans') \in Nat /\ Gone(market', loans') \in Int BY <1>1, OwedTyped
<1> QED BY <1>1, <1>2 DEF Inv

\* A step of the order book moves records and account together.
LEMMA BookKeepsPool ==
    ASSUME PoolInv, Next
    PROVE  PoolInv' /\ Honoured
<1>1. Inv("AtLeast") BY DEF PoolInv
<1>2. Inv("AtLeast")' /\ Honoured /\ Booked BY <1>1, StepKeeps DEF Kept
<1>3. PICK m, L, m2, L2, R, R2, K, K2, Y, Y2 :
         /\ m = market /\ L = loans /\ m2 = market' /\ L2 = loans'
         /\ R = Owed(m, L) /\ R2 = Owed(m2, L2) /\ K = Gone(m, L) /\ K2 = Gone(m2, L2)
         /\ Y = account.liability /\ Y2 = account'.liability
  OBVIOUS
<1>4. /\ m \in Markets /\ LoansOK(m, L) /\ Separate(m, L) /\ R \in Nat /\ K \in Int
      /\ Y \in Nat
  BY <1>1, <1>3, PoolState, Zenon
<1>5. /\ m2 \in Markets /\ Separate(m2, L2) /\ R2 \in Nat /\ K2 \in Int /\ Y2 \in Nat
  BY <1>2, <1>3, PoolStateNext, Zenon
<1>6. Agree(R, Y, K) BY <1>3, Zenon DEF PoolInv
<1>7. R2 - Y2 = R - Y /\ K <= K2
  <2>1. CASE /\ L2 = L
             /\ \E k \in Nat : Y2 = Y + k /\ PoolGrows(m, m2, k)
    <3>1. PICK k \in Nat : Y2 = Y + k /\ PoolGrows(m, m2, k) BY <2>1
    <3>2. Owed(m2, L) = Owed(m, L) + k /\ Gone(m2, L) = Gone(m, L)
      BY <1>4, <1>5, <2>1, <3>1, OwedGrows
    <3>3. R2 = R + k /\ K2 = K BY <1>3, <2>1, <3>2, Zenon
    <3> QED BY <1>4, <1>5, <3>1, <3>3
  <2>2. CASE /\ Y2 = Y /\ m2.loan_seq = m.loan_seq
             /\ \E node \in m.nodes, x \in Nat :
                   /\ m2.nodes = m.nodes \ {node}
                   /\ L2 = L \cup {[node EXCEPT !.matures = x]}
    <3>0. PICK node \in m.nodes, x \in Nat : /\ m2.nodes = m.nodes \ {node}
                                             /\ L2 = L \cup {[node EXCEPT !.matures = x]}
      BY <2>2
    <3>1. Owed(m2, L2) = Owed(m, L) /\ Gone(m2, L2) = Gone(m, L)
      BY <1>4, <2>2, <3>0, OwedPromoted
    <3>2. R2 = R /\ K2 = K BY <1>3, <3>1, Zenon
    <3> QED BY <1>4, <1>5, <2>2, <3>2
  <2>3. CASE /\ Y2 = Y /\ m2.loan_seq = m.loan_seq /\ m2.nodes = m.nodes
             /\ \E l \in L : l.lender # NIL /\ L2 = L \ {l}
    <3>1. PICK l \in L : l.lender # NIL /\ L2 = L \ {l} BY <2>3
    <3>2. Owed(m2, L \ {l}) = Owed(m, L) /\ Gone(m2, L \ {l}) = Gone(m, L) + 1
      BY <1>4, <2>3, <3>1, OwedFixedLeaves, Zenon
    <3>3. R2 = R /\ K2 = K + 1 BY <1>3, <3>1, <3>2, Zenon
    <3> QED BY <1>4, <1>5, <2>3, <3>3
  <2> QED BY <1>2, <1>3, <2>1, <2>2, <2>3, Zenon DEF Booked
<1>8. Agree(R2, Y2, K2) BY <1>4, <1>5, <1>6, <1>7, AgreeMoves, Zenon
<1> QED BY <1>2, <1>3, <1>8, Zenon DEF PoolInv

-----------------------------------------------------------------------------
(* A pool loan is paid *)

\* Seat b gives y encumbered shares up and gets x of them back.
SeatPays(m, m2, b, x, y) ==
    /\ SeatChanged(m, m2, b, -y)
    /\ \A t \in Traders : m2.seats[t].withdrawable = m.seats[t].withdrawable + At(t, b, x)

\* What is left of a loan keeps its place.
Renews(l, l2) ==
    /\ l2 \in MatchedLoan /\ l2.seq = l.seq /\ l2.borrower = l.borrower
    /\ l2.lender = l.lender /\ l2.snapshot = l.snapshot

\* The loan ends, or what is left of it has no more than the seat still holds for it.
LoanPaid(L, L2, l, y) ==
    \/ L2 = L \ {l}
    \/ \E l2 : /\ Renews(l, l2) /\ LoanShares(l2) + y <= LoanShares(l)
               /\ L2 = (L \ {l}) \cup {l2}

\* A payment leaves the book in order.
LEMMA PaymentKeepsBook ==
    ASSUME NEW m, NEW m2 \in Markets, NEW L, NEW L2, NEW l \in L, NEW x \in Nat, NEW y \in Nat,
           NEW n \in Int, NEW k \in Int,
           Book(m, L, l.borrower, n, "AtLeast"), l.lender = NIL, SeatPays(m, m2, l.borrower, x, y),
           \/ L2 = L \ {l} /\ k <= (n + LoanShares(l)) - y
           \/ \E l2 : /\ Renews(l, l2) /\ L2 = (L \ {l}) \cup {l2}
                      /\ k <= ((n + LoanShares(l)) - LoanShares(l2)) - y
    PROVE  Book(m2, L2, l.borrower, k, "AtLeast")
<1>1. PICK b, s : b = l.borrower /\ s = LoanShares(l) OBVIOUS
<1>2. l \in MatchedLoan /\ l.snapshot > 0 /\ l.snapshot <= world.asv BY DEF Book, LoansOK
<1>3. s \in Nat BY <1>1, <1>2, LoanSharesTyped
<1>4. Book(m, L \ {l}, b, n + s, "AtLeast") BY <1>1, LoanLeaves, Zenon
<1>5. SeatChanged(m, m2, b, -y) BY <1>1, Zenon DEF SeatPays
<1>6. CASE L2 = L \ {l} /\ k <= (n + s) - y
  <2>1. n + s \in Int /\ -y \in Int /\ (n + s) + -y \in Int /\ k <= (n + s) + -y
    BY <1>3, <1>6
  <2>2. Book(m2, L \ {l}, b, (n + s) + -y, "AtLeast") BY <1>4, <1>5, <2>1, SeatKeepsBook, Zenon
  <2>3. Book(m2, L \ {l}, b, k, "AtLeast") BY <2>1, <2>2, FewerInFlight, Zenon
  <2> QED BY <1>1, <1>6, <2>3, Zenon
<1>7. ASSUME NEW l2, Renews(l, l2), L2 = (L \ {l}) \cup {l2},
             k <= ((n + s) - LoanShares(l2)) - y
      PROVE  Book(m2, L2, l.borrower, k, "AtLeast")
  <2>1. PICK s2 : s2 = LoanShares(l2) OBVIOUS
  <2>2. /\ l2 \in MatchedLoan /\ l2.snapshot > 0 /\ l2.snapshot <= world.asv
        /\ l2.lender = NIL /\ l2.borrower = b /\ l2.seq = l.seq
    BY <1>1, <1>2, <1>7 DEF Renews
  <2>3. s2 \in Nat BY <2>1, <2>2, LoanSharesTyped
  <2>4. l2.seq < m.loan_seq /\ \A z \in m.nodes \cup (L \ {l}) : z.seq # l2.seq
    BY <2>2 DEF Book, LoansOK
  <2>5. n + s \in Int BY <1>3
  <2>6. Book(m, (L \ {l}) \cup {l2}, b, (n + s) - s2, "AtLeast")
    <3>1. Book(m, L \ {l}, l2.borrower, n + s, "AtLeast") BY <1>4, <2>2, Zenon
    <3>2. Book(m, (L \ {l}) \cup {l2}, l2.borrower, (n + s) - LoanShares(l2), "AtLeast")
      BY <2>2, <2>4, <2>5, <3>1, LoanReturns, Zenon
    <3> QED BY <2>1, <2>2, <3>2, Zenon
  <2>7. /\ (n + s) - s2 \in Int /\ -y \in Int /\ ((n + s) - s2) + -y \in Int
        /\ k <= ((n + s) - s2) + -y
    BY <1>3, <1>7, <2>1, <2>3
  <2>8. Book(m2, (L \ {l}) \cup {l2}, b, ((n + s) - s2) + -y, "AtLeast")
    BY <1>5, <2>6, <2>7, SeatKeepsBook, Zenon
  <2>9. Book(m2, (L \ {l}) \cup {l2}, b, k, "AtLeast") BY <2>7, <2>8, FewerInFlight, Zenon
  <2> QED BY <1>1, <1>7, <2>9, Zenon
<1> QED BY <1>1, <1>6, <1>7, Zenon

\* It takes no less from the seat than from the account.
LEMMA PaymentBacked ==
    ASSUME NEW m, NEW m2, NEW L, NEW L2, NEW b \in Borrowers, NEW a, NEW a2,
           NEW x \in Nat, NEW y \in Nat, NEW c \in Nat, x + c <= y,
           Book(m, L, NIL, 0, "AtLeast"), Book(m2, L2, NIL, 0, "AtLeast"), Backed(m, a),
           a.collateral \in Nat, a2.collateral = a.collateral - c, SeatPays(m, m2, b, x, y)
    PROVE  Backed(m2, a2) /\ a2.collateral \in Nat
<1>1. \A t \in Borrowers :
         /\ m.seats[t].encumbered \in Nat /\ m.seats[t].withdrawable \in Nat
         /\ m2.seats[t].encumbered \in Nat /\ m2.seats[t].withdrawable \in Nat
  BY SeatTyped DEF Traders
<1>2. \A t \in Borrowers : Held(m)[t] \in Nat /\ Held(m2)[t] \in Nat BY <1>1 DEF Held
<1>3. \A t \in Borrowers :
         /\ m2.seats[t].encumbered = m.seats[t].encumbered + At(t, b, -y)
         /\ m2.seats[t].withdrawable = m.seats[t].withdrawable + At(t, b, x)
  BY DEF SeatPays, SeatChanged, Traders
<1>4. \A t \in Borrowers : t # b => Held(m)[t] = Held(m2)[t] BY <1>1, <1>3 DEF Held, At
<1>5. Sum(Borrowers, Held(m2)) = (Sum(Borrowers, Held(m)) - Held(m)[b]) + Held(m2)[b]
  BY <1>2, <1>4, HeldMoves, Zenon
<1>6. Held(m2)[b] = (Held(m)[b] + x) - y BY <1>1, <1>3 DEF Held, At
<1>7. Sum(Borrowers, Held(m)) \in Nat /\ Sum(Borrowers, Held(m2)) \in Nat
  <2>1. IsFiniteSet(Borrowers) BY BookAssumption
  <2> QED BY <1>2, <2>1, SumTyped
<1>8. PICK h, h2, u, u2 : /\ h = Held(m)[b] /\ h2 = Held(m2)[b]
                          /\ u = Sum(Borrowers, Held(m)) /\ u2 = Sum(Borrowers, Held(m2))
  OBVIOUS
<1>9. /\ h \in Nat /\ h2 \in Nat /\ u \in Nat /\ u2 \in Nat /\ u2 = (u - h) + h2
      /\ h2 = (h + x) - y
  BY <1>2, <1>5, <1>6, <1>7, <1>8
<1>10. u <= a.collateral BY <1>8, Zenon DEF Backed
<1>11. u2 <= a2.collateral /\ a2.collateral \in Nat BY <1>9, <1>10
<1> QED BY <1>8, <1>11, Zenon DEF Backed

\* Together: an instruction that pays on a pool loan keeps the order book's invariant.
Pays(l, x, y, c) ==
    /\ market' \in Markets /\ SeatPays(market, market', l.borrower, x, y)
    /\ account'.collateral = account.collateral - c
    /\ account' \in [collateral : Int, liability : Nat]
    /\ LoanPaid(loans, loans', l, y)
    /\ UNCHANGED <<now, world, vault, refs>>

\* Paying on a loan keeps the order book's invariant.
LEMMA PaymentKeeps ==
    ASSUME Inv("AtLeast"), NEW l \in loans, l.lender = NIL,
           NEW x \in Nat, NEW y \in Nat, NEW c \in Nat, x + c <= y, y <= LoanShares(l),
           Pays(l, x, y, c)
    PROVE  /\ Inv("AtLeast")' /\ market'.nodes = market.nodes
           /\ market'.loan_seq = market.loan_seq
<1>1. Book(market, loans, NIL, 0, "AtLeast") /\ market' \in Markets BY DEF Inv, Pays
<1>2. l \in MatchedLoan /\ l.snapshot > 0 BY <1>1 DEF Book, LoansOK
<1>3. LoanShares(l) \in Nat /\ l.borrower \in Borrowers
  BY <1>2, LoanSharesTyped DEF MatchedLoan
<1>4. PICK m2, L2, a2, b : m2 = market' /\ L2 = loans' /\ a2 = account' /\ b = l.borrower
  OBVIOUS
<1>5. /\ m2 \in Markets /\ SeatPays(market, m2, b, x, y) /\ LoanPaid(loans, L2, l, y)
      /\ a2.collateral = account.collateral - c
  BY <1>4, Zenon DEF Pays
<1>6. Book(m2, L2, NIL, 0, "AtLeast")
  <2>1. Book(market, loans, b, 0, "AtLeast") BY <1>1, Refocus, Zenon
  <2>2. \/ L2 = loans \ {l} /\ 0 <= (0 + LoanShares(l)) - y
        \/ \E l2 : /\ Renews(l, l2) /\ L2 = (loans \ {l}) \cup {l2}
                   /\ 0 <= ((0 + LoanShares(l)) - LoanShares(l2)) - y
    <3>1. CASE L2 = loans \ {l} BY <1>3, <3>1
    <3>2. ASSUME NEW l2, Renews(l, l2), LoanShares(l2) + y <= LoanShares(l),
                 L2 = (loans \ {l}) \cup {l2}
          PROVE  /\ Renews(l, l2) /\ L2 = (loans \ {l}) \cup {l2}
                 /\ 0 <= ((0 + LoanShares(l)) - LoanShares(l2)) - y
      <4>1. LoanShares(l2) \in Nat
        <5>1. l2 \in MatchedLoan /\ l2.snapshot > 0 BY <1>2, <3>2 DEF Renews
        <5> QED BY <5>1, LoanSharesTyped
      <4> QED BY <1>3, <3>2, <4>1
    <3> QED BY <1>5, <3>1, <3>2, Zenon DEF LoanPaid
  <2>3. Book(m2, L2, b, 0, "AtLeast")
    <3>1. 0 \in Int OBVIOUS
    <3> QED BY <1>4, <1>5, <2>1, <2>2, <3>1, PaymentKeepsBook, Zenon
  <2> QED BY <2>3, Refocus, Zenon
<1>7. account.collateral \in Nat /\ Backed(market, account) BY DEF Inv
<1>8. Backed(m2, a2) /\ a2.collateral \in Nat
  BY <1>1, <1>3, <1>4, <1>5, <1>6, <1>7, PaymentBacked, Zenon
<1>9. account' \in [collateral : Nat, liability : Nat] BY <1>4, <1>8 DEF Pays
<1>10. /\ market'.order_seq = market.order_seq /\ market'.bids = market.bids
       /\ market'.nodes = market.nodes /\ market'.loan_seq = market.loan_seq
  BY <1>4, <1>5, Zenon DEF SeatPays, SeatChanged
<1>11. Listed(market', refs) BY <1>10 DEF Inv, Listed
<1>12. UNCHANGED <<now, world, vault, refs>> BY DEF Pays
<1>13. Inv("AtLeast")'
  BY <1>4, <1>6, <1>8, <1>9, <1>10, <1>11, <1>12, Stepped DEF Inv
<1> QED BY <1>10, <1>13

\* The records after a loan closed.
LEMMA CloseKeeps ==
    ASSUME PoolInv, NEW l \in loans, l.lender = NIL,
           NEW x \in Nat, NEW y \in Nat, NEW c \in Nat, x + c <= y, y <= LoanShares(l),
           Pays(l, x, y, c), loans' = loans \ {l},
           NEW burned \in Nat, burned <= account.liability,
           account'.liability = account.liability - burned,
           burned <= l.shares + AtomShares,
           \/ l.shares <= burned + 2 * AtomShares
           \/ account.liability - burned <= 2 * AtomShares
    PROVE  PoolInv' /\ Honoured
<1>1. Inv("AtLeast") BY DEF PoolInv
<1>2. /\ Inv("AtLeast")' /\ market'.nodes = market.nodes
      /\ market'.loan_seq = market.loan_seq
  BY <1>1, PaymentKeeps, Zenon
<1>3. /\ market \in Markets /\ Separate(market, loans) /\ account.liability \in Nat
      /\ Owed(market, loans) \in Nat
  BY <1>1, PoolState, Zenon
<1>4. /\ Owed(market, loans) = Owed(market, loans \ {l}) + l.shares
      /\ Owed(market, loans \ {l}) \in Nat
      /\ Gone(market, loans \ {l}) = Gone(market, loans) + 1
  BY <1>3, OwedLeaves, Zenon
<1>5. l.shares \in Nat BY <1>3, OwedTyped
<1>6. PICK R, R2, K : /\ R = Owed(market, loans) /\ R2 = Owed(market, loans \ {l})
                      /\ K = Gone(market, loans)
  OBVIOUS
<1>7. R \in Nat /\ R2 \in Nat /\ R2 = R - l.shares /\ l.shares <= R
  BY <1>3, <1>4, <1>5, <1>6
<1>8. Agree(R, account.liability, K) BY <1>6, Zenon DEF PoolInv
<1>9. Agree(R - l.shares, account.liability - burned, K + 1)
  BY <1>3, <1>5, <1>7, <1>8, AgreeCloses, Zenon
<1>10. Owed(market', loans') = R2 /\ Gone(market', loans') = K + 1
  <2>1. Owed(market', loans \ {l}) = Owed(market, loans \ {l}) BY <1>2, Zenon DEF Owed
  <2>2. Gone(market', loans \ {l}) = Gone(market, loans \ {l}) BY <1>2, Zenon DEF Gone
  <2> QED BY <1>4, <1>6, <2>1, <2>2, Zenon
<1>11. Agree(Owed(market', loans'), account'.liability, Gone(market', loans'))
  BY <1>7, <1>9, <1>10, Zenon
<1>12. Honoured BY <1>2 DEF Honoured
<1> QED BY <1>2, <1>11, <1>12, Zenon DEF PoolInv

\* The records after a loan was paid in part.
LEMMA ShrinkKeeps ==
    ASSUME PoolInv, NEW l \in loans, l.lender = NIL, NEW l2, Renews(l, l2),
           NEW x \in Nat, NEW y \in Nat, NEW c \in Nat, x + c <= y, y <= LoanShares(l),
           Pays(l, x, y, c), loans' = (loans \ {l}) \cup {l2},
           NEW burned \in Nat, burned <= account.liability,
           account'.liability = account.liability - burned,
           l2.shares + burned <= l.shares,
           \/ l2.shares + burned = l.shares
           \/ l2.shares = account.liability - burned
    PROVE  PoolInv' /\ Honoured
<1>1. Inv("AtLeast") BY DEF PoolInv
<1>2. /\ Inv("AtLeast")' /\ market'.nodes = market.nodes
      /\ market'.loan_seq = market.loan_seq
  BY <1>1, PaymentKeeps, Zenon
<1>3. /\ market \in Markets /\ Separate(market, loans) /\ account.liability \in Nat
      /\ Owed(market, loans) \in Nat /\ Gone(market, loans) \in Int /\ LoansOK(market, loans)
  BY <1>1, PoolState, Zenon
<1>4. /\ Owed(market, loans) = Owed(market, loans \ {l}) + l.shares
      /\ Owed(market, loans \ {l}) \in Nat
      /\ Gone(market, loans \ {l}) = Gone(market, loans) + 1
  BY <1>3, OwedLeaves, Zenon
<1>5. /\ l.shares \in Nat /\ l2.shares \in Nat /\ l2 \in MatchedLoan /\ l2.lender = NIL
  BY <1>3, OwedTyped DEF Renews, MatchedLoan
<1>6. Separate(market, loans \ {l})
  <2>1. IsFiniteSet(loans \ {l}) BY <1>3, FS_RemoveElement DEF Separate
  <2> QED BY <1>3, <2>1 DEF Separate
<1>7. l2 \notin market.nodes \cup (loans \ {l}) BY <1>3 DEF LoansOK, Renews
<1>8. /\ Owed(market, (loans \ {l}) \cup {l2}) = Owed(market, loans \ {l}) + l2.shares
      /\ Gone(market, (loans \ {l}) \cup {l2}) = Gone(market, loans \ {l}) - 1
  BY <1>3, <1>5, <1>6, <1>7, OwedReturns, Zenon
<1>9. PICK R, R1, K : /\ R = Owed(market, loans) /\ R1 = Owed(market, loans \ {l})
                      /\ K = Gone(market, loans)
  OBVIOUS
<1>10. R \in Nat /\ R1 \in Nat /\ K \in Int /\ R1 = R - l.shares /\ l.shares <= R
  BY <1>3, <1>4, <1>5, <1>9
<1>11. Agree(R, account.liability, K) BY <1>9, Zenon DEF PoolInv
<1>12. Agree((R - l.shares) + l2.shares, account.liability - burned, K)
  BY <1>3, <1>5, <1>10, <1>11, AgreeShrinks, Zenon
<1>13. Owed(market', loans') = R1 + l2.shares /\ Gone(market', loans') = K
  <2>1. Owed(market', loans') = Owed(market, (loans \ {l}) \cup {l2})
    BY <1>2, Zenon DEF Owed
  <2>2. Gone(market', loans') = Gone(market, (loans \ {l}) \cup {l2})
    BY <1>2, Zenon DEF Gone
  <2>3. (K + 1) - 1 = K BY <1>10
  <2>4. Gone(market, (loans \ {l}) \cup {l2}) = (K + 1) - 1 BY <1>4, <1>8, <1>9, Zenon
  <2> QED BY <1>8, <1>9, <2>1, <2>2, <2>3, <2>4, Zenon
<1>14. Agree(Owed(market', loans'), account'.liability, Gone(market', loans'))
  BY <1>10, <1>12, <1>13, Zenon
<1>15. Honoured BY <1>2 DEF Honoured
<1> QED BY <1>2, <1>14, <1>15, Zenon DEF PoolInv

\* What a payment to marginfi burns: no more than the account owes, and no more than an
\* atom's shares beyond what the loan records.
LEMMA BurnBounds ==
    ASSUME Inv("AtLeast"), NEW l \in loans, NEW repaid \in Nat, NEW all \in BOOLEAN, NEW burned,
           repaid <= loan_live_outstanding_atoms(l),
           all => ThisLoanShares(l) = account.liability,
           burned = marginfi_repay(repaid, all)
    PROVE  /\ burned \in Nat /\ burned <= account.liability
           /\ burned <= ThisLoanShares(l) + AtomShares
           /\ ThisLoanShares(l) \in Nat /\ ThisLoanShares(l) <= l.shares /\ l.shares \in Nat
           /\ ThisLoanShares(l) <= account.liability
           /\ ThisLoanShares(l) = l.shares \/ ThisLoanShares(l) = account.liability
<1>1. /\ market \in Markets /\ Separate(market, loans) /\ account.liability \in Nat
      /\ world \in Worlds /\ world.lsv \in Nat \ {0}
  BY PoolState, Zenon
<1>2. l.shares \in Nat BY <1>1, OwedTyped
<1>3. PICK s, Y : s = ThisLoanShares(l) /\ Y = account.liability OBVIOUS
<1>4. s \in Nat /\ s <= l.shares /\ s <= Y /\ Y \in Nat /\ (s = l.shares \/ s = Y)
  BY <1>1, <1>2, <1>3 DEF ThisLoanShares, MinOf
<1>5. PICK f : f = amount_to_asset_shares(repaid, world.lsv) OBVIOUS
<1>6. loan_live_outstanding_atoms(l) = Ceil(s, world.lsv)
  BY <1>3 DEF loan_live_outstanding_atoms, liability_shares_to_atoms_ceil, Ceil
<1>7. f \in Nat BY <1>1, <1>5, SharesTyped
<1>8. f <= s + amount_to_asset_shares(1, world.lsv)
  BY <1>1, <1>4, <1>5, <1>6, BurnsAtMost
<1>9. /\ AtomShares \in Nat /\ amount_to_asset_shares(1, world.lsv) + 1 <= AtomShares
      /\ amount_to_asset_shares(1, world.lsv) \in Nat
  BY <1>1, AtomSharesBound, SharesTyped
<1>10. f <= s + AtomShares BY <1>4, <1>7, <1>8, <1>9
<1>11. CASE all
  <2>1. burned = Y BY <1>3, <1>11 DEF marginfi_repay
  <2>2. s = Y BY <1>3, <1>11
  <2>3. burned \in Nat /\ burned <= Y /\ burned <= s + AtomShares BY <1>4, <1>9, <2>1, <2>2
  <2> QED BY <1>2, <1>3, <1>4, <2>3
<1>12. CASE ~all
  <2>1. burned = MinOf(f, Y) BY <1>3, <1>5, <1>12 DEF marginfi_repay
  <2>2. burned \in Nat /\ burned <= Y /\ burned <= f BY <1>4, <1>7, <2>1 DEF MinOf
  <2>3. burned <= s + AtomShares BY <1>4, <1>7, <1>9, <1>10, <2>2
  <2> QED BY <1>2, <1>3, <1>4, <2>2, <2>3
<1> QED BY <1>11, <1>12

\* What counts as paid is worth at most two atoms' shares; nothing left is paid.
LEMMA PaidBounds ==
    ASSUME world \in Worlds, NEW post \in Nat
    PROVE  /\ DidFullRepay(post) => post <= 2 * AtomShares
           /\ ~DidFullRepay(post) => post > 0
<1>1. world.lsv \in Nat \ {0} BY BookAssumption
<1>2. /\ AtomShares \in Nat /\ amount_to_asset_shares(1, world.lsv) + 1 <= AtomShares
      /\ amount_to_asset_shares(1, world.lsv) \in Nat
  BY <1>1, AtomSharesBound, SharesTyped
<1>3. DidFullRepay(post) <=> shares_to_amount(post, world.lsv) <= 1
  BY DEF DidFullRepay, liability_shares_to_atoms_floor
<1>4. ASSUME DidFullRepay(post) PROVE post <= 2 * AtomShares
  <2>1. post <= 2 * (amount_to_asset_shares(1, world.lsv) + 1)
    BY <1>1, <1>3, <1>4, PaidLeaves
  <2> QED BY <1>2, <2>1
<1>5. ASSUME ~DidFullRepay(post), post = 0 PROVE FALSE
  <2>1. 0 * world.lsv = 0 /\ 0 < 2 * (SCALE * SCALE) BY <1>1, ScaleAssumption
  <2> QED BY <1>1, <1>3, <1>5, <2>1, PaidMeans
<1> QED BY <1>4, <1>5

\* One seat is written.
LEMMA SeatWrites ==
    ASSUME NEW m \in Markets, NEW b \in Borrowers, NEW x \in Nat, NEW y \in Nat,
           NEW seat \in Seat, NEW m2, m2 = [m EXCEPT !.seats = [m.seats EXCEPT ![b] = seat]],
           seat.claimed = m.seats[b].claimed, seat.open_lend = m.seats[b].open_lend,
           seat.withdrawable = m.seats[b].withdrawable + x,
           seat.encumbered = m.seats[b].encumbered - y
    PROVE  m2 \in Markets /\ SeatPays(m, m2, b, x, y)
<1>1. b \in Traders /\ m.seats \in [Traders -> Seat] BY DEF Traders, Markets
<1>2. PICK s : s = [m.seats EXCEPT ![b] = seat] OBVIOUS
<1>3. s \in [Traders -> Seat] /\ s[b] = seat /\ \A t \in Traders : t # b => s[t] = m.seats[t]
  BY <1>1, <1>2
<1>4. m2 = [m EXCEPT !.seats = s] BY <1>2
<1>5. /\ m2 \in Markets /\ m2.asks = m.asks /\ m2.bids = m.bids /\ m2.nodes = m.nodes
      /\ m2.order_seq = m.order_seq /\ m2.loan_seq = m.loan_seq
      /\ m2.blocks = m.blocks /\ m2.free = m.free /\ m2.seats = s
  BY <1>3, <1>4 DEF Markets
<1>6. ASSUME NEW t \in Traders
      PROVE  /\ s[t].claimed = m.seats[t].claimed
             /\ s[t].encumbered = m.seats[t].encumbered + At(t, b, -y)
             /\ s[t].withdrawable = m.seats[t].withdrawable + At(t, b, x)
             /\ s[t].open_lend = m.seats[t].open_lend
  <2>1. m.seats[t].encumbered \in Int /\ m.seats[t].withdrawable \in Nat BY <1>1 DEF Seat
  <2>2. CASE t = b BY <1>3, <2>1, <2>2 DEF At
  <2>3. CASE t # b BY <1>3, <2>1, <2>3 DEF At
  <2> QED BY <2>2, <2>3
<1> QED BY <1>5, <1>6 DEF SeatPays, SeatChanged

\* Nothing is paid.
LEMMA NothingPays ==
    ASSUME NEW m \in Markets, NEW b
    PROVE  SeatPays(m, m, b, 0, 0)
<1>1. \A z \in Int : -z = 0 - z OBVIOUS
<1>2. 0 \in Int /\ 0 - 0 = 0 OBVIOUS
<1>3. -0 = 0 BY <1>1, <1>2, Zenon
<1>4. \A t \in Traders : At(t, b, -0) = 0 /\ At(t, b, 0) = 0 BY <1>3, Zenon DEF At
<1>5. \A t \in Traders : m.seats[t].encumbered \in Int /\ m.seats[t].withdrawable \in Nat
  BY DEF Markets, Seat
<1>6. \A t \in Traders : /\ m.seats[t].encumbered = m.seats[t].encumbered + At(t, b, -0)
                         /\ m.seats[t].withdrawable = m.seats[t].withdrawable + At(t, b, 0)
  BY <1>4, <1>5
<1> QED BY <1>6, Zenon DEF SeatPays, SeatChanged

\* unencumber_for_order, and the loan is no longer counted.
LEMMA ReleasePays ==
    ASSUME NEW m \in Markets, NEW b \in Borrowers, NEW n \in Nat, NEW m2,
           m2 = [m EXCEPT !.seats = ClosedSeats(m.seats, b, n)]
    PROVE  m2 \in Markets /\ SeatPays(m, m2, b, n, n)
<1>1. b \in Traders /\ m.seats \in [Traders -> Seat] BY DEF Traders, Markets
<1>2. PICK s1 : s1 = unencumber_for_order(m.seats, b, n) OBVIOUS
<1>3. PICK seat : seat = CloseBorrow(s1[b]) OBVIOUS
<1>4. s1 \in [Traders -> Seat] BY <1>1, <1>2, UnencumberShape
<1>5. PICK u : u = SatSub(s1[b].open_borrow, 1) OBVIOUS
<1>6. u \in Nat BY <1>1, <1>4, <1>5 DEF Seat, SatSub
<1>7. seat = [s1[b] EXCEPT !.open_borrow = u] BY <1>3, <1>5 DEF CloseBorrow
<1>8. /\ seat \in Seat /\ seat.claimed = s1[b].claimed /\ seat.open_lend = s1[b].open_lend
      /\ seat.withdrawable = s1[b].withdrawable /\ seat.encumbered = s1[b].encumbered
  BY <1>1, <1>4, <1>6, <1>7 DEF Seat
<1>9. s1 = [m.seats EXCEPT ![b] = [m.seats[b] EXCEPT !.encumbered = @ - n,
                                                     !.withdrawable = @ + n]]
  BY <1>1, <1>2 DEF unencumber_for_order, Seat
<1>10. PICK p : p = [m.seats[b] EXCEPT !.encumbered = @ - n, !.withdrawable = @ + n] OBVIOUS
<1>11. s1[b] = p /\ [s1 EXCEPT ![b] = seat] = [m.seats EXCEPT ![b] = seat]
  BY <1>1, <1>9, <1>10
<1>12. /\ s1[b].claimed = m.seats[b].claimed /\ s1[b].open_lend = m.seats[b].open_lend
       /\ s1[b].withdrawable = m.seats[b].withdrawable + n
       /\ s1[b].encumbered = m.seats[b].encumbered - n
  BY <1>1, <1>10, <1>11 DEF Seat
<1>13. m2 = [m EXCEPT !.seats = [m.seats EXCEPT ![b] = seat]]
  BY <1>2, <1>3, <1>11 DEF ClosedSeats
<1>14. /\ seat.claimed = m.seats[b].claimed /\ seat.open_lend = m.seats[b].open_lend
       /\ seat.withdrawable = m.seats[b].withdrawable + n
       /\ seat.encumbered = m.seats[b].encumbered - n
  BY <1>8, <1>12
<1> QED BY <1>8, <1>13, <1>14, SeatWrites

\* repay of a pool loan.
LEMMA RepayPoolKeeps ==
    ASSUME PoolInv, NEW l \in PoolLoans, NEW atoms \in Nat, NEW full \in BOOLEAN,
           RepayPool(l, atoms, full)
    PROVE  PoolInv' /\ Honoured
<1>1. Inv("AtLeast") /\ l \in loans /\ l.lender = NIL BY DEF PoolInv, PoolLoans
<1>2. /\ market \in Markets /\ LoansOK(market, loans) /\ account.liability \in Nat
      /\ account.collateral \in Nat /\ world \in Worlds
  BY <1>1, PoolState, Zenon
<1>3. l \in MatchedLoan /\ l.snapshot > 0 BY <1>1, <1>2 DEF LoansOK
<1>4. LoanShares(l) \in Nat /\ l.borrower \in Borrowers
  BY <1>3, LoanSharesTyped DEF MatchedLoan
<1>5. PICK s, live, repaid, all :
         /\ s = ThisLoanShares(l) /\ live = loan_live_outstanding_atoms(l)
         /\ repaid = (IF full THEN live ELSE atoms) /\ all = UsesRepayAll(s, full)
  OBVIOUS
<1>6. PICK burned : burned = marginfi_repay(repaid, all) OBVIOUS
<1>7. PICK post : post = SatSub(s, burned) OBVIOUS
<1>8. /\ s > 0 /\ repaid \in 1..live
      /\ account' = [account EXCEPT !.liability = @ - burned]
      /\ \/ /\ DidFullRepay(post)
            /\ market' = [market EXCEPT !.seats =
                              ClosedSeats(market.seats, l.borrower, LoanShares(l))]
            /\ loans' = loans \ {l}
         \/ /\ ~DidFullRepay(post)
            /\ loans' = (loans \ {l}) \cup {[l EXCEPT !.shares = post]}
            /\ market' = market
      /\ UNCHANGED <<now, world, vault, refs>>
  BY <1>5, <1>6, <1>7, Zenon DEF RepayPool
<1>9. repaid \in Nat /\ repaid <= live
  <2>1. live \in Nat
    <3>1. s \in Nat BY <1>1, <1>2, <1>3, <1>5 DEF ThisLoanShares, MinOf, MatchedLoan
    <3>2. world.lsv \in Nat \ {0} BY <1>1, PoolState
    <3>3. live = Ceil(s, world.lsv)
      BY <1>5 DEF loan_live_outstanding_atoms, liability_shares_to_atoms_ceil, Ceil
    <3> QED BY <3>1, <3>2, <3>3, CeilTyped
  <2> QED BY <1>8, <2>1
<1>10. all \in BOOLEAN /\ (all => s = account.liability) BY <1>5 DEF UsesRepayAll
<1>11. /\ burned \in Nat /\ burned <= account.liability /\ burned <= s + AtomShares
       /\ s \in Nat /\ s <= l.shares /\ l.shares \in Nat /\ s <= account.liability
       /\ s = l.shares \/ s = account.liability
  BY <1>1, <1>5, <1>6, <1>9, <1>10, BurnBounds
<1>12. AtomShares \in Nat BY AtomSharesBound
<1>13. post \in Nat /\ s - burned <= post /\ (post > 0 => post = s - burned)
  BY <1>7, <1>11 DEF SatSub
<1>14. /\ DidFullRepay(post) => post <= 2 * AtomShares
       /\ ~DidFullRepay(post) => post > 0
  BY <1>2, <1>13, PaidBounds
<1>15. PICK a2 : a2 = account' OBVIOUS
<1>16. PICK y2 : y2 = account.liability - burned OBVIOUS
<1>17. y2 \in Nat BY <1>2, <1>11, <1>16
<1>18. account \in [collateral : Nat, liability : Nat] BY <1>1 DEF Inv
<1>19. /\ a2.liability = y2 /\ a2.collateral = account.collateral - 0
       /\ a2 \in [collateral : Int, liability : Nat]
  <2>1. a2 = [account EXCEPT !.liability = y2] BY <1>8, <1>15, <1>16
  <2> QED BY <1>2, <1>17, <1>18, <2>1
<1>20. CASE /\ DidFullRepay(post)
            /\ market' = [market EXCEPT !.seats =
                              ClosedSeats(market.seats, l.borrower, LoanShares(l))]
            /\ loans' = loans \ {l}
  <2>1. PICK n : n = LoanShares(l) OBVIOUS
  <2>2. n \in Nat BY <1>4, <2>1
  <2>3. PICK m2 : m2 = market' OBVIOUS
  <2>4. m2 = [market EXCEPT !.seats = ClosedSeats(market.seats, l.borrower, n)]
    BY <1>20, <2>1, <2>3, Zenon
  <2>5. m2 \in Markets /\ SeatPays(market, m2, l.borrower, n, n)
    BY <1>2, <1>4, <2>2, <2>4, ReleasePays
  <2>6. Pays(l, n, n, 0)
    <3>1. LoanPaid(loans, loans', l, n) BY <1>20, Zenon DEF LoanPaid
    <3> QED BY <1>8, <1>15, <1>19, <2>3, <2>5, <3>1, Zenon DEF Pays
  <2>7. n + 0 <= n /\ n <= LoanShares(l) /\ 0 \in Nat BY <2>1, <2>2
  <2>8. account'.liability = account.liability - burned BY <1>15, <1>16, <1>19, Zenon
  <2>9. burned <= l.shares + AtomShares BY <1>11, <1>12
  <2>10. \/ l.shares <= burned + 2 * AtomShares
         \/ account.liability - burned <= 2 * AtomShares
    <3>1. s <= burned + 2 * AtomShares BY <1>11, <1>12, <1>13, <1>14, <1>20
    <3> QED BY <1>2, <1>11, <1>12, <3>1
  <2> QED BY <1>1, <1>11, <1>20, <2>2, <2>6, <2>7, <2>8, <2>9, <2>10, CloseKeeps, Zenon
<1>21. CASE /\ ~DidFullRepay(post)
            /\ loans' = (loans \ {l}) \cup {[l EXCEPT !.shares = post]}
            /\ market' = market
  <2>1. PICK l2 : l2 = [l EXCEPT !.shares = post] OBVIOUS
  <2>2. Renews(l, l2) /\ l2.shares = post /\ l2.collateral = l.collateral
    BY <1>3, <1>13, <2>1 DEF Renews, MatchedLoan
  <2>3. LoanShares(l2) = LoanShares(l) BY <2>2 DEF LoanShares, Renews
  <2>4. SeatPays(market, market', l.borrower, 0, 0) BY <1>2, <1>21, NothingPays, Zenon
  <2>5. Pays(l, 0, 0, 0)
    <3>1. LoanShares(l2) + 0 <= LoanShares(l) BY <1>4, <2>3
    <3>2. LoanPaid(loans, loans', l, 0) BY <1>21, <2>1, <2>2, <3>1, Zenon DEF LoanPaid
    <3> QED BY <1>2, <1>8, <1>15, <1>19, <1>21, <2>4, <3>2, Zenon DEF Pays
  <2>6. 0 + 0 <= 0 /\ 0 <= LoanShares(l) /\ 0 \in Nat BY <1>4
  <2>7. account'.liability = account.liability - burned BY <1>15, <1>16, <1>19, Zenon
  <2>8. post = s - burned BY <1>13, <1>14, <1>21
  <2>9. /\ l2.shares + burned <= l.shares
        /\ l2.shares + burned = l.shares \/ l2.shares = account.liability - burned
    BY <1>2, <1>11, <1>13, <2>2, <2>8
  <2>10. loans' = (loans \ {l}) \cup {l2} BY <1>21, <2>1, Zenon
  <2> QED BY <1>1, <1>11, <2>2, <2>5, <2>6, <2>7, <2>9, <2>10, ShrinkKeeps, Zenon
<1> QED BY <1>8, <1>20, <1>21

-----------------------------------------------------------------------------
(* Keepers *)

\* A loan's shares are encumbered on its borrower's seat, so no release saturates.
LEMMA LoanEncumbers ==
    ASSUME Inv("AtLeast"), NEW l \in loans, l.lender = NIL
    PROVE  /\ LoanShares(l) \in Nat /\ market.seats[l.borrower].encumbered \in Nat
           /\ LoanShares(l) <= market.seats[l.borrower].encumbered
           /\ market.seats[l.borrower] \in Seat /\ l.borrower \in Borrowers
<1>1. Book(market, loans, NIL, 0, "AtLeast") BY DEF Inv
<1>2. l \in MatchedLoan /\ l.snapshot > 0 BY <1>1 DEF Book, LoansOK
<1>3. LoanShares(l) \in Nat /\ l.borrower \in Borrowers
  BY <1>2, LoanSharesTyped DEF MatchedLoan
<1>4. PICK b, n : b = l.borrower /\ n = LoanShares(l) OBVIOUS
<1>5. Book(market, loans, b, 0, "AtLeast") BY <1>1, Refocus, Zenon
<1>6. Book(market, loans \ {l}, b, 0 + n, "AtLeast")
  <2>1. 0 \in Int OBVIOUS
  <2> QED BY <1>4, <1>5, <2>1, LoanLeaves, Zenon
<1>7. b \in Traders BY <1>3, <1>4 DEF Traders
<1>8. Due(market, loans \ {l}, b) + At(b, b, 0 + n) <= market.seats[b].encumbered
  BY <1>6, <1>7 DEF Book, EncumberedOK
<1>9. Due(market, loans \ {l}, b) \in Nat BY <1>6, BookSets, Zenon
<1>10. market.seats[b].encumbered \in Nat /\ market.seats[b] \in Seat
  BY <1>1, <1>7, SeatTyped DEF Book, Markets
<1>11. n <= market.seats[b].encumbered BY <1>3, <1>4, <1>8, <1>9, <1>10 DEF At
<1> QED BY <1>3, <1>4, <1>10, <1>11

\* The debt a keeper may pay, and what it takes of the collateral.
LEMMA LiveTyped ==
    ASSUME Inv("AtLeast"), NEW l \in loans
    PROVE  /\ ThisLoanShares(l) \in Nat /\ loan_live_outstanding_atoms(l) \in Nat
           /\ loan_live_outstanding_atoms(l) = Ceil(ThisLoanShares(l), world.lsv)
<1>1. /\ market \in Markets /\ Separate(market, loans) /\ account.liability \in Nat
      /\ world.lsv \in Nat \ {0}
  BY PoolState, Zenon
<1>2. l.shares \in Nat BY <1>1, OwedTyped
<1>3. ThisLoanShares(l) \in Nat BY <1>1, <1>2 DEF ThisLoanShares, MinOf
<1>4. loan_live_outstanding_atoms(l) = Ceil(ThisLoanShares(l), world.lsv)
  BY Zenon DEF loan_live_outstanding_atoms, liability_shares_to_atoms_ceil, Ceil
<1> QED BY <1>1, <1>3, <1>4, CeilTyped

\* What a liquidation or a settlement leaves behind, whatever it takes.
LEMMA KeeperKeeps ==
    ASSUME PoolInv, NEW l \in loans, l.lender = NIL, NEW max \in Nat, NEW live, NEW repaid,
           NEW w \in Nat, NEW burned, NEW post, NEW x \in Nat, NEW y \in Nat,
           live = loan_live_outstanding_atoms(l), repaid = KeeperPays(max, live),
           w <= l.collateral,
           burned = marginfi_repay(repaid, UsesRepayAll(l.shares, repaid = live)),
           post = SatSub(l.shares, burned),
           account' = AccountAfter(burned, w), loans' = LoansAfter(l, post, w),
           market' \in Markets, SeatPays(market, market', l.borrower, x, y),
           x + SnapshotShares(l, w) <= y, y <= LoanShares(l),
           ~DidFullRepay(post) => x = 0 /\ y = SnapshotShares(l, w),
           UNCHANGED <<now, world, vault, refs>>
    PROVE  PoolInv' /\ Honoured
<1>1. Inv("AtLeast") BY DEF PoolInv
<1>2. /\ market \in Markets /\ LoansOK(market, loans) /\ account.liability \in Nat
      /\ account.collateral \in Nat /\ world \in Worlds /\ world.asv \in Nat \ {0}
  BY <1>1, PoolState, Zenon
<1>3. /\ l \in MatchedLoan /\ l.snapshot \in Nat \ {0} /\ l.snapshot <= world.asv
      /\ l.collateral \in Nat
  BY <1>2 DEF LoansOK, MatchedLoan
<1>4. LoanShares(l) \in Nat BY <1>1, LoanEncumbers
<1>5. live \in Nat BY <1>1, LiveTyped
<1>6. repaid \in Nat /\ repaid <= live BY <1>5 DEF KeeperPays, MinOf
<1>7. PICK all : all = UsesRepayAll(l.shares, repaid = live) OBVIOUS
<1>8. all \in BOOLEAN /\ (all => ThisLoanShares(l) = account.liability)
  BY <1>2, <1>7 DEF UsesRepayAll, ThisLoanShares, MinOf
<1>9. /\ burned \in Nat /\ burned <= account.liability
      /\ burned <= ThisLoanShares(l) + AtomShares
      /\ ThisLoanShares(l) \in Nat /\ ThisLoanShares(l) <= l.shares /\ l.shares \in Nat
  BY <1>1, <1>6, <1>7, <1>8, BurnBounds
<1>10. AtomShares \in Nat BY AtomSharesBound
<1>11. post \in Nat /\ l.shares - burned <= post /\ (post > 0 => post = l.shares - burned)
  BY <1>9 DEF SatSub
<1>12. /\ DidFullRepay(post) => post <= 2 * AtomShares
       /\ ~DidFullRepay(post) => post > 0
  BY <1>2, <1>11, PaidBounds
<1>13. PICK c : c = amount_to_asset_shares(w, world.asv) OBVIOUS
<1>14. c \in Nat /\ c <= SnapshotShares(l, w) /\ SnapshotShares(l, w) \in Nat
  BY <1>2, <1>3, <1>13, SharesTyped, SharesAntitone DEF SnapshotShares
<1>15. x + c <= y BY <1>14
<1>16. PICK a2 : a2 = account' OBVIOUS
<1>17. a2 = [collateral |-> account.collateral - c, liability |-> account.liability - burned]
  BY <1>13, <1>16, Zenon DEF AccountAfter
<1>18. /\ a2.collateral = account.collateral - c /\ a2.liability = account.liability - burned
       /\ a2 \in [collateral : Int, liability : Nat]
  BY <1>2, <1>9, <1>14, <1>17
<1>19. CASE DidFullRepay(post)
  <2>1. loans' = loans \ {l} BY <1>19 DEF LoansAfter
  <2>2. Pays(l, x, y, c)
    <3>1. LoanPaid(loans, loans', l, y) BY <2>1, Zenon DEF LoanPaid
    <3> QED BY <1>16, <1>18, <3>1, Zenon DEF Pays
  <2>3. account'.liability = account.liability - burned BY <1>16, <1>18, Zenon
  <2>4. burned <= l.shares + AtomShares BY <1>9, <1>10
  <2>5. l.shares <= burned + 2 * AtomShares BY <1>9, <1>10, <1>11, <1>12, <1>19
  <2> QED BY <1>9, <1>14, <1>15, <2>1, <2>2, <2>3, <2>4, <2>5, CloseKeeps, Zenon
<1>20. CASE ~DidFullRepay(post)
  <2>1. PICK k : k = SatSub(l.collateral, w) OBVIOUS
  <2>2. k = l.collateral - w /\ k \in Nat BY <1>3, <2>1 DEF SatSub
  <2>3. PICK l2 : l2 = [l EXCEPT !.shares = post, !.collateral = k] OBVIOUS
  <2>4. Renews(l, l2) /\ l2.shares = post /\ l2.collateral = k
    BY <1>3, <1>11, <2>2, <2>3 DEF Renews, MatchedLoan
  <2>5. loans' = (loans \ {l}) \cup {l2}
    <3>1. [l EXCEPT !.shares = post, !.collateral = SatSub(@, w)] = l2
      BY <1>3, <2>1, <2>3 DEF MatchedLoan
    <3> QED BY <1>20, <3>1 DEF LoansAfter
  <2>6. LoanShares(l2) + y <= LoanShares(l)
    <3>1. LoanShares(l2) = amount_to_asset_shares(l.collateral - w, l.snapshot)
      BY <2>2, <2>4, Zenon DEF LoanShares, Renews
    <3>2. y = amount_to_asset_shares(w, l.snapshot) BY <1>20, Zenon DEF SnapshotShares
    <3>3. LoanShares(l) = amount_to_asset_shares(l.collateral, l.snapshot)
      BY Zenon DEF LoanShares
    <3>4. /\ amount_to_asset_shares(l.collateral - w, l.snapshot) \in Nat
          /\ amount_to_asset_shares(w, l.snapshot)
               + amount_to_asset_shares(l.collateral - w, l.snapshot)
               <= amount_to_asset_shares(l.collateral, l.snapshot)
      BY <1>3, SplitShares
    <3> QED BY <3>1, <3>2, <3>3, <3>4
  <2>7. Pays(l, x, y, c)
    <3>1. LoanPaid(loans, loans', l, y) BY <2>4, <2>5, <2>6, Zenon DEF LoanPaid
    <3> QED BY <1>16, <1>18, <3>1, Zenon DEF Pays
  <2>8. account'.liability = account.liability - burned BY <1>16, <1>18, Zenon
  <2>9. l2.shares + burned <= l.shares /\ l2.shares + burned = l.shares
    BY <1>9, <1>11, <1>12, <1>20, <2>4
  <2> QED BY <1>9, <1>14, <1>15, <2>4, <2>5, <2>7, <2>8, <2>9, ShrinkKeeps, Zenon
<1> QED BY <1>19, <1>20

\* What taking the loan's shares, or part of them, writes on a seat.
LEMMA KeeperWrites ==
    ASSUME NEW m \in Markets, NEW b \in Borrowers, NEW x \in Nat, NEW y \in Nat, NEW s1,
           NEW seat, y <= m.seats[b].encumbered,
           s1 = [m.seats[b] EXCEPT !.encumbered = m.seats[b].encumbered - y,
                                   !.withdrawable = m.seats[b].withdrawable + x],
           seat = s1 \/ seat = CloseBorrow(s1)
    PROVE  /\ [m EXCEPT !.seats = [m.seats EXCEPT ![b] = seat]] \in Markets
           /\ SeatPays(m, [m EXCEPT !.seats = [m.seats EXCEPT ![b] = seat]], b, x, y)
<1>1. b \in Traders /\ m.seats[b] \in Seat BY DEF Traders, Markets
<1>2. PICK e, d : e = m.seats[b].encumbered - y /\ d = m.seats[b].withdrawable + x OBVIOUS
<1>3. e \in Int /\ d \in Nat BY <1>1, <1>2 DEF Seat
<1>4. s1 = [m.seats[b] EXCEPT !.encumbered = e, !.withdrawable = d] BY <1>2
<1>5. /\ s1 \in Seat /\ s1.claimed = m.seats[b].claimed /\ s1.open_lend = m.seats[b].open_lend
      /\ s1.withdrawable = d /\ s1.encumbered = e /\ s1.open_borrow \in Nat
  BY <1>1, <1>3, <1>4 DEF Seat
<1>6. /\ seat \in Seat /\ seat.claimed = m.seats[b].claimed
      /\ seat.open_lend = m.seats[b].open_lend /\ seat.withdrawable = d /\ seat.encumbered = e
  <2>1. CASE seat = s1 BY <1>5, <2>1
  <2>2. CASE seat = CloseBorrow(s1)
    <3>1. PICK u : u = SatSub(s1.open_borrow, 1) OBVIOUS
    <3>2. u \in Nat BY <1>5, <3>1 DEF SatSub
    <3>3. seat = [s1 EXCEPT !.open_borrow = u] BY <2>2, <3>1 DEF CloseBorrow
    <3> QED BY <1>5, <3>2, <3>3 DEF Seat
  <2> QED BY <2>1, <2>2
<1>7. PICK m2 : m2 = [m EXCEPT !.seats = [m.seats EXCEPT ![b] = seat]] OBVIOUS
<1>8. m2 \in Markets /\ SeatPays(m, m2, b, x, y) BY <1>2, <1>6, <1>7, SeatWrites
<1> QED BY <1>7, <1>8, Zenon

\* Collateral worth an amount of debt at equal weights is a natural number.
LEMMA WorthTyped ==
    ASSUME NEW a \in Nat, NEW p \in Nat, NEW q \in Nat \ {0}
    PROVE  get_required_quote_collateral_to_back_debt(a, p, q, SCALE, SCALE) \in Nat
<1>0. SCALE \in Nat \ {0} BY ScaleAssumption
<1> DEFINE n1 == a * SCALE
           n2 == (n1 * p) \div SCALE
           n3 == (n2 * SCALE) \div SCALE
           d  == (q * SCALE) \div SCALE
           z  == (n3 * SCALE) \div d
<1>1. n1 \in Nat BY <1>0
<1> HIDE DEF n1
<1>2. n2 \in Nat
  <2>1. n1 * p \in Nat BY <1>1
  <2> QED BY <1>0, <2>1, DivFloor
<1> HIDE DEF n2
<1>3. n3 \in Nat
  <2>1. n2 * SCALE \in Nat BY <1>0, <1>2
  <2> QED BY <1>0, <2>1, DivFloor
<1> HIDE DEF n3
<1>4. d \in Nat \ {0}
  <2>1. PICK x \in Nat : x = q * SCALE BY <1>0
  <2>2. d \in Nat /\ x < SCALE * d + SCALE BY <1>0, <2>1, DivFloor
  <2>3. SCALE <= x BY <1>0, <2>1
  <2>4. ASSUME d = 0 PROVE FALSE
    <3>1. SCALE * d = 0 BY <1>0, <2>4
    <3> QED BY <1>0, <2>1, <2>2, <2>3, <3>1
  <2> QED BY <2>2, <2>4
<1> HIDE DEF d
<1>5. z \in Nat
  <2>1. n3 * SCALE \in Nat BY <1>0, <1>3
  <2> QED BY <1>4, <2>1, DivFloor
<1>6. get_required_quote_collateral_to_back_debt(a, p, q, SCALE, SCALE) = from_scaled_ceil(z)
  BY DEF get_required_quote_collateral_to_back_debt, mul_scale, to_scaled, div_scale,
         n1, n2, n3, d, z
<1> HIDE DEF z
<1>7. z \div SCALE \in Nat BY <1>0, <1>5, DivFloor
<1> QED BY <1>6, <1>7 DEF from_scaled_ceil

\* A keeper never takes more than the loan's collateral.
LEMMA TakesAtMost ==
    ASSUME Inv("AtLeast"), NEW l \in loans, NEW seized \in Nat, seized <= l.collateral
    PROVE  Withdrawn(seized) \in Nat /\ Withdrawn(seized) <= l.collateral
<1>1. world.asv \in Nat \ {0} /\ LoansOK(market, loans) BY PoolState, Zenon
<1>2. l.collateral \in Nat BY <1>1 DEF LoansOK, MatchedLoan
<1>3. Withdrawn(seized) \in Nat /\ Withdrawn(seized) <= seized
  BY <1>1, RoundTripLoses DEF Withdrawn
<1> QED BY <1>2, <1>3

\* liquidate_loan of a pool loan.
LEMMA LiquidatePoolKeeps ==
    ASSUME PoolInv, NEW l \in PoolLoans, NEW max \in Nat, LiquidatePool(l, max)
    PROVE  PoolInv' /\ Honoured
<1>1. Inv("AtLeast") /\ l \in loans /\ l.lender = NIL BY DEF PoolInv, PoolLoans
<1>2. /\ market \in Markets /\ LoansOK(market, loans) /\ world \in Worlds
  BY <1>1, PoolState, Zenon
<1>3. l.snapshot \in Nat \ {0} /\ l.collateral \in Nat
  BY <1>1, <1>2 DEF LoansOK, MatchedLoan
<1>4. /\ LoanShares(l) \in Nat /\ market.seats[l.borrower].encumbered \in Nat
      /\ LoanShares(l) <= market.seats[l.borrower].encumbered
      /\ market.seats[l.borrower] \in Seat /\ l.borrower \in Borrowers
  BY <1>1, LoanEncumbers
<1>5. PICK live, repaid, seized :
         /\ live = loan_live_outstanding_atoms(l) /\ repaid = KeeperPays(max, live)
         /\ seized = LiquidationSeizes(l, repaid)
  OBVIOUS
<1>6. PICK w, burned :
         /\ w = Withdrawn(seized)
         /\ burned = marginfi_repay(repaid, UsesRepayAll(l.shares, repaid = live))
  OBVIOUS
<1>7. PICK post, b : post = SatSub(l.shares, burned) /\ b = l.borrower OBVIOUS
<1>8. PICK seat : seat = LiquidatedSeat(market.seats[b], l, w, DidFullRepay(post)) OBVIOUS
<1>9. /\ account' = AccountAfter(burned, w) /\ loans' = LoansAfter(l, post, w)
      /\ market' = [market EXCEPT !.seats[b] = LiquidatedSeat(@, l, w, DidFullRepay(post))]
      /\ UNCHANGED <<now, world, vault, refs>>
  BY <1>5, <1>6, <1>7, Zenon DEF LiquidatePool
<1>10. seized \in Nat /\ seized <= l.collateral
  <2>1. repaid \in Nat
    <3>1. live \in Nat BY <1>1, <1>5, LiveTyped
    <3> QED BY <1>5, <3>1 DEF KeeperPays, MinOf
  <2>2. world.debt_price \in Nat /\ world.coll_price \in Nat \ {0} BY <1>2, BookAssumption
  <2>3. PICK v : v = get_required_quote_collateral_to_back_debt(
                         repaid, world.debt_price, world.coll_price, SCALE, SCALE)
    OBVIOUS
  <2>4. v \in Nat BY <2>1, <2>2, <2>3, WorthTyped
  <2>5. PICK t : t = v + mul_div(v, KeeperBps, BPS_PER_UNIT) OBVIOUS
  <2>6. t \in Nat
    <3>1. v * KeeperBps \in Nat BY <2>4, PoolAssumption
    <3>2. (v * KeeperBps) \div BPS_PER_UNIT \in Nat BY <3>1, ScaleAssumption, DivFloor
    <3> QED BY <2>4, <2>5, <3>2 DEF mul_div
  <2>7. seized = MinOf(l.collateral, t)
    BY <1>5, <2>3, <2>5 DEF LiquidationSeizes, compute_collateral_split
  <2> QED BY <1>3, <2>6, <2>7 DEF MinOf
<1>11. w \in Nat /\ w <= l.collateral BY <1>1, <1>6, <1>10, TakesAtMost
<1>12. PICK rest : rest = SatSub(l.collateral, w) OBVIOUS
<1>13. rest = l.collateral - w BY <1>3, <1>11, <1>12 DEF SatSub
<1>14. PICK sw, sr : sw = SnapshotShares(l, w) /\ sr = SnapshotShares(l, rest) OBVIOUS
<1>15. sw \in Nat /\ sr \in Nat /\ sw + sr <= LoanShares(l)
  BY <1>3, <1>11, <1>13, <1>14, SplitShares DEF SnapshotShares, LoanShares
<1>16. PICK x, y : /\ x = (IF DidFullRepay(post) THEN sr ELSE 0)
                   /\ y = (IF DidFullRepay(post) THEN LoanShares(l) ELSE sw)
  OBVIOUS
<1>17. /\ x \in Nat /\ y \in Nat /\ x + sw <= y /\ y <= LoanShares(l)
       /\ ~DidFullRepay(post) => x = 0 /\ y = sw
  BY <1>4, <1>15, <1>16
<1>18. PICK s1 : s1 = [market.seats[b] EXCEPT
                          !.encumbered = market.seats[b].encumbered - y,
                          !.withdrawable = market.seats[b].withdrawable + x]
  OBVIOUS
<1>19. y <= market.seats[b].encumbered BY <1>4, <1>7, <1>17
<1>20. seat = s1 \/ seat = CloseBorrow(s1)
  <2>1. market.seats[b] \in Seat BY <1>4, <1>7
  <2>2. PICK e, d : e = market.seats[b].encumbered /\ d = market.seats[b].withdrawable OBVIOUS
  <2>3. e \in Nat /\ d \in Nat BY <1>4, <1>7, <2>1, <2>2 DEF Seat
  <2>4. CASE DidFullRepay(post)
    <3>1. SatSub(e, SnapshotShares(l, l.collateral)) = e - y
      <4>1. SnapshotShares(l, l.collateral) = LoanShares(l)
        BY Zenon DEF SnapshotShares, LoanShares
      <4> QED BY <1>16, <1>17, <1>19, <2>2, <2>3, <2>4, <4>1 DEF SatSub
    <3>2. seat = CloseBorrow([[market.seats[b] EXCEPT !.encumbered = e - y] EXCEPT
                                 !.withdrawable = @ + x])
      BY <1>8, <1>12, <1>14, <1>16, <2>1, <2>2, <2>4, <3>1 DEF LiquidatedSeat, Seat
    <3>3. [[market.seats[b] EXCEPT !.encumbered = e - y] EXCEPT !.withdrawable = @ + x] = s1
      BY <1>18, <2>1, <2>2 DEF Seat
    <3> QED BY <3>2, <3>3, Zenon
  <2>5. CASE ~DidFullRepay(post)
    <3>1. SatSub(e, SnapshotShares(l, w)) = e - y
      BY <1>14, <1>17, <1>19, <2>2, <2>3, <2>5 DEF SatSub
    <3>2. seat = [market.seats[b] EXCEPT !.encumbered = e - y]
      BY <1>8, <2>1, <2>2, <2>5, <3>1 DEF LiquidatedSeat, Seat
    <3>3. d + x = d BY <1>17, <2>3, <2>5
    <3> QED BY <1>18, <2>1, <2>2, <3>2, <3>3 DEF Seat
  <2> QED BY <2>4, <2>5
<1>21. /\ [market EXCEPT !.seats = [market.seats EXCEPT ![b] = seat]] \in Markets
       /\ SeatPays(market, [market EXCEPT !.seats = [market.seats EXCEPT ![b] = seat]], b, x, y)
  BY <1>2, <1>4, <1>7, <1>17, <1>18, <1>19, <1>20, KeeperWrites
<1>22. market' = [market EXCEPT !.seats = [market.seats EXCEPT ![b] = seat]]
  BY <1>2, <1>4, <1>7, <1>8, <1>9 DEF Markets, Traders
<1>23. market' \in Markets /\ SeatPays(market, market', l.borrower, x, y)
  BY <1>7, <1>21, <1>22, Zenon
<1>24. /\ x + SnapshotShares(l, w) <= y
       /\ ~DidFullRepay(post) => x = 0 /\ y = SnapshotShares(l, w)
  BY <1>14, <1>17, Zenon
<1>25. x \in Nat /\ y \in Nat /\ y <= LoanShares(l) BY <1>17, Zenon
<1>26. /\ account' = AccountAfter(burned, w) /\ loans' = LoansAfter(l, post, w)
       /\ UNCHANGED <<now, world, vault, refs>>
  BY <1>9
<1>27. live = loan_live_outstanding_atoms(l) /\ repaid = KeeperPays(max, live) BY <1>5
<1>28. /\ burned = marginfi_repay(repaid, UsesRepayAll(l.shares, repaid = live))
       /\ post = SatSub(l.shares, burned)
  BY <1>6, <1>7
<1> QED BY <1>1, <1>11, <1>23, <1>24, <1>25, <1>26, <1>27, <1>28, KeeperKeeps, Zenon

\* settle_matured_loan of a pool loan: the seat may keep shares that no loan answers for.
LEMMA SettlePoolKeeps ==
    ASSUME PoolInv, NEW l \in PoolLoans, NEW max \in Nat, SettlePool(l, max)
    PROVE  PoolInv' /\ Honoured
<1>1. Inv("AtLeast") /\ l \in loans /\ l.lender = NIL BY DEF PoolInv, PoolLoans
<1>2. /\ market \in Markets /\ LoansOK(market, loans) /\ world \in Worlds
  BY <1>1, PoolState, Zenon
<1>3. l.snapshot \in Nat \ {0} /\ l.collateral \in Nat
  BY <1>1, <1>2 DEF LoansOK, MatchedLoan
<1>4. /\ LoanShares(l) \in Nat /\ market.seats[l.borrower].encumbered \in Nat
      /\ LoanShares(l) <= market.seats[l.borrower].encumbered
      /\ market.seats[l.borrower] \in Seat /\ l.borrower \in Borrowers
  BY <1>1, LoanEncumbers
<1>5. PICK live, repaid :
         live = loan_live_outstanding_atoms(l) /\ repaid = KeeperPays(max, live)
  OBVIOUS
<1>6. PICK seized :
         seized = IF repaid = live THEN l.collateral ELSE mul_div(l.collateral, repaid, live)
  OBVIOUS
<1>7. PICK w, burned :
         /\ w = Withdrawn(seized)
         /\ burned = marginfi_repay(repaid, UsesRepayAll(l.shares, repaid = live))
  OBVIOUS
<1>8. PICK post, b : post = SatSub(l.shares, burned) /\ b = l.borrower OBVIOUS
<1>9. PICK seat : seat = SettledSeat(market.seats[b], l, w, DidFullRepay(post)) OBVIOUS
<1>10. /\ account' = AccountAfter(burned, w) /\ loans' = LoansAfter(l, post, w)
       /\ market' = [market EXCEPT !.seats[b] = SettledSeat(@, l, w, DidFullRepay(post))]
       /\ UNCHANGED <<now, world, vault, refs>> /\ repaid > 0
  BY <1>5, <1>6, <1>7, <1>8, Zenon DEF SettlePool
<1>11. seized \in Nat /\ seized <= l.collateral
  <2>1. live \in Nat BY <1>1, <1>5, LiveTyped
  <2>2. repaid \in Nat /\ repaid <= live /\ live # 0
    BY <1>5, <1>10, <2>1 DEF KeeperPays, MinOf
  <2>3. CASE repaid = live BY <1>3, <1>6, <2>3
  <2>4. CASE repaid # live
    <3>1. seized = (l.collateral * repaid) \div live BY <1>6, <2>4 DEF mul_div
    <3>2. l.collateral * repaid \in Nat BY <1>3, <2>2
    <3>3. seized \in Nat BY <2>1, <2>2, <3>1, <3>2, DivFloor
    <3>4. (l.collateral * repaid) \div live <= l.collateral BY <1>3, <2>1, <2>2, MulDivBack
    <3> QED BY <3>1, <3>3, <3>4
  <2> QED BY <2>3, <2>4
<1>12. w \in Nat /\ w <= l.collateral BY <1>1, <1>7, <1>11, TakesAtMost
<1>13. PICK y : y = SnapshotShares(l, w) OBVIOUS
<1>14. y \in Nat /\ y <= LoanShares(l)
  BY <1>3, <1>12, <1>13, SharesTyped, SharesMonotone DEF SnapshotShares, LoanShares
<1>15. PICK s1 : s1 = [market.seats[b] EXCEPT
                          !.encumbered = market.seats[b].encumbered - y,
                          !.withdrawable = market.seats[b].withdrawable + 0]
  OBVIOUS
<1>16. y <= market.seats[b].encumbered BY <1>4, <1>8, <1>14
<1>17. seat = s1 \/ seat = CloseBorrow(s1)
  <2>1. market.seats[b] \in Seat BY <1>4, <1>8
  <2>2. PICK e, d : e = market.seats[b].encumbered /\ d = market.seats[b].withdrawable OBVIOUS
  <2>3. e \in Nat /\ d \in Nat BY <1>4, <1>8, <2>1, <2>2 DEF Seat
  <2>4. s1 = [market.seats[b] EXCEPT !.encumbered = e - y]
    <3>1. d + 0 = d BY <2>3
    <3> QED BY <1>15, <2>1, <2>2, <3>1 DEF Seat
  <2>5. CASE w = 0
    <3>1. y = 0 BY <1>3, <1>13, <2>5, SharesTyped DEF SnapshotShares
    <3>2. e - y = e BY <2>3, <3>1
    <3>3. s1 = market.seats[b] BY <2>1, <2>2, <2>4, <3>2 DEF Seat
    <3> QED BY <1>9, <2>5, <3>3 DEF SettledSeat
  <2>6. CASE w # 0
    <3>1. SatSub(e, SnapshotShares(l, w)) = e - y
      BY <1>13, <1>14, <1>16, <2>2, <2>3 DEF SatSub
    <3>2. [market.seats[b] EXCEPT !.encumbered = SatSub(@, SnapshotShares(l, w))] = s1
      BY <2>1, <2>2, <2>4, <3>1 DEF Seat
    <3> QED BY <1>9, <2>6, <3>2, Zenon DEF SettledSeat
  <2> QED BY <2>5, <2>6
<1>18. /\ [market EXCEPT !.seats = [market.seats EXCEPT ![b] = seat]] \in Markets
       /\ SeatPays(market, [market EXCEPT !.seats = [market.seats EXCEPT ![b] = seat]], b, 0, y)
  <2>1. 0 \in Nat OBVIOUS
  <2> QED BY <1>2, <1>4, <1>8, <1>14, <1>15, <1>16, <1>17, <2>1, KeeperWrites
<1>19. market' = [market EXCEPT !.seats = [market.seats EXCEPT ![b] = seat]]
  BY <1>2, <1>4, <1>8, <1>9, <1>10 DEF Markets, Traders
<1>20. market' \in Markets /\ SeatPays(market, market', l.borrower, 0, y)
  BY <1>8, <1>18, <1>19, Zenon
<1>21. 0 \in Nat /\ 0 + y <= y BY <1>14
<1> QED BY <1>1, <1>5, <1>7, <1>8, <1>10, <1>12, <1>13, <1>14, <1>20, <1>21, KeeperKeeps, Zenon

-----------------------------------------------------------------------------
(* The walk of a conversion *)

\* A loan that may convert, and what it owes.
Converts(l, live) ==
    /\ l \in MatchedLoan /\ l.snapshot > 0 /\ l.snapshot <= world.asv
    /\ now \in Nat /\ l.matures > now
    /\ live \in Nat \ {0}

\* What is left to refinance is covered in proportion: the subtractions of the walk
\* never go below zero.
AccsFor(l, live) == {a \in Accs : l.collateral * a.principal <= a.collateral * live}

\* The loan still stands, so the shares that its fills took over are in flight twice.
Refinancing(acc, l) ==
    /\ Book(acc.market, loans, l.borrower,
            amount_to_asset_shares(acc.collateral, l.snapshot) - LoanShares(l), "AtLeast")
    /\ acc.aborted => Overpriced(market.asks) # {}

TakerFor(l, terms, c) ==
    [ borrower |-> l.borrower, collateral |-> c, rate |-> terms.rate,
      term |-> l.matures - now, buffer |-> terms.buffer,
      snapshot |-> l.snapshot, matures |-> l.matures ]

RefinanceFilled(l, live, terms, acc, ask, fill, c) ==
    /\ fill = MinOf(acc.principal, sub_vault_idle(acc.vault[ask.trader]))
    /\ c = mul_div(l.collateral, fill, live)
    /\ fill > 0 /\ ask.rate >= world.apr /\ Curator[ask.trader] # l.borrower
    /\ MeetsCap(fill, c, effective_origination_cap_bps(
                             acc.vault[ask.trader].policy.max_ltv, terms.buffer))

RefinanceResult(l, live, terms, acc, ask, r) ==
    \/ r = acc
    \/ r = [acc EXCEPT !.stop = TRUE]
    \/ \E fill, c :
          /\ RefinanceFilled(l, live, terms, acc, ask, fill, c)
          /\ r = Fill([acc EXCEPT !.principal = @ - fill, !.collateral = @ - c],
                      ask, fill, TakerFor(l, terms, c))

\* refinance_ask skips the ask, ends the walk or fills it through the gates.
LEMMA RefinanceCases ==
    ASSUME NEW l, NEW live, NEW terms, NEW acc \in Accs, NEW ask \in AskOrder, NEW r,
           world \in Worlds, r = refinance_ask(l, live, terms, acc, ask)
    PROVE  RefinanceResult(l, live, terms, acc, ask, r)
<1>1. PICK fill : fill = MinOf(acc.principal, sub_vault_idle(acc.vault[ask.trader])) OBVIOUS
<1>2. PICK c : c = mul_div(l.collateral, fill, live) OBVIOUS
<1>3. world.apr \in Nat /\ ask.rate \in Nat /\ (~(ask.rate < world.apr) => ask.rate >= world.apr)
  BY BookAssumption DEF AskOrder
<1> QED BY <1>1, <1>2, <1>3, Zenon DEF refinance_ask, RefinanceFilled, RefinanceResult, TakerFor

\* The share of the collateral that goes with a fill leaves the rest covered.
LEMMA ProRataSplit ==
    ASSUME NEW P \in Nat \ {0}, NEW C \in Nat, NEW p \in Nat, NEW k \in Nat, NEW fill \in Nat,
           NEW c, fill <= p, C * p <= k * P, c = mul_div(C, fill, P)
    PROVE  /\ c \in Nat /\ c <= k
           /\ C * (p - fill) <= (k - c) * P
<1>1. PICK x \in Nat : x = C * fill OBVIOUS
<1>2. c = x \div P BY <1>1 DEF mul_div
<1>3. c \in Nat /\ P * c <= x BY <1>1, <1>2, DivFloor
<1>4. x <= C * p BY <1>1
<1>5. C * p \in Nat /\ k * P \in Nat /\ P * c \in Nat BY <1>3
<1>6. P * c <= k * P BY <1>1, <1>3, <1>4, <1>5
<1>7. c <= k
  <2> SUFFICES ASSUME c > k PROVE FALSE BY <1>3
  <2>1. P * (k + 1) <= P * c BY <1>3
  <2>2. P * (k + 1) = k * P + P OBVIOUS
  <2> QED BY <1>5, <1>6, <2>1, <2>2
<1>8. C * (p - fill) = C * p - x /\ (k - c) * P = k * P - P * c BY <1>1, <1>3
<1> QED BY <1>1, <1>3, <1>5, <1>6, <1>7, <1>8

\* A fill takes the principal and the collateral that the walk has set aside for it.
LEMMA FillLeaves ==
    ASSUME NEW acc \in Accs, NEW ask \in AskOrder, NEW fill \in Nat, NEW taker \in Takers,
           fill <= acc.vault[ask.trader].idle
    PROVE  /\ Fill(acc, ask, fill, taker).principal = acc.principal
           /\ Fill(acc, ask, fill, taker).collateral = acc.collateral
<1>1. PICK r, v : r = Fill(acc, ask, fill, taker) /\ v = ask.trader OBVIOUS
<1>2. acc.vault[v] \in [idle : Nat, sunset : BOOLEAN, policy : Policies]
  BY <1>1 DEF Accs, Lenders, AskOrder
<1>3. /\ r \in Accs /\ r.principal = acc.principal /\ r.collateral = acc.collateral
      /\ r.vault = [acc.vault EXCEPT ![ask.trader].idle = @ - fill]
  BY <1>1, <1>2, FillShape
<1> QED BY <1>1, <1>3, Zenon

\* What one ask does to the walk's accumulator.
RefinanceKept(l, ask, m0, acc, r) ==
    ask \in market.asks /\ Refinancing(acc, l) /\ Since(m0, acc) /\ acc.market.free > 0 =>
       /\ Refinancing(r, l) /\ Since(m0, r)
       /\ r.market.free >= acc.market.free - 1

\* One ask keeps the walk's accumulator, and takes at most one block.
LEMMA RefinanceStep ==
    ASSUME NEW l, NEW live, Converts(l, live), NEW terms \in Refinances,
           NEW acc \in AccsFor(l, live), NEW ask \in AskOrder, NEW m0, NEW r,
           world \in Worlds, r = refinance_ask(l, live, terms, acc, ask)
    PROVE  r \in AccsFor(l, live) /\ RefinanceKept(l, ask, m0, acc, r)
<1>a. acc \in Accs /\ l.collateral * acc.principal <= acc.collateral * live BY DEF AccsFor
<1>0. acc.market \in Markets /\ acc.market.free \in Nat BY <1>a DEF Accs, Markets
<1>1. CASE r = acc BY <1>0, <1>1 DEF RefinanceKept
<1>2. CASE r = [acc EXCEPT !.stop = TRUE]
  <2>1. /\ r \in Accs /\ r.market = acc.market /\ r.vault = acc.vault
        /\ r.principal = acc.principal /\ r.collateral = acc.collateral
        /\ r.aborted = acc.aborted
    BY <1>a, <1>2 DEF Accs
  <2>2. Refinancing(acc, l) => Refinancing(r, l) BY <2>1, Zenon DEF Refinancing
  <2>3. Since(m0, acc) => Since(m0, r) BY <2>1, Zenon DEF Since
  <2>4. r \in AccsFor(l, live) BY <1>a, <2>1 DEF AccsFor
  <2> QED BY <1>0, <2>1, <2>2, <2>3, <2>4 DEF RefinanceKept
<1>3. ASSUME NEW fill, NEW c, RefinanceFilled(l, live, terms, acc, ask, fill, c),
             r = Fill([acc EXCEPT !.principal = @ - fill, !.collateral = @ - c],
                      ask, fill, TakerFor(l, terms, c))
      PROVE  r \in AccsFor(l, live) /\ RefinanceKept(l, ask, m0, acc, r)
  <2>1. PICK sub : sub = acc.vault[ask.trader] OBVIOUS
  <2>2. /\ sub \in [idle : Nat, sunset : BOOLEAN, policy : Policies]
        /\ acc.principal \in Nat /\ acc.collateral \in Nat
    BY <1>a, <2>1 DEF Accs, Lenders, AskOrder
  <2>3. sub_vault_idle(sub) \in Nat /\ sub_vault_idle(sub) <= sub.idle BY <2>2, IdleTyped
  <2>4. /\ fill \in Nat /\ fill > 0 /\ fill <= acc.principal /\ fill <= sub_vault_idle(sub)
        /\ fill <= sub.idle
    <3>1. fill = MinOf(acc.principal, sub_vault_idle(sub)) /\ fill > 0
      BY <1>3, <2>1, Zenon DEF RefinanceFilled
    <3>2. sub.idle \in Nat BY <2>2
    <3> QED BY <2>2, <2>3, <3>1, <3>2 DEF MinOf
  <2>5. /\ l.collateral \in Nat /\ l.borrower \in Borrowers /\ l.snapshot \in Nat \ {0}
        /\ l.matures \in Nat /\ l.matures - now \in Nat /\ live \in Nat \ {0}
        /\ terms.rate \in Nat /\ terms.buffer \in Nat /\ l.snapshot <= world.asv
    BY PoolAssumption DEF Converts, MatchedLoan
  <2>6. /\ c \in Nat /\ c <= acc.collateral
        /\ l.collateral * (acc.principal - fill) <= (acc.collateral - c) * live
    <3>1. c = mul_div(l.collateral, fill, live) BY <1>3 DEF RefinanceFilled
    <3>2. PICK P, C, p, k : /\ P = live /\ C = l.collateral
                            /\ p = acc.principal /\ k = acc.collateral
      OBVIOUS
    <3>3. /\ P \in Nat \ {0} /\ C \in Nat /\ p \in Nat /\ k \in Nat /\ fill <= p
          /\ C * p <= k * P /\ c = mul_div(C, fill, P)
      BY <1>a, <2>2, <2>4, <2>5, <3>1, <3>2, Zenon
    <3>4. c \in Nat /\ c <= k /\ C * (p - fill) <= (k - c) * P
      BY <2>4, <3>3, ProRataSplit
    <3> QED BY <3>2, <3>4, Zenon
  <2>8. PICK p2, k2 : p2 = acc.principal - fill /\ k2 = acc.collateral - c OBVIOUS
  <2>9. p2 \in Nat /\ k2 \in Nat BY <2>2, <2>4, <2>6, <2>8
  <2>10. PICK base : base = [acc EXCEPT !.principal = p2, !.collateral = k2] OBVIOUS
  <2>11. /\ base \in Accs /\ base.market = acc.market /\ base.vault = acc.vault
         /\ base.principal = p2 /\ base.collateral = k2
         /\ base.aborted = acc.aborted
    BY <1>a, <2>9, <2>10 DEF Accs
  <2>12. PICK taker : taker = TakerFor(l, terms, c) OBVIOUS
  <2>13. /\ taker \in Takers /\ taker.borrower = l.borrower /\ taker.collateral = c
         /\ taker.snapshot = l.snapshot /\ taker.buffer = terms.buffer
    BY <2>5, <2>6, <2>12 DEF TakerFor, Takers
  <2>14. r = Fill(base, ask, fill, taker) BY <1>3, <2>8, <2>10, <2>12, Zenon
  <2>15. r \in Accs /\ r.principal = p2 /\ r.collateral = k2
    <3>1. fill <= base.vault[ask.trader].idle BY <2>1, <2>4, <2>11
    <3>2. r \in Accs /\ r.principal = base.principal /\ r.collateral = base.collateral
      <4>1. fill \in Nat /\ base \in Accs /\ taker \in Takers BY <2>4, <2>11, <2>13
      <4>2. r \in Accs BY <2>14, <3>1, <4>1, FillTyped
      <4>3. r.principal = base.principal /\ r.collateral = base.collateral
        BY <2>14, <3>1, <4>1, FillLeaves
      <4> QED BY <4>2, <4>3
    <3> QED BY <2>11, <3>2, Zenon
  <2>16. r \in AccsFor(l, live) BY <2>6, <2>8, <2>15 DEF AccsFor
  <2>17. ASSUME ask \in market.asks, Refinancing(acc, l), Since(m0, acc), acc.market.free > 0
         PROVE  /\ Refinancing(r, l) /\ Since(m0, r)
                /\ r.market.free >= acc.market.free - 1
    <3>1. Since(m0, base) BY <2>11, <2>17, Zenon DEF Since
    <3>2. Gated(base, ask, fill, taker)
      <4>1. /\ fill > 0 /\ ask.rate >= world.apr /\ l.borrower # Curator[ask.trader]
            /\ MeetsCap(fill, c, effective_origination_cap_bps(
                                     acc.vault[ask.trader].policy.max_ltv, terms.buffer))
        BY <1>3, Zenon DEF RefinanceFilled
      <4> QED BY <2>1, <2>4, <2>11, <2>13, <4>1, Zenon DEF Gated
    <3>3. PICK node : node = NodeOf(base, ask, fill, taker) OBVIOUS
    <3>4. /\ r.aborted => base.aborted \/ ~RateFits(ask)
          /\ Since(m0, r)
          /\ LoanAdded(base.market, r.market, node) /\ node \in MatchedLoan
      <4>1. base.market.free > 0 /\ LoansOK(base.market, loans)
        BY <2>11, <2>17 DEF Refinancing, Book
      <4> QED BY <2>4, <2>11, <2>13, <2>14, <3>1, <3>2, <3>3, <4>1, FillSince
    <3>5. /\ amount_to_asset_shares(acc.collateral, l.snapshot) \in Nat
          /\ amount_to_asset_shares(c, l.snapshot) \in Nat
          /\ amount_to_asset_shares(acc.collateral - c, l.snapshot) \in Nat
          /\ amount_to_asset_shares(c, l.snapshot)
               + amount_to_asset_shares(acc.collateral - c, l.snapshot)
               <= amount_to_asset_shares(acc.collateral, l.snapshot)
          /\ amount_to_asset_shares(acc.collateral, l.snapshot)
               <= amount_to_asset_shares(c, l.snapshot)
                    + amount_to_asset_shares(acc.collateral - c, l.snapshot) + 1
      BY <2>2, <2>5, <2>6, SplitShares
    <3>6. PICK u, f, g, h : /\ u = LoanShares(l)
                            /\ f = amount_to_asset_shares(acc.collateral, l.snapshot)
                            /\ g = amount_to_asset_shares(c, l.snapshot)
                            /\ h = amount_to_asset_shares(k2, l.snapshot)
      OBVIOUS
    <3>7. u \in Nat
      <4>1. l \in MatchedLoan /\ l.snapshot > 0 BY DEF Converts
      <4> QED BY <3>6, <4>1, LoanSharesTyped
    <3>8. f \in Nat /\ g \in Nat /\ h \in Nat /\ g + h <= f /\ f <= g + h + 1
      BY <2>8, <3>5, <3>6
    <3>9. /\ node.borrower = l.borrower /\ node.snapshot = l.snapshot /\ node.collateral = c
          /\ node.seq = acc.market.loan_seq
      BY <2>11, <2>13, <3>3 DEF NodeOf
    <3>10. LoanShares(node) = g BY <3>6, <3>9, Zenon DEF LoanShares
    <3>11. PICK n, k : n = f - u /\ k = h - u OBVIOUS
    <3>12. /\ n \in Int /\ k \in Int /\ n - LoanShares(node) - 1 <= k
           /\ k <= n - LoanShares(node)
      BY <3>7, <3>8, <3>10, <3>11
    <3>13. Book(acc.market, loans, l.borrower, n, "AtLeast")
      BY <2>17, <3>6, <3>11, Zenon DEF Refinancing
    <3>14. Book(r.market, loans, l.borrower, k, "AtLeast")
      <4>1. r.market \in Markets BY <2>15 DEF Accs
      <4>2. node.snapshot > 0 /\ node.snapshot <= world.asv BY <2>5, <3>9
      <4>3. LoanAdded(acc.market, r.market, node) BY <2>11, <3>4, Zenon
      <4> QED BY <2>5, <3>4, <3>9, <3>12, <3>13, <4>1, <4>2, <4>3, LoanKeepsBook
    <3>15. Refinancing(r, l)
      <4>1. r.aborted => Overpriced(market.asks) # {}
        <5>1. CASE acc.aborted BY <2>17, <5>1 DEF Refinancing
        <5>2. CASE ~RateFits(ask)
          <6>1. ask \in Overpriced(market.asks) BY <2>17, <5>2 DEF Overpriced
          <6> QED BY <6>1
        <5> QED BY <2>11, <3>4, <5>1, <5>2, Zenon
      <4> QED BY <2>15, <3>6, <3>11, <3>14, <4>1, Zenon DEF Refinancing
    <3>16. r.market.free >= acc.market.free - 1
      BY <1>0, <2>11, <3>4 DEF LoanAdded
    <3> QED BY <3>4, <3>15, <3>16
  <2> QED BY <2>16, <2>17, Zenon DEF RefinanceKept
<1>4. RefinanceResult(l, live, terms, acc, ask, r) BY <1>a, RefinanceCases
<1> QED BY <1>1, <1>2, <1>3, <1>4, Zenon DEF RefinanceResult

\* The walk as a function of the asks that it has met.
IsRefinanceWalk(it, S, l, live, terms, acc) ==
    /\ it \in [SUBSET S -> AccsFor(l, live)]
    /\ match_p2pool_residual_against_asks(l, terms) = it[S]
    /\ it[{}] = acc
    /\ \A s \in SUBSET S : s # {} =>
          \E ask \in s : it[s] = refinance_ask(l, live, terms, it[s \ {ask}], ask)

\* match_p2pool_residual_against_asks is such a walk.
LEMMA RefinanceWalk ==
    ASSUME NEW l, NEW live, Converts(l, live), live = loan_live_outstanding_atoms(l),
           NEW terms \in Refinances, NEW acc \in AccsFor(l, live),
           acc = Walking(expand_market_to_free_blocks(market, Cardinality(market.asks) + 1),
                         live, l.collateral),
           world \in Worlds, market \in Markets, Ranked(market.asks)
    PROVE  \E it : IsRefinanceWalk(it, market.asks, l, live, terms, acc)
<1>1. PICK S : S = market.asks OBVIOUS
<1>2. S \subseteq AskOrder /\ IsFiniteSet(S) BY <1>1 DEF Markets, Ranked
<1>3. PICK pick : pick = [s \in SUBSET S |-> Worst(s, FALSE)] OBVIOUS
<1>4. \A s \in SUBSET S : s # {} => Worst(s, FALSE) \in s BY <1>1, WorstIn
<1>5. \A s \in SUBSET S : s # {} => pick[s] \in s BY <1>3, <1>4
<1>b. PICK A : A = AccsFor(l, live) OBVIOUS
<1>6. PICK f : f = [p \in A \X S |-> refinance_ask(l, live, terms, p[1], p[2])] OBVIOUS
<1>7. \A a \in A, ask \in S : refinance_ask(l, live, terms, a, ask) \in A
  BY <1>b, <1>2, RefinanceStep
<1>8. f \in [A \X S -> A] BY <1>6, <1>7
<1>c. acc \in A BY <1>b
<1>9. PICK g \in [SUBSET S -> A] : \A s \in SUBSET S : Follows(g, acc, pick, f, s)
  BY <1>2, <1>5, <1>8, <1>c, FoldExists
<1> DEFINE Eq(h) ==
        h = [s \in SUBSET S |->
               IF s = {} THEN acc
               ELSE LET x == Worst(s, FALSE)
                    IN  refinance_ask(l, live, terms, h[s \ {x}], x)]
<1>10. Eq(g)
  <2>1. ASSUME NEW s \in SUBSET S
        PROVE  g[s] = IF s = {} THEN acc
                      ELSE LET x == Worst(s, FALSE)
                           IN  refinance_ask(l, live, terms, g[s \ {x}], x)
    <3>1. CASE s = {} BY <1>9, <3>1 DEF Follows
    <3>2. CASE s # {}
      <4>1. PICK x : x = Worst(s, FALSE) OBVIOUS
      <4>2. x \in S /\ x = pick[s] /\ s \ {x} \in SUBSET S BY <1>3, <1>4, <3>2, <4>1
      <4>3. g[s] = f[<<g[s \ {x}], x>>] BY <1>9, <3>2, <4>2 DEF Follows
      <4>4. g[s \ {x}] \in A BY <1>9, <4>2
      <4>5. f[<<g[s \ {x}], x>>] = refinance_ask(l, live, terms, g[s \ {x}], x)
        BY <1>6, <4>2, <4>4
      <4> QED BY <3>2, <4>1, <4>3, <4>5
    <3> QED BY <3>1, <3>2
  <2> QED BY <1>9, <2>1
<1>11. match_p2pool_residual_against_asks(l, terms) = (CHOOSE h : Eq(h))[S]
  BY <1>1 DEF match_p2pool_residual_against_asks, Walk, MapThenFoldSet
<1> HIDE DEF Eq
<1>12. PICK it : it = (CHOOSE h : Eq(h)) OBVIOUS
<1>13. Eq(it) BY <1>10, <1>12
<1>14. /\ it[{}] = acc
       /\ \A s \in SUBSET S : s # {} =>
             it[s] = refinance_ask(l, live, terms, it[s \ {Worst(s, FALSE)}], Worst(s, FALSE))
  BY <1>13 DEF Eq
<1>15. DOMAIN it = SUBSET S /\ it = [s \in SUBSET S |-> it[s]] BY <1>13 DEF Eq
<1> DEFINE T == {s \in SUBSET S : it[s] \in A}
<1>16. \A s \in SUBSET S : s \in T
  <2>1. {} \in T BY <1>c, <1>14
  <2>2. ASSUME NEW s \in SUBSET S, s # {} PROVE \E x \in s : (s \ {x} \in T => s \in T)
    <3>1. PICK x : x = Worst(s, FALSE) OBVIOUS
    <3>2. x \in s /\ x \in S BY <1>4, <2>2, <3>1
    <3>3. it[s] = refinance_ask(l, live, terms, it[s \ {x}], x) BY <1>14, <2>2, <3>1
    <3>4. s \ {x} \in T => s \in T BY <1>7, <3>2, <3>3
    <3> QED BY <3>2, <3>4
  <2> HIDE DEF T
  <2> QED BY <1>2, <2>1, <2>2, SubsetInduction, Zenon
<1>17. it \in [SUBSET S -> A] BY <1>15, <1>16
<1>18. match_p2pool_residual_against_asks(l, terms) = it[S] BY <1>11, <1>12
<1>19. \A s \in SUBSET S : s # {} =>
          \E ask \in s : it[s] = refinance_ask(l, live, terms, it[s \ {ask}], ask)
  BY <1>4, <1>14
<1> QED BY <1>b, <1>1, <1>14, <1>17, <1>18, <1>19, Zenon DEF IsRefinanceWalk

\* A conversion that reserves a block for every ask walks the asks without running out
\* of blocks, and takes no more than the loan's collateral.
LEMMA RefinanceKeeps ==
    ASSUME Inv("AtLeast"), NEW l \in loans, NEW live, Converts(l, live),
           live = loan_live_outstanding_atoms(l), NEW terms \in Refinances,
           NEW r, r = match_p2pool_residual_against_asks(l, terms)
    PROVE  r \in Accs /\ Refinancing(r, l) /\ Since(market, r)
<1>1. /\ market \in Markets /\ Book(market, loans, NIL, 0, "AtLeast") /\ vault \in Lenders
      /\ world \in Worlds
  BY DEF Inv, Book
<1>2. l.collateral \in Nat /\ live \in Nat \ {0} /\ l \in MatchedLoan /\ l.snapshot > 0
  BY DEF Converts, MatchedLoan
<1>3. PICK N \in Nat : N = Cardinality(market.asks) + 1 /\ Cardinality(market.asks) \in Nat
  <2>1. Cardinality(market.asks) \in Nat BY <1>1, BookSets, Zenon
  <2> QED BY <2>1
<1>4. PICK g : g = expand_market_to_free_blocks(market, N) OBVIOUS
<1>5. /\ g \in Markets /\ g.asks = market.asks /\ g.bids = market.bids /\ g.nodes = market.nodes
      /\ g.seats = market.seats /\ g.order_seq = market.order_seq /\ g.loan_seq = market.loan_seq
      /\ g.free >= N
  <2>1. market \in Markets BY <1>1
  <2> QED BY <1>4, <2>1, GrowShape
<1>6. Book(g, loans, l.borrower, 0, "AtLeast")
  <2>1. Book(g, loans, NIL, 0, "AtLeast") BY <1>1, <1>4, GrowKeepsBook
  <2> QED BY <2>1, Refocus
<1>7. PICK acc : acc = Walking(g, live, l.collateral) OBVIOUS
<1>8. /\ acc \in Accs /\ acc.market = g /\ acc.vault = vault /\ acc.principal = live
      /\ acc.collateral = l.collateral /\ acc.aborted = FALSE
  BY <1>1, <1>2, <1>5, <1>7 DEF Walking, Accs
<1>9. acc \in AccsFor(l, live)
  <2>1. l.collateral * live <= l.collateral * live BY <1>2
  <2> QED BY <1>8, <2>1 DEF AccsFor
<1>10. Refinancing(acc, l)
  <2>1. amount_to_asset_shares(l.collateral, l.snapshot) - LoanShares(l) = 0
    <3>1. LoanShares(l) \in Nat BY <1>2, LoanSharesTyped
    <3>2. LoanShares(l) - LoanShares(l) = 0 BY <3>1
    <3> QED BY <3>2, Zenon DEF LoanShares
  <2> QED BY <1>6, <1>8, <2>1, Zenon DEF Refinancing
<1>11. Since(market, acc) BY <1>5, <1>8 DEF Since, FixedOnly
<1>12. PICK S : S = market.asks OBVIOUS
<1>13. S \subseteq AskOrder /\ IsFiniteSet(S) /\ Ranked(S)
  BY <1>1, <1>12 DEF Markets, Book, OrdersOK, Ranked, AskOrder
<1>14. PICK it : IsRefinanceWalk(it, S, l, live, terms, acc)
  BY <1>1, <1>3, <1>4, <1>7, <1>9, <1>12, <1>13, RefinanceWalk, Zenon
<1>15. /\ it \in [SUBSET S -> AccsFor(l, live)] /\ r = it[S] /\ it[{}] = acc
       /\ \A s \in SUBSET S : s # {} =>
             \E ask \in s : it[s] = refinance_ask(l, live, terms, it[s \ {ask}], ask)
  BY <1>14, Zenon DEF IsRefinanceWalk
<1>16. \A s \in SUBSET S : IsFiniteSet(s) /\ Cardinality(s) \in Nat
           /\ Cardinality(s) <= Cardinality(S)
  BY <1>13, FS_Subset, FS_CardinalityType
<1> DEFINE T == {s \in SUBSET S :
                    /\ Refinancing(it[s], l) /\ Since(market, it[s])
                    /\ it[s].market.free + Cardinality(s) >= Cardinality(S) + 1}
<1>17. {} \in T
  <2>1. Cardinality({}) = 0 BY FS_EmptySet
  <2>2. g.free \in Nat BY <1>5 DEF Markets
  <2>3. it[{}].market.free + Cardinality({}) >= Cardinality(S) + 1
    BY <1>3, <1>5, <1>8, <1>12, <1>15, <2>1, <2>2
  <2> QED BY <1>10, <1>11, <1>15, <2>3
<1>18. ASSUME NEW s \in SUBSET S, s # {} PROVE \E x \in s : (s \ {x} \in T => s \in T)
  <2>1. PICK ask \in s : it[s] = refinance_ask(l, live, terms, it[s \ {ask}], ask)
    BY <1>15, <1>18
  <2> SUFFICES ASSUME s \ {ask} \in T PROVE s \in T BY <2>1
  <2>2. PICK a, a2 : a = it[s \ {ask}] /\ a2 = it[s] OBVIOUS
  <2>3. a \in AccsFor(l, live) /\ a2 \in AccsFor(l, live) BY <1>15, <2>2
  <2>4. /\ Refinancing(a, l) /\ Since(market, a)
        /\ a.market.free + Cardinality(s \ {ask}) >= Cardinality(S) + 1
    BY <2>2
  <2>5. Cardinality(s) = Cardinality(s \ {ask}) + 1 /\ Cardinality(s \ {ask}) \in Nat
    BY <1>16, <2>1, CardRemove
  <2>6. a.market.free \in Nat /\ a2.market.free \in Nat BY <2>3 DEF AccsFor, Accs, Markets
  <2>7. Cardinality(s) <= Cardinality(S) /\ Cardinality(S) \in Nat BY <1>16
  <2>8. a.market.free > 0 BY <2>4, <2>5, <2>6, <2>7
  <2>9. /\ Refinancing(a2, l) /\ Since(market, a2)
        /\ a2.market.free >= a.market.free - 1
    <3>1. ask \in AskOrder BY <1>13, <2>1
    <3>2. a2 = refinance_ask(l, live, terms, a, ask) BY <2>1, <2>2, Zenon
    <3>3. RefinanceKept(l, ask, market, a, a2)
      BY <1>1, <2>3, <3>1, <3>2, RefinanceStep, Zenon
    <3>4. ask \in market.asks BY <1>12, <2>1
    <3> QED BY <2>4, <2>8, <3>3, <3>4, Zenon DEF RefinanceKept
  <2>10. a2.market.free + Cardinality(s) >= Cardinality(S) + 1
    BY <2>4, <2>5, <2>6, <2>7, <2>9
  <2> QED BY <2>2, <2>9, <2>10
<1>19. S \in T
  <2> HIDE DEF T
  <2>1. \A s \in SUBSET S : s \in T BY <1>13, <1>17, <1>18, SubsetInduction, Zenon
  <2> QED BY <2>1
<1>20. r \in Accs BY <1>15 DEF AccsFor
<1> QED BY <1>15, <1>19, <1>20

\* MayConvert is what the walk starts from.
LEMMA ConvertStarts ==
    ASSUME Inv("AtLeast"), NEW l \in loans, NEW terms \in Refinances, MayConvert(l, terms)
    PROVE  Converts(l, loan_live_outstanding_atoms(l))
<1>1. LoansOK(market, loans) /\ now \in Nat BY PoolState, Zenon
<1>2. l \in MatchedLoan /\ l.snapshot > 0 /\ l.snapshot <= world.asv BY <1>1 DEF LoansOK
<1>3. loan_live_outstanding_atoms(l) \in Nat /\ loan_live_outstanding_atoms(l) > 0
  BY LiveTyped DEF MayConvert
<1>4. loan_live_outstanding_atoms(l) \in Nat \ {0} BY <1>3
<1>5. l.matures > now BY DEF MayConvert
<1> QED BY <1>1, <1>2, <1>4, <1>5, Zenon DEF Converts

\* What a conversion burns.
LEMMA ConversionBurns ==
    ASSUME Inv("AtLeast"), NEW l \in loans, NEW s, NEW burned,
           s = ThisLoanShares(l), burned = BurnedByConversion(l)
    PROVE  /\ burned \in Nat /\ burned <= account.liability /\ burned <= s + AtomShares
           /\ s \in Nat /\ s <= l.shares /\ l.shares \in Nat /\ s <= account.liability
           /\ s = l.shares \/ s = account.liability
<1>1. PICK live, all : live = loan_live_outstanding_atoms(l) /\ all = UsesRepayAll(s, TRUE)
  OBVIOUS
<1>2. live \in Nat /\ live <= live BY <1>1, LiveTyped
<1>3. all \in BOOLEAN /\ (all => s = account.liability) BY <1>1 DEF UsesRepayAll
<1>4. burned = marginfi_repay(live, all) BY <1>1, Zenon DEF BurnedByConversion
<1> QED BY <1>1, <1>2, <1>3, <1>4, BurnBounds

\* The seats and loans after a conversion, in both its outcomes.
ConvertedTo(l, r, post, m2, L2) ==
    \/ /\ DidFullRepay(post) /\ L2 = loans \ {l}
       /\ m2 = [r.market EXCEPT !.seats =
                   ClosedSeats(r.market.seats, l.borrower, SnapshotShares(l, r.collateral))]
    \/ /\ ~DidFullRepay(post) /\ m2 = r.market
       /\ L2 = (loans \ {l}) \cup {[l EXCEPT !.shares = post, !.collateral = r.collateral]}

\* The walk's shares in flight are those that the old loan no longer needs.
LEMMA ConvertKeepsBook ==
    ASSUME Inv("AtLeast"), NEW l \in loans, l.lender = NIL, NEW r \in Accs, Refinancing(r, l),
           NEW post \in Nat, NEW m2, NEW L2, ConvertedTo(l, r, post, m2, L2)
    PROVE  /\ m2 \in Markets /\ Book(m2, L2, NIL, 0, "AtLeast")
           /\ \E x \in Nat : SeatPays(r.market, m2, l.borrower, x, x)
<1>1. PICK b, m, u, f : /\ b = l.borrower /\ m = r.market /\ u = LoanShares(l)
                        /\ f = SnapshotShares(l, r.collateral)
  OBVIOUS
<1>2. u \in Nat /\ b \in Borrowers BY <1>1, LoanEncumbers
<1>3. m \in Markets /\ r.collateral \in Nat BY <1>1 DEF Accs
<1>4. LoansOK(market, loans) BY PoolState, Zenon
<1>5. l \in MatchedLoan /\ l.snapshot \in Nat \ {0} BY <1>4 DEF LoansOK, MatchedLoan
<1>6. f \in Nat BY <1>1, <1>3, <1>5, SharesTyped DEF SnapshotShares
<1>7. PICK n : n = f - u OBVIOUS
<1>8. n \in Int /\ n + u = f BY <1>2, <1>6, <1>7
<1>9. Book(m, loans, b, n, "AtLeast")
  BY <1>1, <1>7, Zenon DEF Refinancing, SnapshotShares
<1>10. CASE /\ L2 = loans \ {l}
            /\ m2 = [m EXCEPT !.seats = ClosedSeats(m.seats, b, f)]
  <2>1. m2 \in Markets /\ SeatPays(m, m2, b, f, f) BY <1>2, <1>3, <1>6, <1>10, ReleasePays
  <2>2. 0 <= (n + u) - f /\ 0 \in Int BY <1>6, <1>8
  <2>3. 0 <= (n + LoanShares(l)) - f BY <1>1, <2>2, Zenon
  <2>4. Book(m2, L2, l.borrower, 0, "AtLeast")
    <3>1. Book(m, loans, l.borrower, n, "AtLeast") /\ SeatPays(m, m2, l.borrower, f, f)
      BY <1>1, <1>9, <2>1, Zenon
    <3> QED BY <1>6, <1>8, <1>10, <2>1, <2>2, <2>3, <3>1, PaymentKeepsBook, Zenon
  <2>5. Book(m2, L2, NIL, 0, "AtLeast") BY <2>4, Refocus, Zenon
  <2> QED BY <1>1, <1>6, <2>1, <2>5, Zenon
<1>11. CASE /\ m2 = m
            /\ L2 = (loans \ {l}) \cup {[l EXCEPT !.shares = post, !.collateral = r.collateral]}
  <2>1. PICK l2 : l2 = [l EXCEPT !.shares = post, !.collateral = r.collateral] OBVIOUS
  <2>2. Renews(l, l2) /\ l2.collateral = r.collateral
    BY <1>3, <1>5, <2>1 DEF Renews, MatchedLoan
  <2>3. LoanShares(l2) = f BY <1>1, <2>2, Zenon DEF LoanShares, SnapshotShares, Renews
  <2>4. SeatPays(m, m2, l.borrower, 0, 0) BY <1>3, <1>11, NothingPays, Zenon
  <2>5. 0 <= ((n + u) - f) - 0 /\ 0 \in Int /\ 0 \in Nat BY <1>6, <1>8
  <2>6. 0 <= ((n + LoanShares(l)) - LoanShares(l2)) - 0 BY <1>1, <2>3, <2>5, Zenon
  <2>7. Book(m, loans, l.borrower, n, "AtLeast") /\ m2 \in Markets BY <1>1, <1>3, <1>9, <1>11, Zenon
  <2>8. \E z : /\ Renews(l, z) /\ L2 = (loans \ {l}) \cup {z}
               /\ 0 <= ((n + LoanShares(l)) - LoanShares(z)) - 0
    BY <1>11, <2>1, <2>2, <2>6, Zenon
  <2>9. Book(m2, L2, l.borrower, 0, "AtLeast")
    BY <1>8, <2>4, <2>5, <2>7, <2>8, PaymentKeepsBook, Zenon
  <2>10. Book(m2, L2, NIL, 0, "AtLeast") BY <2>9, Refocus, Zenon
  <2> QED BY <1>1, <2>4, <2>5, <2>7, <2>10, Zenon
<1> QED BY <1>1, <1>10, <1>11, Zenon DEF ConvertedTo

\* Moving shares within a seat leaves its total.
LEMMA SeatTotals ==
    ASSUME NEW m \in Markets, NEW m2, NEW b, NEW x \in Nat, SeatPays(m, m2, b, x, x)
    PROVE  \A t \in Traders : m2.seats[t].withdrawable + m2.seats[t].encumbered
                                = m.seats[t].withdrawable + m.seats[t].encumbered
<1>1. ASSUME NEW t \in Traders
      PROVE  m2.seats[t].withdrawable + m2.seats[t].encumbered
               = m.seats[t].withdrawable + m.seats[t].encumbered
  <2>1. m.seats[t].encumbered \in Int /\ m.seats[t].withdrawable \in Nat BY DEF Markets, Seat
  <2>2. /\ m2.seats[t].encumbered = m.seats[t].encumbered + At(t, b, -x)
        /\ m2.seats[t].withdrawable = m.seats[t].withdrawable + At(t, b, x)
    BY DEF SeatPays, SeatChanged
  <2> QED BY <2>1, <2>2 DEF At
<1> QED BY <1>1

\* What the records of a market are after the walk, which queues fixed loans only.
LEMMA WalkOwes ==
    ASSUME Inv("AtLeast"), NEW l \in loans, NEW r \in Accs, Refinancing(r, l), Since(market, r)
    PROVE  /\ r.market \in Markets /\ Separate(r.market, loans) /\ LoansOK(r.market, loans)
           /\ Owed(r.market, loans) = Owed(market, loans)
           /\ Gone(r.market, loans) = Gone(market, loans)
<1>1. /\ market \in Markets /\ Separate(market, loans) /\ Owed(market, loans) \in Nat
  BY PoolState, Zenon
<1>2. r.market \in Markets /\ LoansOK(r.market, loans) BY DEF Refinancing, Book, Accs
<1>3. Separate(r.market, loans) BY <1>2 DEF LoansOK, Separate
<1>4. PoolGrows(market, r.market, 0) BY Zenon DEF Since, FixedOnly, PoolGrows
<1>5. PICK m, m2 : m = market /\ m2 = r.market OBVIOUS
<1>6. Owed(m2, loans) = Owed(m, loans) + 0 /\ Gone(m2, loans) = Gone(m, loans)
  <2>1. 0 \in Nat OBVIOUS
  <2> QED BY <1>1, <1>2, <1>3, <1>4, <1>5, <2>1, OwedGrows, Zenon
<1>7. Owed(m, loans) \in Nat BY <1>1, <1>5, Zenon
<1>8. Owed(m, loans) + 0 = Owed(m, loans) BY <1>7
<1> QED BY <1>2, <1>3, <1>5, <1>6, <1>8, Zenon

\* After a conversion the records and the account agree as they did before.
LEMMA ConvertAgrees ==
    ASSUME PoolInv, NEW l \in loans, l.lender = NIL, NEW r \in Accs, Refinancing(r, l),
           Since(market, r), NEW s, NEW burned, NEW post,
           s = ThisLoanShares(l), burned = BurnedByConversion(l), post = SatSub(s, burned),
           NEW m2, NEW L2, m2.nodes = r.market.nodes, m2.loan_seq = r.market.loan_seq,
           ConvertedTo(l, r, post, m2, L2)
    PROVE  Agree(Owed(m2, L2), account.liability - burned, Gone(m2, L2))
<1>1. Inv("AtLeast") BY DEF PoolInv
<1>2. account.liability \in Nat /\ world \in Worlds /\ Owed(market, loans) \in Nat
  BY <1>1, PoolState, Zenon
<1>3. /\ burned \in Nat /\ burned <= account.liability /\ burned <= s + AtomShares
      /\ s \in Nat /\ s <= l.shares /\ l.shares \in Nat /\ s <= account.liability
      /\ s = l.shares \/ s = account.liability
  BY <1>1, ConversionBurns, Zenon
<1>4. AtomShares \in Nat BY AtomSharesBound
<1>5. post \in Nat /\ s - burned <= post /\ (post > 0 => post = s - burned)
  BY <1>3 DEF SatSub
<1>6. /\ DidFullRepay(post) => post <= 2 * AtomShares
      /\ ~DidFullRepay(post) => post > 0
  BY <1>2, <1>5, PaidBounds
<1>7. PICK m : m = r.market OBVIOUS
<1>8. /\ m \in Markets /\ Separate(m, loans) /\ LoansOK(m, loans)
      /\ Owed(m, loans) = Owed(market, loans) /\ Gone(m, loans) = Gone(market, loans)
  BY <1>1, <1>7, WalkOwes, Zenon
<1>9. /\ Owed(m, loans) = Owed(m, loans \ {l}) + l.shares /\ Owed(m, loans \ {l}) \in Nat
      /\ Gone(m, loans \ {l}) = Gone(m, loans) + 1
  BY <1>8, OwedLeaves, Zenon
<1>10. PICK R, R1, K, Y : /\ R = Owed(m, loans) /\ R1 = Owed(m, loans \ {l})
                          /\ K = Gone(m, loans) /\ Y = account.liability
  OBVIOUS
<1>11. R \in Nat /\ R1 \in Nat /\ R1 = R - l.shares /\ l.shares <= R /\ Y \in Nat
  BY <1>2, <1>3, <1>8, <1>9, <1>10
<1>12. Agree(R, Y, K) BY <1>8, <1>10, Zenon DEF PoolInv
<1>13. \A L : Owed(m2, L) = Owed(m, L) /\ Gone(m2, L) = Gone(m, L)
  BY <1>7, Zenon DEF Owed, Gone
<1>14. CASE DidFullRepay(post) /\ L2 = loans \ {l}
  <2>1. burned <= l.shares + AtomShares BY <1>3, <1>4
  <2>2. l.shares <= burned + 2 * AtomShares \/ Y - burned <= 2 * AtomShares
    <3>1. s <= burned + 2 * AtomShares BY <1>3, <1>4, <1>5, <1>6, <1>14
    <3> QED BY <1>2, <1>3, <1>4, <1>10, <3>1
  <2>3. burned <= Y BY <1>3, <1>10
  <2>4. Agree(R - l.shares, Y - burned, K + 1)
    BY <1>3, <1>11, <1>12, <2>1, <2>2, <2>3, AgreeCloses, Zenon
  <2> QED BY <1>9, <1>10, <1>11, <1>13, <1>14, <2>4, Zenon
<1>15. ASSUME ~DidFullRepay(post), NEW l2, L2 = (loans \ {l}) \cup {l2},
              l2 = [l EXCEPT !.shares = post, !.collateral = r.collateral]
       PROVE  Agree(Owed(m2, L2), Y - burned, Gone(m2, L2))
  <2>1. l \in MatchedLoan BY <1>8 DEF LoansOK
  <2>2. r.collateral \in Nat BY DEF Accs
  <2>3. Renews(l, l2) /\ l2.shares = post
    BY <1>5, <1>15, <2>1, <2>2 DEF Renews, MatchedLoan
  <2>4. Separate(m, loans \ {l})
    <3>1. IsFiniteSet(loans \ {l}) BY <1>8, FS_RemoveElement DEF Separate
    <3> QED BY <1>8, <3>1 DEF Separate
  <2>5. l2 \notin m.nodes \cup (loans \ {l}) BY <1>8, <2>3 DEF LoansOK, Renews
  <2>6. l2 \in MatchedLoan /\ l2.lender = NIL BY <2>3 DEF Renews
  <2>7. /\ Owed(m, (loans \ {l}) \cup {l2}) = R1 + post
        /\ Gone(m, (loans \ {l}) \cup {l2}) = Gone(m, loans \ {l}) - 1
    <3>1. /\ Owed(m, (loans \ {l}) \cup {l2}) = Owed(m, loans \ {l}) + l2.shares
          /\ Gone(m, (loans \ {l}) \cup {l2}) = Gone(m, loans \ {l}) - 1
      BY <1>8, <2>4, <2>5, <2>6, OwedReturns, Zenon
    <3> QED BY <1>10, <2>3, <3>1, Zenon
  <2>8. K \in Int BY <1>8, <1>10, OwedTyped
  <2>9. (K + 1) - 1 = K BY <2>8
  <2>10. Gone(m, (loans \ {l}) \cup {l2}) = K BY <1>9, <1>10, <2>7, <2>9, Zenon
  <2>11. post = s - burned BY <1>5, <1>6, <1>15
  <2>12. /\ post + burned <= l.shares /\ burned <= Y
         /\ post + burned = l.shares \/ post = Y - burned
    BY <1>2, <1>3, <1>5, <1>10, <2>11
  <2>13. Agree((R - l.shares) + post, Y - burned, K)
    BY <1>3, <1>5, <1>11, <1>12, <2>12, AgreeShrinks, Zenon
  <2> QED BY <1>11, <1>13, <1>15, <2>7, <2>10, <2>13, Zenon
<1> QED BY <1>10, <1>14, <1>15, Zenon DEF ConvertedTo

\* convert_p2pool_to_fixed.
LEMMA ConvertKeeps ==
    ASSUME PoolInv, NEW l \in PoolLoans, NEW terms \in Refinances,
           ConvertP2PoolToFixed(l, terms)
    PROVE  PoolInv' /\ Honoured
<1>1. Inv("AtLeast") /\ l \in loans /\ l.lender = NIL BY DEF PoolInv, PoolLoans
<1>2. PICK r, s, burned : /\ r = match_p2pool_residual_against_asks(l, terms)
                          /\ s = ThisLoanShares(l) /\ burned = BurnedByConversion(l)
  OBVIOUS
<1>3. PICK post : post = SatSub(s, burned) OBVIOUS
<1>4. /\ MayConvert(l, terms) /\ vault' = r.vault
      /\ account' = [account EXCEPT !.liability = @ - burned]
      /\ ConvertedTo(l, r, post, market', loans')
      /\ UNCHANGED <<now, world, refs>>
  BY <1>2, <1>3, Zenon DEF ConvertP2PoolToFixed, ConvertedSeats, ConvertedTo
<1>5. Converts(l, loan_live_outstanding_atoms(l)) BY <1>1, <1>4, ConvertStarts, Zenon
<1>6. r \in Accs /\ Refinancing(r, l) /\ Since(market, r)
  BY <1>1, <1>2, <1>5, RefinanceKeeps, Zenon
<1>7. /\ burned \in Nat /\ burned <= account.liability /\ s \in Nat
  BY <1>1, <1>2, ConversionBurns, Zenon
<1>8. post \in Nat BY <1>3, <1>7 DEF SatSub
<1>9. PICK m2, L2, a2 : m2 = market' /\ L2 = loans' /\ a2 = account' OBVIOUS
<1>10. ConvertedTo(l, r, post, m2, L2) BY <1>4, <1>9, Zenon
<1>11. /\ m2 \in Markets /\ Book(m2, L2, NIL, 0, "AtLeast")
       /\ \E x \in Nat : SeatPays(r.market, m2, l.borrower, x, x)
  BY <1>1, <1>6, <1>8, <1>10, ConvertKeepsBook, Zenon
<1>12. PICK x \in Nat : SeatPays(r.market, m2, l.borrower, x, x) BY <1>11, Zenon
<1>13. /\ m2.nodes = r.market.nodes /\ m2.loan_seq = r.market.loan_seq
       /\ m2.bids = r.market.bids /\ m2.order_seq = r.market.order_seq
  BY <1>12, Zenon DEF SeatPays, SeatChanged
<1>14. account \in [collateral : Nat, liability : Nat] BY <1>1 DEF Inv
<1>15. PICK y2 : y2 = account.liability - burned OBVIOUS
<1>16. y2 \in Nat BY <1>7, <1>14, <1>15
<1>17. /\ a2.liability = y2 /\ a2.collateral = account.collateral
       /\ a2 \in [collateral : Nat, liability : Nat]
  <2>1. a2 = [account EXCEPT !.liability = y2] BY <1>4, <1>9, <1>15
  <2> QED BY <1>14, <1>16, <2>1
<1>18. Agree(Owed(m2, L2), y2, Gone(m2, L2))
  BY <1>1, <1>2, <1>3, <1>6, <1>10, <1>13, <1>15, ConvertAgrees, Zenon
<1>19. Backed(m2, a2)
  <2>1. r.market \in Markets BY <1>6 DEF Accs
  <2>2. \A t \in Traders : m2.seats[t].withdrawable + m2.seats[t].encumbered
                             = r.market.seats[t].withdrawable + r.market.seats[t].encumbered
    BY <1>12, <2>1, SeatTotals, Zenon
  <2>3. \A t \in Traders : m2.seats[t].withdrawable + m2.seats[t].encumbered
                             = market.seats[t].withdrawable + market.seats[t].encumbered
    BY <1>6, <2>2, Zenon DEF Since
  <2>4. Backed(market, account) BY <1>1 DEF Inv
  <2> QED BY <1>17, <2>3, <2>4, BackedSame, Zenon
<1>20. Listed(m2, refs)
  <2>1. Listed(market, refs) BY <1>1 DEF Inv
  <2>2. ASSUME NEW o \in r.market.bids PROVE o.seq \in refs[o.trader]
    <3>1. PICK old \in market.bids : old.seq = o.seq /\ old.trader = o.trader
      BY <1>6, Zenon DEF Since
    <3>2. old.seq \in refs[old.trader] BY <2>1, Zenon DEF Listed
    <3> QED BY <3>1, <3>2, Zenon
  <2> QED BY <1>13, <2>2, Zenon DEF Listed
<1>21. m2.order_seq <= MaxOrders
  <2>1. market.order_seq <= MaxOrders BY <1>1 DEF Inv
  <2> QED BY <1>6, <1>13, <2>1, Zenon DEF Since
<1>22. r.vault \in Lenders BY <1>6 DEF Accs
<1>23. Inv("AtLeast")'
  <2>1. now \in 0..MaxTime /\ world \in Worlds /\ refs \in [Borrowers -> SUBSET (0..MaxOrders)]
    BY <1>1 DEF Inv
  <2>2. now' \in 0..MaxTime /\ world' = world /\ vault' \in Lenders
    BY <1>4, <1>22, <2>1, Zenon
  <2>3. refs' \in [Borrowers -> SUBSET (0..MaxOrders)] BY <1>4, <2>1, Zenon
  <2>4. account' \in [collateral : Nat, liability : Nat] BY <1>9, <1>17, Zenon
  <2>5. /\ Book(market', loans', NIL, 0, "AtLeast") /\ market'.order_seq <= MaxOrders
        /\ Listed(market', refs') /\ Backed(market', account')
    BY <1>4, <1>9, <1>11, <1>19, <1>20, <1>21, Zenon
  <2> QED BY <2>1, <2>2, <2>3, <2>4, <2>5, Stepped
<1>24. Honoured
  <2>1. \A n \in r.market.nodes \ market.nodes : n.lender # NIL => LoanHonoursTerms(n)
    BY <1>6, Zenon DEF Since
  <2> QED BY <1>9, <1>13, <2>1, Zenon DEF Honoured
<1>25. Agree(Owed(market', loans'), account'.liability, Gone(market', loans'))
  BY <1>9, <1>17, <1>18, Zenon
<1> QED BY <1>23, <1>24, <1>25, Zenon DEF PoolInv

\* Nothing left, or what paying all of it leaves: both count as paid, because a share
\* is worth less than SCALE atoms.
LEMMA RemnantPaid ==
    ASSUME NEW s \in Nat, NEW v \in Nat \ {0}, v <= SCALE * SCALE, NEW p \in Nat,
           p = 0 \/ p = s - amount_to_asset_shares(Ceil(s, v), v)
    PROVE  shares_to_amount(p, v) <= 1
<1>1. PICK T \in Nat : T = SCALE * SCALE /\ SCALE <= T
  <2>1. SCALE \in Nat \ {0} BY ScaleAssumption
  <2>2. SCALE * SCALE \in Nat /\ SCALE <= SCALE * SCALE BY <2>1
  <2> QED BY <2>2
<1>2. SCALE \in Nat \ {0} BY ScaleAssumption
<1>3. CASE p = 0
  <2>1. p * v = 0 /\ 0 < T BY <1>1, <1>2, <1>3
  <2>2. 0 < 2 * T BY <1>1, <2>1
  <2> QED BY <1>1, <2>1, <2>2, PaidMeans
<1>4. CASE p = s - amount_to_asset_shares(Ceil(s, v), v)
  <2>1. p * v < SCALE + v BY <1>4, LeavesAtMost
  <2>2. PICK x \in Nat : x = p * v OBVIOUS
  <2>3. x < 2 * T BY <1>1, <1>2, <2>1, <2>2
  <2> QED BY <1>1, <2>2, <2>3, PaidMeans
<1> QED BY <1>3, <1>4

\* A conversion always pays the pool loan off.
LEMMA ConversionPays ==
    ASSUME Inv("AtLeast"), NEW l \in loans
    PROVE  DidFullRepay(SatSub(ThisLoanShares(l), BurnedByConversion(l)))
<1>1. PICK s, burned, live, Y, v :
         /\ s = ThisLoanShares(l) /\ burned = BurnedByConversion(l)
         /\ live = loan_live_outstanding_atoms(l) /\ Y = account.liability /\ v = world.lsv
  OBVIOUS
<1>2. /\ burned \in Nat /\ s \in Nat /\ s <= Y BY <1>1, ConversionBurns
<1>3. /\ Y \in Nat /\ v \in Nat \ {0} /\ world \in Worlds BY <1>1, PoolState
<1>4. v <= SCALE * SCALE BY <1>1, <1>3, PoolAssumption
<1>5. live = Ceil(s, v) /\ live \in Nat BY <1>1, LiveTyped
<1>6. PICK f : f = amount_to_asset_shares(live, v) OBVIOUS
<1>7. f \in Nat BY <1>3, <1>5, <1>6, SharesTyped
<1>8. PICK p : p = SatSub(s, burned) OBVIOUS
<1>9. p \in Nat BY <1>2, <1>8 DEF SatSub
<1>10. burned = f \/ s <= burned
  <2>1. CASE UsesRepayAll(s, TRUE)
    <3>1. burned = Y BY <1>1, <2>1, Zenon DEF BurnedByConversion, marginfi_repay
    <3> QED BY <1>2, <3>1
  <2>2. CASE ~UsesRepayAll(s, TRUE)
    <3>1. burned = MinOf(f, Y)
      BY <1>1, <1>6, <2>2, Zenon DEF BurnedByConversion, marginfi_repay
    <3> QED BY <1>2, <1>3, <1>7, <3>1 DEF MinOf
  <2> QED BY <2>1, <2>2
<1>11. p = 0 \/ p = s - f BY <1>2, <1>7, <1>8, <1>10 DEF SatSub
<1>12. p = 0 \/ p = s - amount_to_asset_shares(Ceil(s, v), v) BY <1>5, <1>6, <1>11, Zenon
<1>13. shares_to_amount(p, v) <= 1 BY <1>2, <1>3, <1>4, <1>9, <1>12, RemnantPaid, Zenon
<1> QED BY <1>1, <1>8, <1>13, Zenon DEF DidFullRepay, liability_shares_to_atoms_floor

-----------------------------------------------------------------------------
(* Every step *)

\* Every instruction on orders, fixed loans and pool loans keeps the invariant.
LEMMA PoolStepKeeps ==
    ASSUME PoolInv, PoolNext
    PROVE  PoolInv' /\ Honoured
<1>1. CASE Next BY <1>1, BookKeepsPool, Zenon
<1>2. ASSUME NEW l \in PoolLoans, RepayPool(l, 0, TRUE) PROVE PoolInv' /\ Honoured
  <2>1. 0 \in Nat OBVIOUS
  <2> QED BY <1>2, <2>1, RepayPoolKeeps, Zenon
<1>3. ASSUME NEW l \in PoolLoans, NEW atoms \in RepayAmounts, RepayPool(l, atoms, FALSE)
      PROVE  PoolInv' /\ Honoured
  <2>1. atoms \in Nat BY PoolAssumption
  <2> QED BY <1>3, <2>1, RepayPoolKeeps, Zenon
<1>4. ASSUME NEW l \in PoolLoans, NEW atoms \in RepayAmounts \cup {0},
             LiquidatePool(l, atoms) \/ SettlePool(l, atoms)
      PROVE  PoolInv' /\ Honoured
  <2>1. atoms \in Nat BY PoolAssumption
  <2> QED BY <1>4, <2>1, LiquidatePoolKeeps, SettlePoolKeeps, Zenon
<1>5. ASSUME NEW l \in PoolLoans, NEW terms \in Refinances, ConvertP2PoolToFixed(l, terms)
      PROVE  PoolInv' /\ Honoured
  BY <1>5, ConvertKeeps, Zenon
<1> QED BY <1>1, <1>2, <1>3, <1>4, <1>5, Zenon DEF PoolNext, PoolActions

\* At first nothing is borrowed.
LEMMA PoolStarts ==
    ASSUME Init
    PROVE  PoolInv
<1>1. Inv("AtLeast") BY InitKeeps
<1>2. market.nodes = {} /\ market.loan_seq = 0 /\ loans = {} /\ account.liability = 0
  BY DEF Init
<1>3. market.nodes \cup loans = {} BY <1>2
<1>4. PoolOf(market.nodes \cup loans) = {} BY <1>3 DEF PoolOf
<1>5. Owed(market, loans) = 0 BY <1>4, SumZero, Zenon DEF Owed
<1>6. Cardinality(market.nodes \cup loans) = 0 BY <1>3, FS_EmptySet, Zenon
<1>7. Gone(market, loans) = 0 BY <1>2, <1>6 DEF Gone
<1>8. AtomShares \in Nat BY AtomSharesBound
<1>9. 0 * AtomShares = 0 BY <1>8
<1>10. Agree(0, 0, 0) BY <1>9 DEF Agree
<1> QED BY <1>1, <1>2, <1>5, <1>7, <1>10, Zenon DEF PoolInv

\* The invariant is inductive: the loans' records and the account drift apart only by
\* the rounding of the loans that closed, and no release ever finds too little.
THEOREM PoolInvariant == PoolSpec => []PoolInv
<1>1. Init => PoolInv BY PoolStarts
<1>2. PoolInv /\ [PoolNext]_vars => PoolInv'
  <2>1. PoolInv /\ PoolNext => PoolInv' BY PoolStepKeeps
  <2>2. PoolInv /\ UNCHANGED vars => PoolInv'
    <3> SUFFICES ASSUME PoolInv, UNCHANGED vars PROVE PoolInv' OBVIOUS
    <3>1. Inv("AtLeast")' BY StutterKeeps DEF PoolInv
    <3>2. market' = market /\ loans' = loans /\ account' = account BY DEF vars
    <3>3. Agree(Owed(market', loans'), account'.liability, Gone(market', loans'))
      BY <3>2, Zenon DEF PoolInv
    <3> QED BY <3>1, <3>3, Zenon DEF PoolInv
  <2> QED BY <2>1, <2>2
<1> QED BY <1>1, <1>2, PTL DEF PoolSpec

\* process_repay, process_liquidate_loan, process_settle_matured_loan and
\* process_convert_p2pool_to_fixed: whatever order borrowers and keepers act in, the
\* records of all pool loans and the market's one marginfi liability agree up to the
\* rounding of the loans that closed.
THEOREM DebtsAttributed == PoolSpec => []LiabilityAttributed
<1>1. PoolInv => LiabilityAttributed
  <2> SUFFICES ASSUME PoolInv PROVE LiabilityAttributed OBVIOUS
  <2>1. /\ market \in Markets /\ Separate(market, loans) /\ account.liability \in Nat
        /\ Owed(market, loans) \in Nat
    BY PoolState, Zenon DEF PoolInv
  <2>2. PICK S : S = PoolOf(market.nodes \cup loans) OBVIOUS
  <2>3. AllPoolLoans = S BY <2>2 DEF AllPoolLoans, OpenLoans, Queued, PoolOf
  <2>4. \A l \in S : Debts[l] = l.shares BY <2>1, <2>2, OwedTyped DEF PoolOf
  <2>5. PICK f : f = [l \in S |-> l.shares] OBVIOUS
  <2>6. \A l \in S : f[l] = Debts[l] BY <2>4, <2>5
  <2>7. Sum(S, f) = Sum(S, Debts) BY <2>6, SumSame
  <2>8. RecordedShares = Owed(market, loans)
    BY <2>2, <2>3, <2>5, <2>7, Zenon DEF RecordedShares, Owed
  <2>9. LoansClosed = Gone(market, loans) BY Zenon DEF LoansClosed, Gone, OpenLoans, Queued
  <2>10. PICK R, K, Y : R = RecordedShares /\ K = LoansClosed /\ Y = account.liability OBVIOUS
  <2>11. /\ K \in Nat /\ R <= Y + K * AtomShares /\ Y <= R + 2 * (K * AtomShares)
    BY <2>8, <2>9, <2>10, Zenon DEF PoolInv, Agree
  <2>12. AtomShares \in Nat BY AtomSharesBound
  <2>13. 2 * (K * AtomShares) = 2 * K * AtomShares BY <2>11, <2>12
  <2> QED BY <2>10, <2>11, <2>13, Zenon DEF LiabilityAttributed
<1> QED BY <1>1, PoolInvariant, PTL

\* convert_p2pool_to_fixed reserves enough blocks for any book and never underflows a
\* seat halfway, so that only an ask whose floored rate no u16 holds reverts its walk.
\* And it always closes the pool loan: what marginfi's rounding leaves is at most an atom.
THEOREM ConversionsClose == PoolSpec => []ConversionsComplete
<1>1. PoolInv => ConversionsComplete
  <2> SUFFICES ASSUME PoolInv, NEW l \in PoolLoans, NEW terms \in Refinances,
                      MayConvert(l, terms)
               PROVE  /\ match_p2pool_residual_against_asks(l, terms).aborted
                           => Overpriced(market.asks) # {}
                      /\ DidFullRepay(SatSub(ThisLoanShares(l), BurnedByConversion(l)))
    BY Zenon DEF ConversionsComplete
  <2>1. Inv("AtLeast") /\ l \in loans BY DEF PoolInv, PoolLoans
  <2>2. Converts(l, loan_live_outstanding_atoms(l)) BY <2>1, ConvertStarts, Zenon
  <2>3. PICK r : r = match_p2pool_residual_against_asks(l, terms) OBVIOUS
  <2>4. Refinancing(r, l) BY <2>1, <2>2, <2>3, RefinanceKeeps, Zenon
  <2>5. r.aborted => Overpriced(market.asks) # {} BY <2>4, Zenon DEF Refinancing
  <2> QED BY <2>1, <2>3, <2>5, ConversionPays, Zenon
<1> QED BY <1>1, PoolInvariant, PTL

\* The seats stay backed while keepers take collateral out of the account: what a
\* liquidation or a settlement withdraws, the borrower's seat has lost.
THEOREM CollateralBackedWithPool == PoolSpec => []SeatsBacked
<1>1. PoolInv => SeatsBacked
  BY DEF PoolInv, Inv, Backed, SeatsBacked, Held, SeatShares
<1> QED BY <1>1, PoolInvariant, PTL

\* match_p2pool_residual_against_asks honours the lenders' terms like every other walk.
THEOREM RefinancingHonoursTerms == PoolSpec => FillsHonourTerms
<1>1. PoolInv /\ [PoolNext]_vars => [Honoured]_vars BY PoolStepKeeps
<1>2. PoolSpec => [][Honoured]_vars
  BY <1>1, PoolInvariant, PTL DEF PoolSpec
<1> QED BY <1>2 DEF Honoured, FillsHonourTerms

\* A loan's release is always covered: unencumber_for_order refuses to release more
\* than a seat has encumbered, which would leave a borrower who pays in full with a
\* loan that cannot close, or a finished conversion with one.
ReleasesCovered ==
    \A l \in PoolLoans :
        /\ market.seats[l.borrower].encumbered >= LoanShares(l)
        /\ \A terms \in Refinances :
              MayConvert(l, terms) =>
                  LET done == match_p2pool_residual_against_asks(l, terms)
                  IN  done.market.seats[l.borrower].encumbered
                          >= SnapshotShares(l, done.collateral)

\* After the walk too the old loan's share of the seat is there to be released.
LEMMA WalkEncumbers ==
    ASSUME Inv("AtLeast"), NEW l \in loans, l.lender = NIL, NEW r \in Accs, Refinancing(r, l)
    PROVE  r.market.seats[l.borrower].encumbered >= SnapshotShares(l, r.collateral)
<1>1. PICK b, m, u, f : /\ b = l.borrower /\ m = r.market /\ u = LoanShares(l)
                        /\ f = SnapshotShares(l, r.collateral)
  OBVIOUS
<1>2. u \in Nat /\ b \in Borrowers BY <1>1, LoanEncumbers
<1>3. m \in Markets /\ r.collateral \in Nat BY <1>1 DEF Accs
<1>4. LoansOK(market, loans) BY PoolState, Zenon
<1>5. l \in MatchedLoan /\ l.snapshot \in Nat \ {0} BY <1>4 DEF LoansOK, MatchedLoan
<1>6. f \in Nat BY <1>1, <1>3, <1>5, SharesTyped DEF SnapshotShares
<1>7. PICK n : n = f - u OBVIOUS
<1>8. n \in Int /\ n + u = f BY <1>2, <1>6, <1>7
<1>9. Book(m, loans, b, n, "AtLeast")
  BY <1>1, <1>7, Zenon DEF Refinancing, SnapshotShares
<1>10. Book(m, loans \ {l}, b, f, "AtLeast")
  <2>1. Book(m, loans \ {l}, b, n + u, "AtLeast") BY <1>1, <1>8, <1>9, LoanLeaves, Zenon
  <2> QED BY <1>8, <2>1, Zenon
<1>11. b \in Traders BY <1>2 DEF Traders
<1>12. Due(m, loans \ {l}, b) + At(b, b, f) <= m.seats[b].encumbered
  BY <1>10, <1>11, Zenon DEF Book, EncumberedOK
<1>13. Due(m, loans \ {l}, b) \in Nat BY <1>10, BookSets, Zenon
<1>14. m.seats[b].encumbered \in Int BY <1>3, <1>11 DEF Markets, Seat
<1>15. At(b, b, f) = f BY Zenon DEF At
<1>16. m.seats[b].encumbered >= f BY <1>6, <1>12, <1>13, <1>14, <1>15
<1> QED BY <1>1, <1>16, Zenon

\* process_repay and process_convert_p2pool_to_fixed never fail on the release at
\* their end.
THEOREM NoReleaseFails == PoolSpec => []ReleasesCovered
<1>1. PoolInv => ReleasesCovered
  <2> SUFFICES ASSUME PoolInv, NEW l \in PoolLoans
               PROVE  /\ market.seats[l.borrower].encumbered >= LoanShares(l)
                      /\ \A terms \in Refinances :
                            MayConvert(l, terms) =>
                                LET done == match_p2pool_residual_against_asks(l, terms)
                                IN  done.market.seats[l.borrower].encumbered
                                        >= SnapshotShares(l, done.collateral)
    BY Zenon DEF ReleasesCovered
  <2>1. Inv("AtLeast") /\ l \in loans /\ l.lender = NIL BY DEF PoolInv, PoolLoans
  <2>2. /\ LoanShares(l) \in Nat /\ market.seats[l.borrower].encumbered \in Nat
        /\ LoanShares(l) <= market.seats[l.borrower].encumbered
    BY <2>1, LoanEncumbers, Zenon
  <2>3. ASSUME NEW terms \in Refinances, MayConvert(l, terms), NEW r,
               r = match_p2pool_residual_against_asks(l, terms)
        PROVE  r.market.seats[l.borrower].encumbered >= SnapshotShares(l, r.collateral)
    <3>1. Converts(l, loan_live_outstanding_atoms(l)) BY <2>1, <2>3, ConvertStarts, Zenon
    <3>2. r \in Accs /\ Refinancing(r, l) BY <2>1, <2>3, <3>1, RefinanceKeeps, Zenon
    <3> QED BY <2>1, <3>2, WalkEncumbers, Zenon
  <2>4. market.seats[l.borrower].encumbered >= LoanShares(l) BY <2>2
  <2> QED BY <2>3, <2>4, Zenon
<1> QED BY <1>1, PoolInvariant, PTL

\* With pool loans too every balance, count and block stays a natural number.
THEOREM PoolTypeCorrect == PoolSpec => []TypeOK
<1>1. PoolInv => TypeOK BY Typed DEF PoolInv
<1> QED BY <1>1, PoolInvariant, PTL

\* No instruction on pool loans leaks a block, and none makes a later taking bid, ask
\* (the curator's own walk too) or crank run out of blocks or underflow a seat halfway:
\* what aborts one is the u16 check on an overpriced ask of the book.
THEOREM WalksStayComplete == PoolSpec => [](BlocksAccounted /\ WalksComplete)
<1>1. PoolInv => BlocksAccounted /\ WalksComplete BY BlocksHold, WalksHold DEF PoolInv
<1> QED BY <1>1, PoolInvariant, PTL

=============================================================================
