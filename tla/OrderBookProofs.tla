--------------------------- MODULE OrderBookProofs ---------------------------
(***************************************************************************)
(* Safety of the borrower side of a market, for every set of borrowers and *)
(* sub-vaults, every price, share value, policy and bid.                   *)
(*                                                                         *)
(* A walk is a fold over a book that changes the book, the seats, the      *)
(* matched-loan queue and the blocks at every order it meets.  The         *)
(* argument has three layers: what one primitive change of the market      *)
(* (a loan added, a bid dropped or put, shares moved on a seat) does to    *)
(* the invariant Book, with the shares it leaves in flight between an      *)
(* order and a loan; what a walk then preserves, by induction over the     *)
(* orders it has met; and what each instruction preserves.                 *)
(*                                                                         *)
(* The invariant has two modes.  "Exact" is that of Spec: open_borrow      *)
(* counts the loans, and encumbered exceeds what they give back by at most *)
(* a share per fill.  P2Pool adds instructions that keep neither (settling *)
(* a pool loan whose seizure rounds to nothing leaves its seat untouched), *)
(* so P2PoolProofs uses "AtLeast", which only keeps the lower bound.       *)
(***************************************************************************)
EXTENDS OrderBook, SetLemmas, ArithLemmas

-----------------------------------------------------------------------------
(* The inductive invariant *)

\* A seat in the middle of an instruction: that the encumbered balance never
\* underflows is a consequence of EncumberedOK.
Seat == [ claimed : BOOLEAN, withdrawable : Nat, encumbered : Int,
          open_borrow : Nat, open_lend : Nat ]

Markets == [ asks : SUBSET AskOrder, bids : SUBSET BidOrder, nodes : SUBSET MatchedLoan,
             seats : [Traders -> Seat],
             order_seq : Nat, loan_seq : Nat, free : Nat, blocks : Nat ]

Lenders == [SubVaults -> [idle : Nat, sunset : BOOLEAN, policy : Policies]]

\* What a walk threads through its orders.
Accs == [ market : Markets, vault : Lenders, principal : Nat, collateral : Nat,
          fills : Nat, stop : BOOLEAN, aborted : BOOLEAN ]

By(orders, t) == {o \in orders : o.trader = t}

LoansBy(S, b) == {l \in S : l.borrower = b}

LentBy(S, v) == {l \in S : l.lender = v}

\* The shares each order and each loan gives back when it ends.
BidShares == [bid \in BidOrder |-> OrderShares(bid)]

ShareOf == [l \in MatchedLoan |-> LoanShares(l)]

Due(m, L, b) == Sum(By(m.bids, b), BidShares) + Sum(LoansBy(m.nodes \cup L, b), ShareOf)

\* No two orders of the market share a sequence; the next one is larger.
OrdersOK(m) ==
    /\ IsFiniteSet(m.bids) /\ IsFiniteSet(m.asks)
    /\ \A o \in m.bids \cup m.asks : o.seq < m.order_seq
    /\ \A o1, o2 \in m.bids \cup m.asks : o1.seq = o2.seq => o1 = o2
    /\ \A bid \in m.bids : bid.snapshot > 0 /\ bid.snapshot <= world.asv

\* Neither do two loans, and a loan is queued or promoted, never both.
LoansOK(m, L) ==
    /\ IsFiniteSet(m.nodes) /\ IsFiniteSet(L) /\ L \subseteq MatchedLoan
    /\ m.nodes \cap L = {}
    /\ \A l \in m.nodes \cup L :
          l.seq < m.loan_seq /\ l.snapshot > 0 /\ l.snapshot <= world.asv
    /\ \A l1, l2 \in m.nodes \cup L : l1.seq = l2.seq => l1 = l2

\* The seats count the borrower's loans, and the sub-vault's asks and loans.
CountsOK(m, L, mode) ==
    /\ mode = "Exact" =>
          \A b \in Borrowers : m.seats[b].open_borrow = Cardinality(LoansBy(m.nodes \cup L, b))
    /\ \A v \in SubVaults : m.seats[v].open_lend =
          Cardinality(By(m.asks, v)) + Cardinality(LentBy(m.nodes \cup L, v))

Claimed(m) == {t \in Traders : m.seats[t].claimed}

BlocksOK(m) ==
    m.blocks = m.free + Cardinality(Claimed(m)) + Cardinality(m.asks)
                      + Cardinality(m.bids) + Cardinality(m.nodes)

\* n at b, nothing elsewhere.
At(c, b, n) == IF c = b THEN n ELSE 0

\* Seat b is encumbered for n shares more (or, with n < 0, fewer) than its bids and
\* loans give back: those are in flight from an order to a loan or back to the seat.
EncumberedOK(m, L, b, n, mode) ==
    \A c \in Traders :
        /\ Due(m, L, c) + At(c, b, n) <= m.seats[c].encumbered
        /\ mode = "Exact" => m.seats[c].encumbered <= Due(m, L, c) + At(c, b, n) + m.loan_seq

Book(m, L, b, n, mode) ==
    /\ m \in Markets
    /\ OrdersOK(m) /\ LoansOK(m, L) /\ CountsOK(m, L, mode) /\ BlocksOK(m)
    /\ EncumberedOK(m, L, b, n, mode)

\* Every resting bid is listed on its owner's user account.
Listed(m, R) == \A bid \in m.bids : bid.seq \in R[bid.trader]

\* The account holds the shares of all seats.
Held(m) == [b \in Borrowers |-> m.seats[b].withdrawable + m.seats[b].encumbered]

Backed(m, a) == Sum(Borrowers, Held(m)) <= a.collateral

Inv(mode) ==
    /\ now \in 0..MaxTime /\ world \in Worlds /\ vault \in Lenders
    /\ refs \in [Borrowers -> SUBSET (0..MaxOrders)]
    /\ account \in [collateral : Nat, liability : Nat]
    /\ Book(market, loans, NIL, 0, mode)
    /\ market.order_seq <= MaxOrders
    /\ Listed(market, refs)
    /\ Backed(market, account)

-----------------------------------------------------------------------------
(* Sets of loans and orders, one element larger *)

\* A loan's shares are a natural number, and ShareOf lists them.
LEMMA LoanSharesTyped ==
    ASSUME NEW l \in MatchedLoan, l.snapshot > 0
    PROVE  LoanShares(l) \in Nat /\ ShareOf[l] = LoanShares(l)
<1>1. l.collateral \in Nat /\ l.snapshot \in Nat \ {0} BY DEF MatchedLoan
<1>2. LoanShares(l) \in Nat BY <1>1, SharesTyped, Zenon DEF LoanShares
<1> QED BY <1>2 DEF ShareOf

\* So are a bid's, and BidShares lists them.
LEMMA OrderSharesTyped ==
    ASSUME NEW bid \in BidOrder, bid.snapshot > 0
    PROVE  OrderShares(bid) \in Nat /\ BidShares[bid] = OrderShares(bid)
<1>1. bid.collateral \in Nat /\ bid.snapshot \in Nat \ {0} BY DEF BidOrder
<1>2. OrderShares(bid) \in Nat BY <1>1, SharesTyped, Zenon DEF OrderShares
<1> QED BY <1>2 DEF BidShares

\* Loans, each with a share value of its own.
LoanSet(S) == IsFiniteSet(S) /\ S \subseteq MatchedLoan /\ \A l \in S : l.snapshot > 0

BidSet(S) == IsFiniteSet(S) /\ S \subseteq BidOrder /\ \A bid \in S : bid.snapshot > 0

\* Counts and sums over a trader's loans are natural numbers.
LEMMA LoanSums ==
    ASSUME NEW S, LoanSet(S), NEW b
    PROVE  /\ IsFiniteSet(LoansBy(S, b)) /\ IsFiniteSet(LentBy(S, b))
           /\ Cardinality(LoansBy(S, b)) \in Nat /\ Cardinality(LentBy(S, b)) \in Nat
           /\ Sum(LoansBy(S, b), ShareOf) \in Nat
<1>1. IsFiniteSet(LoansBy(S, b)) /\ IsFiniteSet(LentBy(S, b))
  BY FS_Subset DEF LoanSet, LoansBy, LentBy
<1>2. \A l \in LoansBy(S, b) : ShareOf[l] \in Nat
  BY LoanSharesTyped DEF LoanSet, LoansBy
<1> QED BY <1>1, <1>2, SumTyped, FS_CardinalityType

\* So is the sum over a trader's bids.
LEMMA BidSums ==
    ASSUME NEW S, BidSet(S), NEW b
    PROVE  IsFiniteSet(By(S, b)) /\ Sum(By(S, b), BidShares) \in Nat
<1>1. IsFiniteSet(By(S, b)) BY FS_Subset DEF BidSet, By
<1>2. \A bid \in By(S, b) : BidShares[bid] \in Nat
  BY OrderSharesTyped DEF BidSet, By
<1> QED BY <1>1, <1>2, SumTyped

\* One more loan: one more of its borrower's and of its lender's, and its shares.
LEMMA LoanAdds ==
    ASSUME NEW S, LoanSet(S), NEW x \in MatchedLoan, x.snapshot > 0, x \notin S, NEW b
    PROVE  /\ Cardinality(LoansBy(S \cup {x}, b))
                = Cardinality(LoansBy(S, b)) + At(b, x.borrower, 1)
           /\ Cardinality(LentBy(S \cup {x}, b))
                = Cardinality(LentBy(S, b)) + At(b, x.lender, 1)
           /\ Sum(LoansBy(S \cup {x}, b), ShareOf)
                = Sum(LoansBy(S, b), ShareOf) + At(b, x.borrower, LoanShares(x))
<1>1. /\ IsFiniteSet(LoansBy(S, b)) /\ IsFiniteSet(LentBy(S, b))
      /\ Cardinality(LoansBy(S, b)) \in Nat /\ Cardinality(LentBy(S, b)) \in Nat
      /\ Sum(LoansBy(S, b), ShareOf) \in Nat
  BY LoanSums
<1>2. x \notin LoansBy(S, b) /\ x \notin LentBy(S, b) BY DEF LoansBy, LentBy
<1>3. \A l \in LoansBy(S, b) \cup {x} : ShareOf[l] \in Nat
  BY LoanSharesTyped DEF LoanSet, LoansBy
<1>4. Cardinality(LentBy(S \cup {x}, b)) = Cardinality(LentBy(S, b)) + At(b, x.lender, 1)
  <2>1. CASE x.lender = b
    <3>1. LentBy(S \cup {x}, b) = LentBy(S, b) \cup {x} BY <2>1 DEF LentBy
    <3>2. Cardinality(LentBy(S, b) \cup {x}) = Cardinality(LentBy(S, b)) + 1
      BY <1>1, <1>2, CardAdd
    <3> QED BY <2>1, <3>1, <3>2 DEF At
  <2>2. CASE x.lender # b
    <3>1. LentBy(S \cup {x}, b) = LentBy(S, b) BY <2>2 DEF LentBy
    <3> QED BY <1>1, <2>2, <3>1 DEF At
  <2> QED BY <2>1, <2>2
<1>5. CASE x.borrower = b
  <2>1. LoansBy(S \cup {x}, b) = LoansBy(S, b) \cup {x} BY <1>5 DEF LoansBy
  <2>2. Cardinality(LoansBy(S, b) \cup {x}) = Cardinality(LoansBy(S, b)) + 1
    BY <1>1, <1>2, CardAdd
  <2>3. Sum(LoansBy(S, b) \cup {x}, ShareOf) = Sum(LoansBy(S, b), ShareOf) + ShareOf[x]
    BY <1>1, <1>2, <1>3, SumAdd
  <2> QED BY <1>4, <1>5, <2>1, <2>2, <2>3, LoanSharesTyped DEF At
<1>6. CASE x.borrower # b
  <2>1. LoansBy(S \cup {x}, b) = LoansBy(S, b) BY <1>6 DEF LoansBy
  <2> QED BY <1>1, <1>4, <1>6, <2>1 DEF At
<1> QED BY <1>5, <1>6

\* One more bid, and its shares.
LEMMA BidAdds ==
    ASSUME NEW S, BidSet(S), NEW x \in BidOrder, x.snapshot > 0, x \notin S, NEW b
    PROVE  Sum(By(S \cup {x}, b), BidShares)
             = Sum(By(S, b), BidShares) + At(b, x.trader, OrderShares(x))
<1>1. IsFiniteSet(By(S, b)) /\ Sum(By(S, b), BidShares) \in Nat BY BidSums
<1>2. x \notin By(S, b) BY DEF By
<1>3. \A o \in By(S, b) \cup {x} : BidShares[o] \in Nat
  BY OrderSharesTyped DEF BidSet, By
<1>4. CASE x.trader = b
  <2>1. By(S \cup {x}, b) = By(S, b) \cup {x} BY <1>4 DEF By
  <2>2. Sum(By(S, b) \cup {x}, BidShares) = Sum(By(S, b), BidShares) + BidShares[x]
    BY <1>1, <1>2, <1>3, SumAdd
  <2> QED BY <1>4, <2>1, <2>2, OrderSharesTyped DEF At
<1>5. CASE x.trader # b
  <2>1. By(S \cup {x}, b) = By(S, b) BY <1>5 DEF By
  <2> QED BY <1>1, <1>5, <2>1 DEF At
<1> QED BY <1>4, <1>5

\* One more ask of its sub-vault.
LEMMA AskAdds ==
    ASSUME NEW S, IsFiniteSet(S), NEW x, x \notin S, NEW v
    PROVE  /\ Cardinality(By(S, v)) \in Nat
           /\ Cardinality(By(S \cup {x}, v)) = Cardinality(By(S, v)) + At(v, x.trader, 1)
<1>1. IsFiniteSet(By(S, v)) /\ Cardinality(By(S, v)) \in Nat
  BY FS_Subset, FS_CardinalityType DEF By
<1>2. x \notin By(S, v) BY DEF By
<1>3. CASE x.trader = v
  <2>1. By(S \cup {x}, v) = By(S, v) \cup {x} BY <1>3 DEF By
  <2>2. Cardinality(By(S, v) \cup {x}) = Cardinality(By(S, v)) + 1
    BY <1>1, <1>2, CardAdd
  <2> QED BY <1>1, <1>3, <2>1, <2>2 DEF At
<1>4. CASE x.trader # v
  <2>1. By(S \cup {x}, v) = By(S, v) BY <1>4 DEF By
  <2> QED BY <1>1, <1>4, <2>1 DEF At
<1> QED BY <1>3, <1>4

-----------------------------------------------------------------------------
(* Primitive changes of the market *)

LoanAdded(m, m2, node) ==
    /\ m2.asks = m.asks /\ m2.bids = m.bids /\ m2.order_seq = m.order_seq
    /\ m2.blocks = m.blocks /\ m2.free = m.free - 1
    /\ m2.nodes = m.nodes \cup {node} /\ m2.loan_seq = m.loan_seq + 1
    /\ \A t \in Traders :
          /\ m2.seats[t].claimed = m.seats[t].claimed
          /\ m2.seats[t].withdrawable = m.seats[t].withdrawable
          /\ m2.seats[t].encumbered = m.seats[t].encumbered
          /\ m2.seats[t].open_borrow = m.seats[t].open_borrow + At(t, node.borrower, 1)
          /\ m2.seats[t].open_lend = m.seats[t].open_lend + At(t, node.lender, 1)

BidDropped(m, m2, bid) ==
    /\ m2.asks = m.asks /\ m2.nodes = m.nodes /\ m2.seats = m.seats
    /\ m2.order_seq = m.order_seq /\ m2.loan_seq = m.loan_seq
    /\ m2.blocks = m.blocks /\ m2.free = m.free + 1
    /\ m2.bids = m.bids \ {bid}

BidPut(m, m2, bid) ==
    /\ m2.asks = m.asks /\ m2.nodes = m.nodes /\ m2.seats = m.seats
    /\ m2.order_seq >= m.order_seq /\ m2.loan_seq = m.loan_seq
    /\ m2.blocks = m.blocks /\ m2.free = m.free - 1
    /\ m2.bids = m.bids \cup {bid}

\* The shares encumbered on seat b change by d; blocks may be added.
SharesMoved(m, m2, b, d) ==
    /\ m2.asks = m.asks /\ m2.bids = m.bids /\ m2.nodes = m.nodes
    /\ m2.order_seq >= m.order_seq /\ m2.loan_seq = m.loan_seq
    /\ m2.blocks - m2.free = m.blocks - m.free
    /\ \A t \in Traders :
          /\ m2.seats[t].claimed = m.seats[t].claimed
          /\ m2.seats[t].encumbered = m.seats[t].encumbered + At(t, b, d)
          /\ m2.seats[t].open_borrow = m.seats[t].open_borrow
          /\ m2.seats[t].open_lend = m.seats[t].open_lend

\* The sets of a book are finite, so what is counted or summed over them is a number.
LEMMA BookSets ==
    ASSUME NEW mode, NEW m, NEW L, NEW b, NEW n, Book(m, L, b, n, mode)
    PROVE  /\ BidSet(m.bids) /\ LoanSet(m.nodes) /\ LoanSet(m.nodes \cup L)
           /\ \A c : Due(m, L, c) \in Nat
           /\ Cardinality(m.bids) \in Nat /\ Cardinality(m.asks) \in Nat
           /\ Cardinality(m.nodes) \in Nat /\ Cardinality(Claimed(m)) \in Nat
<1>1. BidSet(m.bids) BY DEF Book, BidSet, OrdersOK, Markets
<1>2. IsFiniteSet(m.nodes \cup L) BY FS_Union DEF Book, LoansOK
<1>3. LoanSet(m.nodes \cup L) BY <1>2 DEF Book, LoanSet, LoansOK, Markets
<1>4. LoanSet(m.nodes) BY <1>3 DEF LoanSet, Book, LoansOK
<1>5. ASSUME NEW c PROVE Due(m, L, c) \in Nat
  <2>1. Sum(By(m.bids, c), BidShares) \in Nat BY <1>1, BidSums
  <2>2. Sum(LoansBy(m.nodes \cup L, c), ShareOf) \in Nat BY <1>3, LoanSums
  <2> QED BY <2>1, <2>2 DEF Due
<1>6. IsFiniteSet(m.asks) BY DEF Book, OrdersOK
<1>7. IsFiniteSet(Claimed(m))
  <2>1. IsFiniteSet(Traders) BY FS_Union, BookAssumption DEF Traders
  <2> QED BY <2>1, FS_Subset DEF Claimed
<1> QED BY <1>1, <1>3, <1>4, <1>5, <1>6, <1>7, FS_CardinalityType DEF BidSet, LoanSet

\* A queued loan takes over shares that were in flight, but for one rounded share.
LEMMA LoanKeepsBook ==
    ASSUME NEW mode, NEW m, NEW m2 \in Markets, NEW L, NEW b \in Borrowers, NEW n \in Int,
           NEW k \in Int,
           NEW node \in MatchedLoan,
           Book(m, L, b, n, mode), LoanAdded(m, m2, node),
           node.borrower = b, node.snapshot > 0, node.snapshot <= world.asv, node.seq = m.loan_seq,
           n - LoanShares(node) - 1 <= k, k <= n - LoanShares(node)
    PROVE  Book(m2, L, b, k, mode)
<1> DEFINE A == m.nodes \cup L
<1>1. /\ LoanSet(A) /\ LoanSet(m.nodes) /\ \A c : Due(m, L, c) \in Nat
      /\ Cardinality(m.nodes) \in Nat
  BY BookSets, Zenon
<1>2. node \notin A /\ node \notin m.nodes BY DEF Book, LoansOK, Markets
<1>3. m2.nodes \cup L = A \cup {node} BY DEF LoanAdded
<1> HIDE DEF A
<1>4. OrdersOK(m2) BY DEF Book, OrdersOK, LoanAdded
<1>5. LoansOK(m2, L)
  <2>1. IsFiniteSet(m2.nodes)
    <3>1. IsFiniteSet(m.nodes) BY <1>1 DEF LoanSet
    <3>2. IsFiniteSet(m.nodes \cup {node}) BY <3>1, FS_AddElement, Zenon
    <3>3. m2.nodes = m.nodes \cup {node} BY DEF LoanAdded
    <3> QED BY <3>2, <3>3, Zenon
  <2>2. m2.nodes \cap L = {} BY <1>2 DEF A, LoanAdded, Book, LoansOK
  <2>3. \A l \in A : /\ l.seq < m.loan_seq /\ l.snapshot > 0 /\ l.snapshot <= world.asv
                     /\ l.seq \in Nat
    BY <1>1 DEF A, Book, LoansOK, LoanSet, MatchedLoan
  <2>4. \A l \in A \cup {node} :
          l.seq < m2.loan_seq /\ l.snapshot > 0 /\ l.snapshot <= world.asv
    BY <2>3 DEF LoanAdded, Markets, MatchedLoan
  <2>5. \A l1, l2 \in A \cup {node} : l1.seq = l2.seq => l1 = l2
    BY <2>3 DEF A, Book, LoansOK
  <2> QED BY <1>3, <2>1, <2>2, <2>4, <2>5 DEF Book, LoansOK
<1>6. CountsOK(m2, L, mode)
  <2>1. ASSUME NEW t
        PROVE  /\ Cardinality(LoansBy(A \cup {node}, t))
                    = Cardinality(LoansBy(A, t)) + At(t, node.borrower, 1)
               /\ Cardinality(LentBy(A \cup {node}, t))
                    = Cardinality(LentBy(A, t)) + At(t, node.lender, 1)
               /\ Cardinality(LentBy(A, t)) \in Nat
    BY <1>1, <1>2, LoanAdds, LoanSums
  <2>2. ASSUME mode = "Exact", NEW c \in Borrowers
        PROVE  m2.seats[c].open_borrow = Cardinality(LoansBy(m2.nodes \cup L, c))
    <3>1. m2.seats[c].open_borrow = m.seats[c].open_borrow + At(c, node.borrower, 1)
      BY DEF LoanAdded, Traders
    <3>2. m.seats[c].open_borrow = Cardinality(LoansBy(A, c)) BY <2>2 DEF Book, CountsOK, A
    <3> QED BY <1>3, <2>1, <3>1, <3>2, Zenon
  <2>3. ASSUME NEW v \in SubVaults
        PROVE  m2.seats[v].open_lend =
                 Cardinality(By(m2.asks, v)) + Cardinality(LentBy(m2.nodes \cup L, v))
    <3>1. m2.seats[v].open_lend = m.seats[v].open_lend + At(v, node.lender, 1)
      BY DEF LoanAdded, Traders
    <3>2. m.seats[v].open_lend = Cardinality(By(m.asks, v)) + Cardinality(LentBy(A, v))
      BY DEF Book, CountsOK, A
    <3>3. Cardinality(By(m.asks, v)) \in Nat
      BY FS_Subset, FS_CardinalityType DEF By, Book, OrdersOK
    <3>4. At(v, node.lender, 1) \in Nat BY DEF At
    <3>5. m2.asks = m.asks BY DEF LoanAdded
    <3>6. Cardinality(LentBy(A, v)) \in Nat BY <2>1
    <3>7. (Cardinality(By(m.asks, v)) + Cardinality(LentBy(A, v))) + At(v, node.lender, 1)
            = Cardinality(By(m.asks, v)) + (Cardinality(LentBy(A, v)) + At(v, node.lender, 1))
      BY <3>3, <3>4, <3>6
    <3> QED BY <1>3, <2>1, <3>1, <3>2, <3>5, <3>7, Zenon
  <2> QED BY <2>2, <2>3 DEF CountsOK
<1>7. BlocksOK(m2)
  <2>1. Cardinality(m.nodes \cup {node}) = Cardinality(m.nodes) + 1
    BY <1>1, <1>2, CardAdd DEF LoanSet
  <2>2. Claimed(m2) = Claimed(m) BY DEF Claimed, LoanAdded
  <2>3. Cardinality(m.bids) \in Nat /\ Cardinality(m.asks) \in Nat
            /\ Cardinality(Claimed(m)) \in Nat
    BY BookSets, Zenon
  <2>4. m.blocks = m.free + Cardinality(Claimed(m)) + Cardinality(m.asks)
                     + Cardinality(m.bids) + Cardinality(m.nodes)
    BY DEF Book, BlocksOK
  <2>5. m.free \in Nat BY DEF Book, Markets
  <2>6. m.blocks = (m.free - 1) + Cardinality(Claimed(m)) + Cardinality(m.asks)
                     + Cardinality(m.bids) + (Cardinality(m.nodes) + 1)
    BY <1>1, <2>3, <2>4, <2>5
  <2> QED BY <2>1, <2>2, <2>6, Zenon DEF BlocksOK, LoanAdded
<1>8. EncumberedOK(m2, L, b, k, mode)
  <2> SUFFICES ASSUME NEW c \in Traders
               PROVE  /\ Due(m2, L, c) + At(c, b, k) <= m2.seats[c].encumbered
                      /\ mode = "Exact" =>
                            m2.seats[c].encumbered <= Due(m2, L, c) + At(c, b, k) + m2.loan_seq
    BY DEF EncumberedOK
  <2>1. Sum(LoansBy(A \cup {node}, c), ShareOf)
          = Sum(LoansBy(A, c), ShareOf) + At(c, b, LoanShares(node))
    BY <1>1, <1>2, LoanAdds
  <2>2. Sum(LoansBy(A, c), ShareOf) \in Nat BY <1>1, LoanSums
  <2>3. Sum(By(m.bids, c), BidShares) \in Nat BY BookSets, BidSums
  <2>4. LoanShares(node) \in Nat BY LoanSharesTyped
  <2>5. Due(m2, L, c) = Due(m, L, c) + At(c, b, LoanShares(node))
    <3>1. m2.bids = m.bids BY DEF LoanAdded
    <3>2. At(c, b, LoanShares(node)) \in Nat BY <2>4 DEF At
    <3>3. Due(m2, L, c) = Sum(By(m.bids, c), BidShares) + Sum(LoansBy(A \cup {node}, c), ShareOf)
      BY <1>3, <3>1, Zenon DEF Due
    <3>4. Due(m, L, c) = Sum(By(m.bids, c), BidShares) + Sum(LoansBy(A, c), ShareOf)
      BY DEF Due, A
    <3> QED BY <2>1, <2>2, <2>3, <3>2, <3>3, <3>4
  <2>6. /\ Due(m, L, c) + At(c, b, n) <= m.seats[c].encumbered
        /\ mode = "Exact" => m.seats[c].encumbered <= Due(m, L, c) + At(c, b, n) + m.loan_seq
        /\ m2.seats[c].encumbered = m.seats[c].encumbered
        /\ m.seats[c].encumbered \in Int
        /\ m2.loan_seq = m.loan_seq + 1 /\ m.loan_seq \in Nat
    BY DEF Book, EncumberedOK, LoanAdded, Traders, Markets, Seat
  <2>7. Due(m, L, c) \in Nat BY <1>1
  <2> QED BY <2>4, <2>5, <2>6, <2>7 DEF At
<1> QED BY <1>4, <1>5, <1>6, <1>7, <1>8 DEF Book

\* What a change that leaves loans and counters alone preserves by itself.
LEMMA LoansUntouched ==
    ASSUME NEW mode, NEW m, NEW m2, NEW L, LoansOK(m, L), CountsOK(m, L, mode),
           m2.nodes = m.nodes, m2.asks = m.asks, m2.loan_seq = m.loan_seq,
           \A t \in Traders : /\ m2.seats[t].open_borrow = m.seats[t].open_borrow
                              /\ m2.seats[t].open_lend = m.seats[t].open_lend
    PROVE  LoansOK(m2, L) /\ CountsOK(m2, L, mode)
<1>1. LoansOK(m2, L) BY DEF LoansOK
<1>2. ASSUME mode = "Exact", NEW b \in Borrowers
      PROVE  m2.seats[b].open_borrow = Cardinality(LoansBy(m2.nodes \cup L, b))
  <2>1. m.seats[b].open_borrow = Cardinality(LoansBy(m.nodes \cup L, b)) BY <1>2 DEF CountsOK
  <2> QED BY <2>1, Zenon DEF Traders
<1>3. ASSUME NEW v \in SubVaults
      PROVE  m2.seats[v].open_lend =
               Cardinality(By(m2.asks, v)) + Cardinality(LentBy(m2.nodes \cup L, v))
  <2>1. m.seats[v].open_lend =
          Cardinality(By(m.asks, v)) + Cardinality(LentBy(m.nodes \cup L, v))
    BY DEF CountsOK
  <2> QED BY <2>1, Zenon DEF Traders
<1> QED BY <1>1, <1>2, <1>3 DEF CountsOK

\* A bid that leaves the book puts its shares in flight.
LEMMA DropKeepsBook ==
    ASSUME NEW mode, NEW m, NEW m2 \in Markets, NEW L, NEW b \in Borrowers, NEW n \in Int,
           Book(m, L, b, n, mode), NEW bid \in m.bids, bid.trader = b, BidDropped(m, m2, bid)
    PROVE  Book(m2, L, b, n + OrderShares(bid), mode)
<1>1. /\ BidSet(m.bids) /\ \A c : Due(m, L, c) \in Nat
      /\ Cardinality(m.bids) \in Nat /\ Cardinality(m.asks) \in Nat
      /\ Cardinality(m.nodes) \in Nat /\ Cardinality(Claimed(m)) \in Nat
      /\ LoanSet(m.nodes \cup L)
  BY BookSets, Zenon
<1>2. PICK B : B = m.bids \ {bid} OBVIOUS
<1>3. /\ m2.bids = B /\ bid \notin B /\ B \cup {bid} = m.bids
      /\ bid \in BidOrder /\ bid.snapshot > 0
  BY <1>1, <1>2 DEF BidDropped, BidSet
<1>4. /\ IsFiniteSet(B) /\ Cardinality(B) \in Nat /\ Cardinality(m.bids) = Cardinality(B) + 1
  BY <1>1, <1>2, CardRemove DEF BidSet
<1>5. BidSet(B) BY <1>1, <1>2, <1>4 DEF BidSet
<1>6. OrdersOK(m2) BY <1>2, <1>3, <1>4 DEF Book, OrdersOK, BidDropped
<1>7. LoansOK(m2, L) /\ CountsOK(m2, L, mode) BY LoansUntouched DEF Book, BidDropped
<1>8. BlocksOK(m2)
  <2>1. Claimed(m2) = Claimed(m) BY DEF Claimed, BidDropped
  <2>2. m.blocks = m.free + Cardinality(Claimed(m)) + Cardinality(m.asks)
                     + Cardinality(m.bids) + Cardinality(m.nodes)
    BY DEF Book, BlocksOK
  <2>3. m.free \in Nat BY DEF Book, Markets
  <2>4. /\ Cardinality(m.asks) \in Nat /\ Cardinality(m.nodes) \in Nat
        /\ Cardinality(Claimed(m)) \in Nat
    BY BookSets, Zenon
  <2>5. m.blocks = (m.free + 1) + Cardinality(Claimed(m)) + Cardinality(m.asks)
                     + Cardinality(B) + Cardinality(m.nodes)
    BY <1>1, <1>4, <2>2, <2>3, <2>4
  <2> QED BY <1>3, <2>1, <2>5, Zenon DEF BlocksOK, BidDropped
<1>9. EncumberedOK(m2, L, b, n + OrderShares(bid), mode)
  <2> SUFFICES ASSUME NEW c \in Traders
               PROVE  /\ Due(m2, L, c) + At(c, b, n + OrderShares(bid)) <= m2.seats[c].encumbered
                      /\ mode = "Exact" => m2.seats[c].encumbered
                           <= Due(m2, L, c) + At(c, b, n + OrderShares(bid)) + m2.loan_seq
    BY DEF EncumberedOK
  <2>1. Sum(By(m.bids, c), BidShares)
          = Sum(By(B, c), BidShares) + At(c, b, OrderShares(bid))
    <3>1. Sum(By(B \cup {bid}, c), BidShares)
            = Sum(By(B, c), BidShares) + At(c, bid.trader, OrderShares(bid))
      BY <1>3, <1>5, BidAdds
    <3> QED BY <1>3, <3>1, Zenon
  <2>2. Sum(By(B, c), BidShares) \in Nat BY <1>5, BidSums
  <2>3. Sum(LoansBy(m.nodes \cup L, c), ShareOf) \in Nat BY <1>1, LoanSums
  <2>4. OrderShares(bid) \in Nat BY <1>3, OrderSharesTyped
  <2>5. Due(m, L, c) = Due(m2, L, c) + At(c, b, OrderShares(bid)) /\ Due(m2, L, c) \in Nat
    <3>1. At(c, b, OrderShares(bid)) \in Nat BY <2>4 DEF At
    <3>2. Due(m2, L, c) = Sum(By(B, c), BidShares) + Sum(LoansBy(m.nodes \cup L, c), ShareOf)
      BY <1>3, Zenon DEF Due, BidDropped
    <3>3. Due(m, L, c) = Sum(By(m.bids, c), BidShares) + Sum(LoansBy(m.nodes \cup L, c), ShareOf)
      BY DEF Due
    <3> QED BY <2>1, <2>2, <2>3, <3>1, <3>2, <3>3
  <2>6. /\ Due(m, L, c) + At(c, b, n) <= m.seats[c].encumbered
        /\ mode = "Exact" => m.seats[c].encumbered <= Due(m, L, c) + At(c, b, n) + m.loan_seq
        /\ m2.seats[c].encumbered = m.seats[c].encumbered
        /\ m.seats[c].encumbered \in Int
        /\ m2.loan_seq = m.loan_seq /\ m.loan_seq \in Nat
    BY DEF Book, EncumberedOK, BidDropped, Traders, Markets, Seat
  <2> QED BY <2>4, <2>5, <2>6 DEF At
<1> QED BY <1>6, <1>7, <1>8, <1>9 DEF Book

\* A bid that enters the book takes its shares out of flight.
LEMMA PutKeepsBook ==
    ASSUME NEW mode, NEW m, NEW m2 \in Markets, NEW L, NEW b \in Borrowers, NEW n \in Int,
           NEW bid, Book(m, L, b, n, mode), bid.trader = b, bid.snapshot > 0,
           bid.snapshot <= world.asv, BidPut(m, m2, bid), bid.seq < m2.order_seq,
           \A o \in m.bids \cup m.asks : o.seq # bid.seq
    PROVE  Book(m2, L, b, n - OrderShares(bid), mode)
<1>1. /\ BidSet(m.bids) /\ \A c : Due(m, L, c) \in Nat
      /\ Cardinality(m.bids) \in Nat /\ Cardinality(m.asks) \in Nat
      /\ Cardinality(m.nodes) \in Nat /\ Cardinality(Claimed(m)) \in Nat
      /\ LoanSet(m.nodes \cup L)
  BY BookSets, Zenon
<1>2. PICK B : B = m.bids OBVIOUS
<1>3. m2.bids = B \cup {bid} /\ bid \notin B /\ bid \in BidOrder /\ BidSet(B)
  BY <1>1, <1>2 DEF BidPut, Markets
<1>4. /\ IsFiniteSet(B \cup {bid}) /\ Cardinality(B) \in Nat
      /\ Cardinality(B \cup {bid}) = Cardinality(B) + 1
  BY <1>1, <1>3, CardAdd DEF BidSet
<1>6. OrdersOK(m2)
  <2>0. m2.asks = m.asks BY DEF BidPut
  <2>1. IsFiniteSet(m2.bids) /\ IsFiniteSet(m2.asks)
    BY <1>3, <1>4, <2>0, Zenon DEF Book, OrdersOK
  <2>2. \A o \in B \cup m.asks : o.seq \in Nat /\ o.seq < m.order_seq
    BY <1>2 DEF Book, OrdersOK, Markets, BidOrder, AskOrder
  <2>3. m.order_seq \in Nat /\ m2.order_seq \in Nat /\ m2.order_seq >= m.order_seq
    BY DEF Book, Markets, BidPut
  <2>4. \A o \in m2.bids \cup m2.asks : o.seq < m2.order_seq
    BY <1>3, <2>0, <2>2, <2>3
  <2>5. \A o1, o2 \in m2.bids \cup m2.asks : o1.seq = o2.seq => o1 = o2
    BY <1>2, <1>3, <2>0 DEF Book, OrdersOK
  <2>6. \A o \in m2.bids : o.snapshot > 0 /\ o.snapshot <= world.asv
    BY <1>2, <1>3 DEF BidSet, Book, OrdersOK
  <2> QED BY <2>1, <2>4, <2>5, <2>6 DEF OrdersOK
<1>7. LoansOK(m2, L) /\ CountsOK(m2, L, mode) BY LoansUntouched DEF Book, BidPut
<1>8. BlocksOK(m2)
  <2>1. Claimed(m2) = Claimed(m) BY DEF Claimed, BidPut
  <2> QED BY <1>1, <1>2, <1>3, <1>4, <2>1 DEF Book, BlocksOK, BidPut, Markets
<1>9. EncumberedOK(m2, L, b, n - OrderShares(bid), mode)
  <2> SUFFICES ASSUME NEW c \in Traders
               PROVE  /\ Due(m2, L, c) + At(c, b, n - OrderShares(bid)) <= m2.seats[c].encumbered
                      /\ mode = "Exact" => m2.seats[c].encumbered
                           <= Due(m2, L, c) + At(c, b, n - OrderShares(bid)) + m2.loan_seq
    BY DEF EncumberedOK
  <2>1. Sum(By(B \cup {bid}, c), BidShares)
          = Sum(By(B, c), BidShares) + At(c, b, OrderShares(bid))
    BY <1>3, BidAdds
  <2>2. Sum(By(B, c), BidShares) \in Nat BY <1>3, BidSums
  <2>3. Sum(LoansBy(m.nodes \cup L, c), ShareOf) \in Nat BY <1>1, LoanSums
  <2>4. OrderShares(bid) \in Nat BY <1>3, OrderSharesTyped
  <2>5. Due(m2, L, c) = Due(m, L, c) + At(c, b, OrderShares(bid)) /\ Due(m, L, c) \in Nat
    <3>1. At(c, b, OrderShares(bid)) \in Nat BY <2>4 DEF At
    <3>2. Due(m2, L, c) = Sum(By(B \cup {bid}, c), BidShares)
                            + Sum(LoansBy(m.nodes \cup L, c), ShareOf)
      BY <1>3, Zenon DEF Due, BidPut
    <3>3. Due(m, L, c) = Sum(By(B, c), BidShares) + Sum(LoansBy(m.nodes \cup L, c), ShareOf)
      BY <1>2, Zenon DEF Due
    <3> QED BY <2>1, <2>2, <2>3, <3>1, <3>2, <3>3
  <2>6. /\ Due(m, L, c) + At(c, b, n) <= m.seats[c].encumbered
        /\ mode = "Exact" => m.seats[c].encumbered <= Due(m, L, c) + At(c, b, n) + m.loan_seq
        /\ m2.seats[c].encumbered = m.seats[c].encumbered
        /\ m.seats[c].encumbered \in Int
        /\ m2.loan_seq = m.loan_seq /\ m.loan_seq \in Nat
    BY DEF Book, EncumberedOK, BidPut, Traders, Markets, Seat
  <2> QED BY <2>4, <2>5, <2>6 DEF At
<1> QED BY <1>6, <1>7, <1>8, <1>9 DEF Book

\* Shares that move between the balances of a seat are in flight as well.
LEMMA MoveKeepsBook ==
    ASSUME NEW mode, NEW m, NEW m2 \in Markets, NEW L, NEW b, NEW n \in Int, NEW d \in Int,
           Book(m, L, b, n, mode), SharesMoved(m, m2, b, d)
    PROVE  Book(m2, L, b, n + d, mode)
<1>1. /\ \A c : Due(m, L, c) \in Nat
      /\ Cardinality(m.bids) \in Nat /\ Cardinality(m.asks) \in Nat
      /\ Cardinality(m.nodes) \in Nat /\ Cardinality(Claimed(m)) \in Nat
  BY BookSets, Zenon
<1>2. OrdersOK(m2)
  <2>1. \A o \in m.bids \cup m.asks : o.seq \in Nat /\ o.seq < m.order_seq
    BY DEF Book, OrdersOK, Markets, BidOrder, AskOrder
  <2>2. m.order_seq \in Nat /\ m2.order_seq \in Nat /\ m2.order_seq >= m.order_seq
    BY DEF Book, Markets, SharesMoved
  <2>3. \A o \in m.bids \cup m.asks : o.seq < m2.order_seq BY <2>1, <2>2
  <2> QED BY <2>3, Zenon DEF Book, OrdersOK, SharesMoved
<1>3. LoansOK(m2, L) /\ CountsOK(m2, L, mode) BY LoansUntouched DEF Book, SharesMoved
<1>4. BlocksOK(m2)
  <2>1. Claimed(m2) = Claimed(m) BY DEF Claimed, SharesMoved
  <2>2. /\ m2.asks = m.asks /\ m2.bids = m.bids /\ m2.nodes = m.nodes
        /\ m2.blocks - m2.free = m.blocks - m.free
    BY DEF SharesMoved
  <2>3. m.blocks = m.free + Cardinality(Claimed(m)) + Cardinality(m.asks)
                     + Cardinality(m.bids) + Cardinality(m.nodes)
    BY DEF Book, BlocksOK
  <2>4. {m.blocks, m.free, m2.blocks, m2.free} \subseteq Nat BY DEF Book, Markets
  <2>5. m2.blocks = m2.free + Cardinality(Claimed(m)) + Cardinality(m.asks)
                      + Cardinality(m.bids) + Cardinality(m.nodes)
    BY <1>1, <2>2, <2>3, <2>4
  <2> QED BY <2>1, <2>2, <2>5, Zenon DEF BlocksOK
<1>5. EncumberedOK(m2, L, b, n + d, mode)
  <2> SUFFICES ASSUME NEW c \in Traders
               PROVE  /\ Due(m2, L, c) + At(c, b, n + d) <= m2.seats[c].encumbered
                      /\ mode = "Exact" =>
                            m2.seats[c].encumbered <= Due(m2, L, c) + At(c, b, n + d) + m2.loan_seq
    BY DEF EncumberedOK
  <2>1. Due(m2, L, c) = Due(m, L, c) BY Zenon DEF Due, SharesMoved
  <2>2. /\ Due(m, L, c) + At(c, b, n) <= m.seats[c].encumbered
        /\ mode = "Exact" => m.seats[c].encumbered <= Due(m, L, c) + At(c, b, n) + m.loan_seq
        /\ m2.seats[c].encumbered = m.seats[c].encumbered + At(c, b, d)
        /\ m.seats[c].encumbered \in Int
        /\ m2.loan_seq = m.loan_seq /\ m.loan_seq \in Nat
    BY DEF Book, EncumberedOK, SharesMoved, Traders, Markets, Seat
  <2> QED BY <1>1, <2>1, <2>2 DEF At
<1> QED BY <1>2, <1>3, <1>4, <1>5 DEF Book

\* With nothing in flight it does not matter where.
LEMMA Refocus ==
    ASSUME NEW mode, NEW m, NEW L, NEW b, NEW c, Book(m, L, b, 0, mode)
    PROVE  Book(m, L, c, 0, mode)
<1>1. \A d : At(d, b, 0) = At(d, c, 0) BY DEF At
<1> QED BY <1>1, Zenon DEF Book, EncumberedOK

-----------------------------------------------------------------------------
(* The order of a walk *)

Ranked(S) ==
    /\ IsFiniteSet(S)
    /\ \A o \in S : o.rate \in Nat /\ o.seq \in Nat
    /\ \A o1, o2 \in S : o1.seq = o2.seq => o1 = o2

\* Price-time priority orders any two orders, and is transitive.
LEMMA BetterTotal ==
    ASSUME NEW o1, NEW o2, NEW o3, NEW is_bid \in BOOLEAN,
           o1.rate \in Nat, o1.seq \in Nat, o2.rate \in Nat, o2.seq \in Nat,
           o3.rate \in Nat, o3.seq \in Nat
    PROVE  /\ o1.seq # o2.seq => Better(o1, o2, is_bid) \/ Better(o2, o1, is_bid)
           /\ Better(o1, o2, is_bid) /\ Better(o2, o3, is_bid) => Better(o1, o3, is_bid)
<1>1. CASE is_bid BY <1>1 DEF Better
<1>2. CASE ~is_bid BY <1>2 DEF Better
<1> QED BY <1>1, <1>2

\* o is the worst of the orders s.
IsLast(o, s, is_bid) == \A p \in s \ {o} : Better(p, o, is_bid)

\* Every part of a book has an order that a walk comes to last.
LEMMA WorstIn ==
    ASSUME NEW S, Ranked(S), NEW is_bid \in BOOLEAN
    PROVE  \A s \in SUBSET S : s # {} =>
              Worst(s, is_bid) \in s /\ IsLast(Worst(s, is_bid), s, is_bid)
<1> DEFINE Last(o, s) == \A p \in s \ {o} : Better(p, o, is_bid)
           T == {s \in SUBSET S : s = {} \/ \E o \in s : Last(o, s)}
<1>1. {} \in T OBVIOUS
<1>2. ASSUME NEW s \in SUBSET S, s # {} PROVE \E x \in s : (s \ {x} \in T => s \in T)
  <2>1. PICK x \in s : TRUE BY <1>2
  <2> SUFFICES ASSUME s \ {x} \in T PROVE s \in T BY <2>1
  <2>2. CASE s \ {x} = {}
    <3>1. Last(x, s) BY <2>2
    <3> QED BY <2>1, <3>1
  <2>3. CASE s \ {x} # {}
    <3>1. PICK o \in s \ {x} : Last(o, s \ {x}) BY <2>3
    <3>2. o.seq # x.seq BY <2>1, <3>1 DEF Ranked
    <3>3. \A p \in s : p.rate \in Nat /\ p.seq \in Nat BY DEF Ranked
    <3>4. Better(x, o, is_bid) \/ Better(o, x, is_bid)
      BY <2>1, <3>1, <3>2, <3>3, BetterTotal
    <3>5. CASE Better(x, o, is_bid)
      <4>1. Last(o, s) BY <3>1, <3>5
      <4> QED BY <3>1, <4>1
    <3>6. CASE Better(o, x, is_bid)
      <4>1. ASSUME NEW p \in s \ {x} PROVE Better(p, x, is_bid)
        <5>1. CASE p = o BY <3>6, <5>1
        <5>2. CASE p # o
          <6>1. Better(p, o, is_bid) BY <3>1, <4>1, <5>2
          <6> QED BY <2>1, <3>1, <3>3, <3>6, <4>1, <6>1, BetterTotal
        <5> QED BY <5>1, <5>2
      <4>2. Last(x, s) BY <4>1
      <4> QED BY <2>1, <4>2
    <3> QED BY <3>4, <3>5, <3>6
  <2> QED BY <2>2, <2>3
<1>3. \A s \in SUBSET S : s \in T
  <2> HIDE DEF T
  <2> QED BY <1>1, <1>2, SubsetInduction, Zenon DEF Ranked
<1> SUFFICES ASSUME NEW s \in SUBSET S, s # {}
             PROVE  Worst(s, is_bid) \in s /\ IsLast(Worst(s, is_bid), s, is_bid)
  OBVIOUS
<1>4. \E o \in s : \A p \in s \ {o} : Better(p, o, is_bid) BY <1>3
<1> QED BY <1>4, Zenon DEF Worst, IsLast

-----------------------------------------------------------------------------
(* One fill *)

\* What queueing a loan writes.
LEMMA QueueShape ==
    ASSUME NEW m \in Markets, NEW l \in MatchedLoan, NEW m2, m2 = QueueLoan(m, l)
    PROVE  /\ m2 \in Markets
           /\ m2.asks = m.asks /\ m2.bids = m.bids /\ m2.order_seq = m.order_seq
           /\ m2.blocks = m.blocks /\ m2.free = m.free
           /\ m2.nodes = m.nodes \cup {l} /\ m2.loan_seq = m.loan_seq + 1
           /\ \A t \in Traders :
                /\ m2.seats[t].claimed = m.seats[t].claimed
                /\ m2.seats[t].withdrawable = m.seats[t].withdrawable
                /\ m2.seats[t].encumbered = m.seats[t].encumbered
                /\ m2.seats[t].open_borrow = m.seats[t].open_borrow + At(t, l.borrower, 1)
                /\ m2.seats[t].open_lend = m.seats[t].open_lend + At(t, l.lender, 1)
<1>1. PICK seats : seats = CountLoan(m.seats, l) OBVIOUS
<1>2. PICK seen : seen = m.seats OBVIOUS
<1>3. seen \in [Traders -> Seat] BY <1>2 DEF Markets
<1>4. PICK b, v : b = l.borrower /\ v = l.lender OBVIOUS
<1>5. b \in Traders /\ (v # NIL => v \in Traders) /\ b # v
  <2>1. l.borrower \in Borrowers /\ l.lender \in SubVaults \cup {NIL} BY DEF MatchedLoan
  <2>2. NIL \notin Borrowers /\ Borrowers \cap SubVaults = {} BY BookAssumption
  <2> QED BY <1>4, <2>1, <2>2 DEF Traders
<1>6. seats = LET borrowed == [seen EXCEPT ![b].open_borrow = @ + 1]
              IN  IF v = NIL THEN borrowed ELSE [borrowed EXCEPT ![v].open_lend = @ + 1]
  BY <1>1, <1>2, <1>4, Zenon DEF CountLoan
<1>7. PICK borrowed : borrowed = [seen EXCEPT ![b].open_borrow = @ + 1] OBVIOUS
<1>8. /\ borrowed \in [Traders -> Seat]
      /\ \A t \in Traders :
            /\ borrowed[t].claimed = seen[t].claimed
            /\ borrowed[t].withdrawable = seen[t].withdrawable
            /\ borrowed[t].encumbered = seen[t].encumbered
            /\ borrowed[t].open_borrow = seen[t].open_borrow + At(t, b, 1)
            /\ borrowed[t].open_lend = seen[t].open_lend
  BY <1>3, <1>5, <1>7 DEF Seat, At
<1>9. /\ seats \in [Traders -> Seat]
      /\ \A t \in Traders :
            /\ seats[t].claimed = seen[t].claimed
            /\ seats[t].withdrawable = seen[t].withdrawable
            /\ seats[t].encumbered = seen[t].encumbered
            /\ seats[t].open_borrow = seen[t].open_borrow + At(t, b, 1)
            /\ seats[t].open_lend = seen[t].open_lend + At(t, v, 1)
  <2>1. CASE v = NIL
    <3>1. seats = borrowed BY <1>6, <1>7, <2>1, Zenon
    <3>2. v \notin Traders BY <2>1, BookAssumption DEF Traders
    <3>3. \A t \in Traders : seen[t].open_lend \in Nat BY <1>3 DEF Seat
    <3> QED BY <1>8, <3>1, <3>2, <3>3 DEF At
  <2>2. CASE v # NIL
    <3>1. seats = [borrowed EXCEPT ![v].open_lend = @ + 1] BY <1>6, <1>7, <2>2, Zenon
    <3>2. v \in Traders BY <1>5, <2>2
    <3> QED BY <1>8, <3>1, <3>2 DEF At, Seat
  <2> QED BY <2>1, <2>2
<1>10. PICK N, k : N = m.nodes \cup {l} /\ k = m.loan_seq + 1 OBVIOUS
<1>11. N \in SUBSET MatchedLoan /\ k \in Nat BY <1>10 DEF Markets
<1>12. m2 = [m EXCEPT !.nodes = N, !.loan_seq = k, !.seats = seats]
  BY <1>1, <1>10, Zenon DEF QueueLoan
<1>13. m2 \in Markets BY <1>9, <1>11, <1>12 DEF Markets
<1>14. /\ m2.asks = m.asks /\ m2.bids = m.bids /\ m2.order_seq = m.order_seq
       /\ m2.blocks = m.blocks /\ m2.free = m.free
       /\ m2.nodes = N /\ m2.loan_seq = k /\ m2.seats = seats
  BY <1>12 DEF Markets
<1> QED BY <1>2, <1>4, <1>9, <1>10, <1>13, <1>14

\* get_free_address takes one block, or aborts when none is free.
LEMMA FreeShape ==
    ASSUME NEW acc \in Accs, NEW r, r = get_free_address(acc)
    PROVE  /\ r \in Accs
           /\ r.aborted <=> acc.aborted \/ acc.market.free = 0
           /\ r.vault = acc.vault /\ r.principal = acc.principal
           /\ r.collateral = acc.collateral /\ r.stop = acc.stop /\ r.fills = acc.fills
           /\ r.market.asks = acc.market.asks /\ r.market.bids = acc.market.bids
           /\ r.market.nodes = acc.market.nodes /\ r.market.seats = acc.market.seats
           /\ r.market.order_seq = acc.market.order_seq
           /\ r.market.loan_seq = acc.market.loan_seq /\ r.market.blocks = acc.market.blocks
           /\ acc.market.free > 0 => r.market.free = acc.market.free - 1
<1>1. CASE acc.market.free = 0
  <2>1. r = [acc EXCEPT !.aborted = TRUE] BY <1>1 DEF get_free_address
  <2>2. r \in Accs BY <2>1 DEF Accs
  <2>3. /\ r.market = acc.market /\ r.vault = acc.vault /\ r.principal = acc.principal
        /\ r.collateral = acc.collateral /\ r.stop = acc.stop /\ r.fills = acc.fills
        /\ r.aborted = TRUE
    BY <2>1 DEF Accs
  <2> QED BY <1>1, <2>2, <2>3
<1>2. CASE acc.market.free # 0
  <2>1. PICK m \in Markets : m = acc.market BY DEF Accs
  <2>2. PICK f : f = m.free - 1 OBVIOUS
  <2>3. f \in Nat /\ m.free > 0 BY <1>2, <2>1, <2>2 DEF Markets
  <2>4. PICK m2 : m2 = [m EXCEPT !.free = f] OBVIOUS
  <2>5. r = [acc EXCEPT !.market = m2]
    BY <1>2, <2>1, <2>2, <2>4 DEF get_free_address, Accs
  <2>6. m2 \in Markets BY <2>3, <2>4 DEF Markets
  <2>7. r \in Accs BY <2>5, <2>6 DEF Accs
  <2>8. /\ r.market = m2 /\ r.vault = acc.vault /\ r.principal = acc.principal
        /\ r.collateral = acc.collateral /\ r.stop = acc.stop /\ r.fills = acc.fills
        /\ r.aborted = acc.aborted
    BY <2>5 DEF Accs
  <2>9. /\ m2.asks = m.asks /\ m2.bids = m.bids /\ m2.nodes = m.nodes /\ m2.seats = m.seats
        /\ m2.order_seq = m.order_seq /\ m2.loan_seq = m.loan_seq /\ m2.blocks = m.blocks
        /\ m2.free = f
    BY <2>4 DEF Markets
  <2> QED BY <1>2, <2>1, <2>2, <2>7, <2>8, <2>9
<1> QED BY <1>1, <1>2

Takers == [ borrower : Borrowers, collateral : Nat, rate : Nat, term : Nat, buffer : Nat,
            snapshot : Nat, matures : Nat ]

NodeOf(acc, ask, fill, taker) ==
    [ seq |-> acc.market.loan_seq, borrower |-> taker.borrower, lender |-> ask.trader,
      principal |-> fill, collateral |-> taker.collateral, term |-> taker.term,
      lender_rate |-> ask.rate,
      borrower_rate |-> borrower_rate_bps(taker.rate, ask.rate),
      origination_ltv |-> effective_origination_cap_bps(
                              acc.vault[ask.trader].policy.max_ltv, taker.buffer),
      snapshot |-> taker.snapshot, shares |-> 0, matures |-> taker.matures ]

\* What a policy holds.
LEMMA PolicyTyped ==
    ASSUME NEW p \in Policies
    PROVE  p.spread \in Nat /\ p.max_term \in Nat \ {0} /\ p.max_ltv \in Nat
<1>1. p \in [ spread : Nat, max_term : Nat \ {0}, max_ltv : 1..(BPS_PER_UNIT - 1) ]
  BY BookAssumption
<1> QED BY <1>1, ScaleAssumption

\* The loan that a fill queues is a MatchedLoan.
LEMMA NodeTyped ==
    ASSUME NEW acc \in Accs, NEW ask \in AskOrder, NEW fill \in Nat, NEW taker \in Takers
    PROVE  NodeOf(acc, ask, fill, taker) \in MatchedLoan
<1>1. acc.vault[ask.trader].policy \in Policies BY DEF Accs, Lenders, AskOrder
<1>2. acc.vault[ask.trader].policy.max_ltv \in Nat BY <1>1, PolicyTyped
<1>3. borrower_rate_bps(taker.rate, ask.rate) \in Nat
  BY BookAssumption DEF borrower_rate_bps, MaxOf, AskOrder, Takers
<1>4. effective_origination_cap_bps(acc.vault[ask.trader].policy.max_ltv, taker.buffer) \in Nat
  BY <1>2 DEF effective_origination_cap_bps, SatSub, Takers
<1> QED BY <1>3, <1>4 DEF NodeOf, MatchedLoan, Accs, Markets, AskOrder, Takers

\* What a fill writes.
LEMMA FillShape ==
    ASSUME NEW acc \in Accs, NEW ask \in AskOrder, NEW fill \in Nat, NEW taker \in Takers,
           NEW r, fill <= acc.vault[ask.trader].idle, r = Fill(acc, ask, fill, taker)
    PROVE  /\ r \in Accs
           /\ r.aborted <=> acc.aborted \/ ~RateFits(ask) \/ acc.market.free = 0
           /\ acc.market.free > 0 =>
                 LoanAdded(acc.market, r.market, NodeOf(acc, ask, fill, taker))
           /\ r.market.bids = acc.market.bids /\ r.market.asks = acc.market.asks
           /\ r.principal = acc.principal /\ r.collateral = acc.collateral
           /\ r.stop = acc.stop /\ r.fills = acc.fills + 1
           /\ r.market.loan_seq = acc.market.loan_seq + 1
           /\ r.vault = [acc.vault EXCEPT ![ask.trader].idle = @ - fill]
<1>1. PICK node \in MatchedLoan : node = NodeOf(acc, ask, fill, taker) BY NodeTyped
<1>2. PICK m \in Markets : m = acc.market BY DEF Accs
<1>3. PICK m2 : m2 = QueueLoan(m, node) OBVIOUS
<1>4. /\ m2 \in Markets
      /\ m2.asks = m.asks /\ m2.bids = m.bids /\ m2.order_seq = m.order_seq
      /\ m2.blocks = m.blocks /\ m2.free = m.free
      /\ m2.nodes = m.nodes \cup {node} /\ m2.loan_seq = m.loan_seq + 1
      /\ \A t \in Traders :
           /\ m2.seats[t].claimed = m.seats[t].claimed
           /\ m2.seats[t].withdrawable = m.seats[t].withdrawable
           /\ m2.seats[t].encumbered = m.seats[t].encumbered
           /\ m2.seats[t].open_borrow = m.seats[t].open_borrow + At(t, node.borrower, 1)
           /\ m2.seats[t].open_lend = m.seats[t].open_lend + At(t, node.lender, 1)
  BY <1>3, QueueShape
<1>5. PICK u : u = [acc.vault EXCEPT ![ask.trader].idle = @ - fill] OBVIOUS
<1>6. u \in Lenders BY <1>5 DEF Accs, Lenders, AskOrder
<1>7. PICK k : k = acc.fills + 1 OBVIOUS
<1>8. k \in Nat BY <1>7 DEF Accs
<1>a. PICK ab \in BOOLEAN : ab = (acc.aborted \/ ~RateFits(ask)) OBVIOUS
<1>9. PICK base :
         base = [acc EXCEPT !.vault = u, !.market = m2, !.fills = k, !.aborted = ab]
  OBVIOUS
<1>10. r = get_free_address(base)
  <2>1. r = get_free_address([acc EXCEPT !.vault[ask.trader].idle = @ - fill,
                                         !.market = QueueLoan(@, node), !.fills = @ + 1,
                                         !.aborted = @ \/ ~RateFits(ask)])
    BY <1>1, Zenon DEF Fill, NodeOf
  <2>2. [acc EXCEPT !.vault[ask.trader].idle = @ - fill,
                    !.market = QueueLoan(@, node), !.fills = @ + 1,
                    !.aborted = @ \/ ~RateFits(ask)] = base
    BY <1>2, <1>3, <1>5, <1>7, <1>a, <1>9, Zenon DEF Accs
  <2> QED BY <2>1, <2>2, Zenon
<1>11. base \in Accs BY <1>4, <1>6, <1>8, <1>a, <1>9 DEF Accs
<1>12. /\ base.market = m2 /\ base.vault = u /\ base.principal = acc.principal
       /\ base.collateral = acc.collateral /\ base.stop = acc.stop /\ base.fills = k
       /\ base.aborted = ab
  BY <1>9 DEF Accs
<1>13. /\ r \in Accs
       /\ r.aborted <=> base.aborted \/ base.market.free = 0
       /\ r.vault = base.vault /\ r.principal = base.principal
       /\ r.collateral = base.collateral /\ r.stop = base.stop /\ r.fills = base.fills
       /\ r.market.asks = base.market.asks /\ r.market.bids = base.market.bids
       /\ r.market.nodes = base.market.nodes /\ r.market.seats = base.market.seats
       /\ r.market.order_seq = base.market.order_seq
       /\ r.market.loan_seq = base.market.loan_seq /\ r.market.blocks = base.market.blocks
       /\ base.market.free > 0 => r.market.free = base.market.free - 1
  BY <1>10, <1>11, FreeShape
<1>14. m.free > 0 => LoanAdded(m, r.market, node)
  BY <1>4, <1>12, <1>13 DEF LoanAdded
<1>15. r.aborted <=> acc.aborted \/ ~RateFits(ask) \/ acc.market.free = 0
  BY <1>2, <1>4, <1>a, <1>12, <1>13, Zenon
<1> QED BY <1>1, <1>2, <1>4, <1>5, <1>7, <1>12, <1>13, <1>14, <1>15

\* A fill within the sub-vault's idle atoms leaves an accumulator.
LEMMA FillTyped ==
    ASSUME NEW acc \in Accs, NEW ask \in AskOrder, NEW fill \in Nat, NEW taker \in Takers,
           fill <= acc.vault[ask.trader].idle
    PROVE  Fill(acc, ask, fill, taker) \in Accs
  BY FillShape

-----------------------------------------------------------------------------
(* What every step of a walk that began with market m0 leaves true *)

\* The loans that borrow from the marginfi pool: they have no lender.
PoolOf(S) == {l \in S : l.lender = NIL}

\* Between the two markets only fixed loans were queued, each under a sequence of
\* its own.
FixedOnly(m0, m) ==
    /\ PoolOf(m.nodes) = PoolOf(m0.nodes)
    /\ m.loan_seq - Cardinality(m.nodes) = m0.loan_seq - Cardinality(m0.nodes)

\* Asks and seats stand, the seats' shares only change place, bids are those of m0
\* or what is left of them, and the loans queued since honour their lenders' terms.
Since(m0, a) ==
    /\ a.market.asks = m0.asks /\ a.market.order_seq = m0.order_seq
    /\ \A t \in Traders :
          a.market.seats[t].withdrawable + a.market.seats[t].encumbered
            = m0.seats[t].withdrawable + m0.seats[t].encumbered
    /\ \A v \in SubVaults : /\ a.vault[v].policy = vault[v].policy
                            /\ a.vault[v].sunset = vault[v].sunset
    /\ \A bid \in a.market.bids :
          \E old \in m0.bids : old.seq = bid.seq /\ old.trader = bid.trader
    /\ \A l \in a.market.nodes \ m0.nodes : l.lender # NIL => LoanHonoursTerms(l)
    /\ FixedOnly(m0, a.market)

\* The gates of a fill.
Gated(acc, ask, fill, taker) ==
    /\ fill > 0 /\ fill <= sub_vault_idle(acc.vault[ask.trader])
    /\ ask.rate >= world.apr
    /\ taker.borrower # Curator[ask.trader]
    /\ MeetsCap(fill, taker.collateral,
                effective_origination_cap_bps(acc.vault[ask.trader].policy.max_ltv, taker.buffer))

\* A sub-vault that is sunset has nothing idle.
LEMMA IdleTyped ==
    ASSUME NEW sub, sub \in [idle : Nat, sunset : BOOLEAN, policy : Policies]
    PROVE  /\ sub_vault_idle(sub) \in Nat /\ sub_vault_idle(sub) <= sub.idle
           /\ sub_vault_idle(sub) > 0 => ~sub.sunset
  BY DEF sub_vault_idle, SatSub, MARGINFI_ROUNDING_RESERVE_ATOMS

\* A gated fill honours the lender's terms.
LEMMA FillSince ==
    ASSUME NEW m0, NEW acc \in Accs, NEW ask \in AskOrder, NEW fill \in Nat, NEW taker \in Takers,
           NEW r, r = Fill(acc, ask, fill, taker), Gated(acc, ask, fill, taker),
           world \in Worlds, acc.market.free > 0, Since(m0, acc), LoansOK(acc.market, loans)
    PROVE  /\ r \in Accs /\ Since(m0, r)
           /\ r.aborted => acc.aborted \/ ~RateFits(ask)
           /\ LoanAdded(acc.market, r.market, NodeOf(acc, ask, fill, taker))
           /\ NodeOf(acc, ask, fill, taker) \in MatchedLoan
           /\ r.principal = acc.principal /\ r.collateral = acc.collateral
           /\ r.stop = acc.stop
<1>1. PICK v : v = ask.trader OBVIOUS
<1>2. v \in SubVaults /\ v # NIL BY <1>1, BookAssumption DEF AskOrder
<1>3. acc.vault[v] \in [idle : Nat, sunset : BOOLEAN, policy : Policies]
  BY <1>2 DEF Accs, Lenders
<1>4. fill <= acc.vault[v].idle /\ ~acc.vault[v].sunset
  <2>1. /\ sub_vault_idle(acc.vault[v]) \in Nat /\ sub_vault_idle(acc.vault[v]) <= acc.vault[v].idle
        /\ sub_vault_idle(acc.vault[v]) > 0 => ~acc.vault[v].sunset
    BY <1>3, IdleTyped
  <2>2. acc.vault[v].idle \in Nat BY <1>3
  <2>3. fill > 0 /\ fill <= sub_vault_idle(acc.vault[v]) BY <1>1 DEF Gated
  <2> QED BY <2>1, <2>2, <2>3
<1>5. /\ r \in Accs
      /\ r.aborted <=> acc.aborted \/ ~RateFits(ask) \/ acc.market.free = 0
      /\ acc.market.free > 0 =>
            LoanAdded(acc.market, r.market, NodeOf(acc, ask, fill, taker))
      /\ r.market.bids = acc.market.bids /\ r.market.asks = acc.market.asks
      /\ r.principal = acc.principal /\ r.collateral = acc.collateral
      /\ r.stop = acc.stop
      /\ r.vault = [acc.vault EXCEPT ![ask.trader].idle = @ - fill]
  BY <1>1, <1>4, FillShape
<1>6. PICK node : node = NodeOf(acc, ask, fill, taker) OBVIOUS
<1>7. node \in MatchedLoan BY <1>6, NodeTyped
<1>8. LoanAdded(acc.market, r.market, node) BY <1>5, <1>6
<1>9. r.aborted => acc.aborted \/ ~RateFits(ask)
  <2>1. acc.market.free # 0 BY DEF Accs, Markets
  <2> QED BY <1>5, <2>1, Zenon
<1>10. \A u \in SubVaults : /\ r.vault[u].policy = acc.vault[u].policy
                            /\ r.vault[u].sunset = acc.vault[u].sunset
  BY <1>1, <1>2, <1>5 DEF Accs, Lenders
<1>11. LoanHonoursTerms(node)
  <2>1. /\ node.lender = v /\ node.lender_rate = ask.rate /\ node.principal = fill
        /\ node.borrower = taker.borrower /\ node.collateral = taker.collateral
        /\ node.borrower_rate = borrower_rate_bps(taker.rate, ask.rate)
        /\ node.origination_ltv
             = effective_origination_cap_bps(acc.vault[v].policy.max_ltv, taker.buffer)
    BY <1>1, <1>6 DEF NodeOf
  <2>2. ~vault[v].sunset BY <1>2, <1>4 DEF Since
  <2>3. borrower_rate_bps(taker.rate, ask.rate) >= ask.rate + FeeFloorBps
    BY BookAssumption DEF borrower_rate_bps, MaxOf, AskOrder, Takers
  <2> QED BY <1>1, <2>1, <2>2, <2>3, Zenon DEF LoanHonoursTerms, Gated
<1>12. Since(m0, r)
  <2>1. r.market.asks = m0.asks /\ r.market.order_seq = m0.order_seq
    BY <1>8 DEF Since, LoanAdded
  <2>2. \A t \in Traders :
          r.market.seats[t].withdrawable + r.market.seats[t].encumbered
            = m0.seats[t].withdrawable + m0.seats[t].encumbered
    BY <1>8 DEF Since, LoanAdded
  <2>3. \A u \in SubVaults : /\ r.vault[u].policy = vault[u].policy
                             /\ r.vault[u].sunset = vault[u].sunset
    BY <1>10 DEF Since
  <2>4. \A bid \in r.market.bids :
          \E old \in m0.bids : old.seq = bid.seq /\ old.trader = bid.trader
    BY <1>5 DEF Since
  <2>5. \A l \in r.market.nodes \ m0.nodes : l.lender # NIL => LoanHonoursTerms(l)
    <3>1. r.market.nodes = acc.market.nodes \cup {node} BY <1>8 DEF LoanAdded
    <3> QED BY <1>11, <3>1 DEF Since
  <2>6. FixedOnly(m0, r.market)
    <3>1. r.market.nodes = acc.market.nodes \cup {node} BY <1>8 DEF LoanAdded
    <3>2. r.market.loan_seq = acc.market.loan_seq + 1 /\ acc.market.loan_seq \in Nat
      BY <1>8 DEF LoanAdded, Accs, Markets
    <3>3. node.lender # NIL /\ node.seq = acc.market.loan_seq
      BY <1>1, <1>2, <1>6 DEF NodeOf
    <3>4. node \notin acc.market.nodes /\ IsFiniteSet(acc.market.nodes)
      BY <3>2, <3>3 DEF LoansOK
    <3>5. /\ Cardinality(acc.market.nodes) \in Nat
          /\ Cardinality(acc.market.nodes \cup {node}) = Cardinality(acc.market.nodes) + 1
      BY <3>4, CardAdd
    <3>6. PoolOf(r.market.nodes) = PoolOf(acc.market.nodes) BY <3>1, <3>3 DEF PoolOf
    <3>7. r.market.loan_seq - Cardinality(r.market.nodes)
            = acc.market.loan_seq - Cardinality(acc.market.nodes)
      BY <3>1, <3>2, <3>5
    <3> QED BY <3>6, <3>7 DEF Since, FixedOnly
  <2> QED BY <2>1, <2>2, <2>3, <2>4, <2>5, <2>6 DEF Since
<1> QED BY <1>5, <1>6, <1>7, <1>8, <1>9, <1>12

-----------------------------------------------------------------------------
(* One ask under a taking bid *)

\* The collateral that moves with a fill leaves the rest covered in proportion.
LEMMA CollateralSplit ==
    ASSUME NEW P \in Nat \ {0}, NEW C \in Nat, NEW p \in Nat, NEW k \in Nat, NEW fill \in Nat,
           NEW c, fill <= p, C * p <= k * P, c = MatchedCollateral(fill, p, k, C, P)
    PROVE  /\ c \in Nat /\ c <= k
           /\ C * (p - fill) <= (k - c) * P
           /\ fill = p => c = k
<1>1. CASE fill = p
  <2>1. c = k BY <1>1 DEF MatchedCollateral
  <2> QED BY <1>1, <2>1
<1>2. CASE fill # p
  <2>1. c = (fill * C) \div P BY <1>2 DEF MatchedCollateral, mul_div
  <2>2. fill * C \in Nat OBVIOUS
  <2>3. PICK x \in Nat : x = fill * C BY <2>2
  <2>4. c \in Nat /\ P * c <= x
    <3>1. c = x \div P BY <2>1, <2>3
    <3> QED BY <3>1, DivFloor
  <2>5. C * (p - fill) = C * p - x /\ (k - c) * P = k * P - P * c /\ c * P = P * c
    BY <2>3, <2>4
  <2>6. x <= C * p BY <2>3
  <2>7. P * c <= k * P /\ C * p \in Nat /\ k * P \in Nat /\ P * c \in Nat
    <3>1. C * p \in Nat /\ k * P \in Nat /\ P * c \in Nat BY <2>4
    <3> QED BY <2>4, <2>6, <3>1
  <2>8. c <= k
    <3> SUFFICES ASSUME c > k PROVE FALSE BY <2>4
    <3>1. P * (k + 1) <= P * c BY <2>4
    <3>2. P * (k + 1) = k * P + P BY <2>4
    <3> QED BY <2>7, <3>1, <3>2
  <2> QED BY <1>2, <2>4, <2>5, <2>7, <2>8
<1> QED BY <1>1, <1>2

\* Shares of an amount that is split in two.
LEMMA SplitShares ==
    ASSUME NEW k \in Nat, NEW c \in Nat, c <= k, NEW v \in Nat \ {0}
    PROVE  /\ amount_to_asset_shares(k, v) \in Nat
           /\ amount_to_asset_shares(c, v) \in Nat
           /\ amount_to_asset_shares(k - c, v) \in Nat
           /\ amount_to_asset_shares(c, v) + amount_to_asset_shares(k - c, v)
                <= amount_to_asset_shares(k, v)
           /\ amount_to_asset_shares(k, v)
                <= amount_to_asset_shares(c, v) + amount_to_asset_shares(k - c, v) + 1
<1>1. k - c \in Nat /\ c + (k - c) = k OBVIOUS
<1>2. PICK d \in Nat : d = k - c BY <1>1
<1>3. c + d = k BY <1>2
<1>4. amount_to_asset_shares(c, v) + amount_to_asset_shares(d, v)
        <= amount_to_asset_shares(c + d, v)
  BY SharesSuperadditive
<1>5. amount_to_asset_shares(c + d, v)
        <= amount_to_asset_shares(c, v) + amount_to_asset_shares(d, v) + 1
  BY SharesSplit
<1>6. /\ amount_to_asset_shares(k, v) \in Nat /\ amount_to_asset_shares(c, v) \in Nat
      /\ amount_to_asset_shares(d, v) \in Nat
  BY SharesTyped
<1> QED BY <1>2, <1>3, <1>4, <1>5, <1>6

\* The parameters of a taking bid.
BidParams == [ rate : Nat, term : Nat, principal : Nat, collateral : Nat, buffer : Nat,
               mode : RESIDUAL_MODES, last_valid : Nat ]

\* Taking bid's accumulator: what is left to fill is covered in proportion, and the
\* shares of what collateral is left are in flight.  Only an ask of A whose floored rate
\* is no u16 makes the walk abort.
Taking(acc, b, bid, snapshot, A, mode) ==
    /\ Book(acc.market, loans, b, amount_to_asset_shares(acc.collateral, snapshot), mode)
    /\ acc.aborted => Overpriced(A) # {}
    /\ bid.collateral * acc.principal <= acc.collateral * bid.principal
    /\ acc.principal = 0 => acc.collateral = 0

\* An ask is skipped, ends the walk or is filled through the gates.
AskFilled(b, bid, snapshot, acc, ask, fill, c) ==
    /\ fill = MinOf(acc.principal, sub_vault_idle(acc.vault[ask.trader]))
    /\ c = MatchedCollateral(fill, acc.principal, acc.collateral, bid.collateral, bid.principal)
    /\ fill > 0 /\ ask.rate >= world.apr /\ Curator[ask.trader] # b
    /\ MeetsCap(fill, c, effective_origination_cap_bps(
                             acc.vault[ask.trader].policy.max_ltv, bid.buffer))

AskSkipped(b, bid, acc, ask) ==
    LET sub  == acc.vault[ask.trader]
        fill == MinOf(acc.principal, sub_vault_idle(sub))
    IN  \/ acc.stop \/ acc.principal = 0 \/ ask.rate < world.apr
        \/ ~(bid.term <= ask.term) \/ ~(fill > 0) \/ ~(ask.term <= sub.policy.max_term)
        \/ Curator[ask.trader] = b
        \/ ~MeetsCap(fill, MatchedCollateral(fill, acc.principal, acc.collateral,
                                             bid.collateral, bid.principal),
                     effective_origination_cap_bps(sub.policy.max_ltv, bid.buffer))

AskResult(b, bid, snapshot, acc, ask, r) ==
    \/ r = acc /\ AskSkipped(b, bid, acc, ask)
    \/ r = [acc EXCEPT !.stop = TRUE] /\ bid.rate < ask.rate
    \/ \E fill, c :
          /\ AskFilled(b, bid, snapshot, acc, ask, fill, c)
          /\ r = Fill([acc EXCEPT !.principal = @ - fill, !.collateral = SatSub(@, c)],
                      ask, fill, Taker(b, c, bid, snapshot, 0))

\* match_ask skips the ask, ends the walk or fills it through the gates.
LEMMA AskCases ==
    ASSUME NEW b, NEW bid \in BidParams, NEW snapshot, NEW acc \in Accs, NEW ask \in AskOrder,
           NEW r, world \in Worlds, r = match_ask(b, bid, snapshot, acc, ask)
    PROVE  AskResult(b, bid, snapshot, acc, ask, r)
<1>1. PICK fill : fill = MinOf(acc.principal, sub_vault_idle(acc.vault[ask.trader])) OBVIOUS
<1>2. PICK c : c = MatchedCollateral(fill, acc.principal, acc.collateral,
                                     bid.collateral, bid.principal)
  OBVIOUS
<1>3. world.apr \in Nat /\ ask.rate \in Nat /\ (~(ask.rate < world.apr) => ask.rate >= world.apr)
  BY BookAssumption DEF AskOrder
<1> QED BY <1>1, <1>2, <1>3, Zenon DEF match_ask, AskSkipped, AskFilled, AskResult

\* What one ask does to the walk's accumulator.
AskKept(mode, A, b, bid, snapshot, m0, acc, r) ==
    Taking(acc, b, bid, snapshot, A, mode) /\ Since(m0, acc) /\ acc.market.free > 0 =>
       /\ Taking(r, b, bid, snapshot, A, mode) /\ Since(m0, r)
       /\ r.market.free >= acc.market.free - 1 /\ r.market.bids = acc.market.bids

\* One ask keeps the walk's accumulator, and takes at most one block.
LEMMA AskStep ==
    ASSUME NEW mode, NEW A, NEW b \in Borrowers, NEW bid \in BidParams,
           NEW snapshot \in Nat \ {0}, snapshot <= world.asv,
           NEW acc \in Accs, NEW ask \in AskOrder, NEW m0, NEW r,
           world \in Worlds, bid.principal > 0, r = match_ask(b, bid, snapshot, acc, ask)
    PROVE  r \in Accs /\ (ask \in A => AskKept(mode, A, b, bid, snapshot, m0, acc, r))
<1>0. acc.market \in Markets /\ acc.market.free \in Nat BY DEF Accs, Markets
<1>1. CASE r = acc BY <1>0, <1>1 DEF AskKept
<1>2. CASE r = [acc EXCEPT !.stop = TRUE]
  <2>1. /\ r \in Accs /\ r.market = acc.market /\ r.vault = acc.vault
        /\ r.principal = acc.principal /\ r.collateral = acc.collateral
        /\ r.aborted = acc.aborted
    BY <1>2 DEF Accs
  <2>2. Taking(acc, b, bid, snapshot, A, mode) => Taking(r, b, bid, snapshot, A, mode)
    BY <2>1, Zenon DEF Taking
  <2>3. Since(m0, acc) => Since(m0, r) BY <2>1, Zenon DEF Since
  <2> QED BY <1>0, <2>1, <2>2, <2>3 DEF AskKept
<1>3. ASSUME NEW fill, NEW c, AskFilled(b, bid, snapshot, acc, ask, fill, c),
             r = Fill([acc EXCEPT !.principal = @ - fill, !.collateral = SatSub(@, c)],
                      ask, fill, Taker(b, c, bid, snapshot, 0))
      PROVE  r \in Accs /\ (ask \in A => AskKept(mode, A, b, bid, snapshot, m0, acc, r))
  <2>1. PICK sub : sub = acc.vault[ask.trader] OBVIOUS
  <2>2. /\ sub \in [idle : Nat, sunset : BOOLEAN, policy : Policies]
        /\ acc.principal \in Nat /\ acc.collateral \in Nat
    BY <2>1 DEF Accs, Lenders, AskOrder
  <2>3. sub_vault_idle(sub) \in Nat /\ sub_vault_idle(sub) <= sub.idle BY <2>2, IdleTyped
  <2>4. /\ fill \in Nat /\ fill > 0 /\ fill <= acc.principal /\ fill <= sub_vault_idle(sub)
        /\ fill <= sub.idle
    <3>1. fill = MinOf(acc.principal, sub_vault_idle(sub)) /\ fill > 0
      BY <1>3, <2>1, Zenon DEF AskFilled
    <3>2. sub.idle \in Nat BY <2>2
    <3> QED BY <2>2, <2>3, <3>1, <3>2 DEF MinOf
  <2>5. /\ bid.principal \in Nat \ {0} /\ bid.collateral \in Nat
        /\ bid.rate \in Nat /\ bid.term \in Nat /\ bid.buffer \in Nat
    BY DEF BidParams
  <2>6. c = MatchedCollateral(fill, acc.principal, acc.collateral, bid.collateral, bid.principal)
    BY <1>3 DEF AskFilled
  <2>7. c \in Nat
    <3>1. fill * bid.collateral \in Nat BY <2>4, <2>5
    <3>2. (fill * bid.collateral) \div bid.principal \in Nat BY <2>5, <3>1, DivFloor
    <3> QED BY <2>2, <2>6, <3>2 DEF MatchedCollateral, mul_div
  <2>8. PICK p2, k2 : p2 = acc.principal - fill /\ k2 = SatSub(acc.collateral, c) OBVIOUS
  <2>9. p2 \in Nat /\ k2 \in Nat BY <2>2, <2>4, <2>7, <2>8 DEF SatSub
  <2>10. PICK base : base = [acc EXCEPT !.principal = p2, !.collateral = k2] OBVIOUS
  <2>11. /\ base \in Accs /\ base.market = acc.market /\ base.vault = acc.vault
         /\ base.principal = p2 /\ base.collateral = k2
         /\ base.aborted = acc.aborted
    BY <2>9, <2>10 DEF Accs
  <2>12. PICK taker : taker = Taker(b, c, bid, snapshot, 0) OBVIOUS
  <2>13. /\ taker \in Takers /\ taker.borrower = b /\ taker.collateral = c
         /\ taker.snapshot = snapshot /\ taker.buffer = bid.buffer
    BY <2>5, <2>7, <2>12 DEF Taker, Takers
  <2>14. r = Fill(base, ask, fill, taker) BY <1>3, <2>8, <2>10, <2>12, Zenon
  <2>15. r \in Accs
    <3>1. fill <= base.vault[ask.trader].idle BY <2>1, <2>4, <2>11
    <3> QED BY <2>4, <2>11, <2>13, <2>14, <3>1, FillTyped
  <2>16. ASSUME ask \in A, Taking(acc, b, bid, snapshot, A, mode), Since(m0, acc),
                acc.market.free > 0
         PROVE  /\ Taking(r, b, bid, snapshot, A, mode) /\ Since(m0, r)
                /\ r.market.free >= acc.market.free - 1
                /\ r.market.bids = acc.market.bids
    <3>1. Since(m0, base) BY <2>11, <2>16, Zenon DEF Since
    <3>2. Gated(base, ask, fill, taker)
      <4>1. /\ fill > 0 /\ ask.rate >= world.apr /\ b # Curator[ask.trader]
            /\ MeetsCap(fill, c, effective_origination_cap_bps(
                                     acc.vault[ask.trader].policy.max_ltv, bid.buffer))
        BY <1>3, Zenon DEF AskFilled
      <4> QED BY <2>1, <2>4, <2>11, <2>13, <4>1, Zenon DEF Gated
    <3>3. PICK node : node = NodeOf(base, ask, fill, taker) OBVIOUS
    <3>4. /\ r.aborted => base.aborted \/ ~RateFits(ask)
          /\ Since(m0, r)
          /\ LoanAdded(base.market, r.market, node) /\ node \in MatchedLoan
          /\ r.principal = base.principal /\ r.collateral = base.collateral
      <4>1. base.market.free > 0 /\ LoansOK(base.market, loans)
        BY <2>11, <2>16 DEF Taking, Book
      <4> QED BY <2>4, <2>11, <2>13, <2>14, <3>1, <3>2, <3>3, <4>1, FillSince
    <3>5. /\ c <= acc.collateral
          /\ bid.collateral * (acc.principal - fill) <= (acc.collateral - c) * bid.principal
          /\ fill = acc.principal => c = acc.collateral
      <4>1. bid.collateral * acc.principal <= acc.collateral * bid.principal
        BY <2>16 DEF Taking
      <4>2. PICK P, C, p, k : /\ P = bid.principal /\ C = bid.collateral
                              /\ p = acc.principal /\ k = acc.collateral
        OBVIOUS
      <4>3. /\ P \in Nat \ {0} /\ C \in Nat /\ p \in Nat /\ k \in Nat /\ fill <= p
            /\ C * p <= k * P /\ c = MatchedCollateral(fill, p, k, C, P)
        BY <2>2, <2>4, <2>5, <2>6, <4>1, <4>2, Zenon
      <4>4. c <= k /\ C * (p - fill) <= (k - c) * P /\ (fill = p => c = k)
        BY <2>4, <4>3, CollateralSplit
      <4> QED BY <4>2, <4>4, Zenon
    <3>6. k2 = acc.collateral - c BY <2>2, <2>7, <2>8, <3>5 DEF SatSub
    <3>7. /\ amount_to_asset_shares(acc.collateral, snapshot) \in Nat
          /\ amount_to_asset_shares(c, snapshot) \in Nat
          /\ amount_to_asset_shares(acc.collateral - c, snapshot) \in Nat
          /\ amount_to_asset_shares(c, snapshot)
               + amount_to_asset_shares(acc.collateral - c, snapshot)
               <= amount_to_asset_shares(acc.collateral, snapshot)
          /\ amount_to_asset_shares(acc.collateral, snapshot)
               <= amount_to_asset_shares(c, snapshot)
                    + amount_to_asset_shares(acc.collateral - c, snapshot) + 1
      BY <2>2, <2>7, <3>5, SplitShares
    <3>8. PICK n, k : /\ n = amount_to_asset_shares(acc.collateral, snapshot)
                      /\ k = amount_to_asset_shares(k2, snapshot)
      OBVIOUS
    <3>9. /\ node.borrower = b /\ node.snapshot = snapshot /\ node.collateral = c
          /\ node.seq = acc.market.loan_seq
      BY <2>11, <2>13, <3>3 DEF NodeOf
    <3>10. LoanShares(node) = amount_to_asset_shares(c, snapshot)
      BY <3>9, Zenon DEF LoanShares
    <3>11. /\ n \in Int /\ k \in Int /\ n - LoanShares(node) - 1 <= k
           /\ k <= n - LoanShares(node)
      BY <3>6, <3>7, <3>8, <3>10
    <3>12. Book(acc.market, loans, b, n, mode) BY <2>16, <3>8, Zenon DEF Taking
    <3>13. Book(r.market, loans, b, k, mode)
      <4>1. r.market \in Markets BY <2>15 DEF Accs
      <4>2. node.snapshot > 0 /\ node.snapshot <= world.asv BY <3>9
      <4>3. LoanAdded(acc.market, r.market, node) BY <2>11, <3>4, Zenon
      <4> QED BY <3>4, <3>9, <3>11, <3>12, <4>1, <4>2, <4>3, LoanKeepsBook
    <3>14. Taking(r, b, bid, snapshot, A, mode)
      <4>1. r.principal = p2 /\ r.collateral = k2 BY <2>11, <3>4, Zenon
      <4>4. r.aborted => Overpriced(A) # {}
        BY <2>11, <2>16, <3>4, Zenon DEF Taking, Overpriced
      <4>2. bid.collateral * p2 <= k2 * bid.principal BY <2>8, <3>5, <3>6
      <4>3. p2 = 0 => k2 = 0 BY <2>2, <2>4, <2>7, <2>8, <3>5, <3>6
      <4> QED BY <3>8, <3>13, <4>1, <4>2, <4>3, <4>4, Zenon DEF Taking
    <3>15. r.market.free >= acc.market.free - 1 /\ r.market.bids = acc.market.bids
      BY <1>0, <2>11, <3>4 DEF LoanAdded
    <3> QED BY <3>4, <3>14, <3>15
  <2> QED BY <2>15, <2>16, Zenon DEF AskKept
<1>4. AskResult(b, bid, snapshot, acc, ask, r) BY AskCases
<1> QED BY <1>1, <1>2, <1>3, <1>4, Zenon DEF AskResult

\* The walk of match_order when the vault account was passed.
WalkAsks(b, bid, snapshot, acc) == match_order(b, bid, snapshot, TRUE, acc)

\* The asks' walk as a function of the asks that it has met.
IsAskWalk(it, S, b, bid, snapshot, acc) ==
    /\ it \in [SUBSET S -> Accs]
    /\ WalkAsks(b, bid, snapshot, acc) = it[S]
    /\ it[{}] = acc
    /\ \A s \in SUBSET S : s # {} =>
          \E ask \in s : /\ IsLast(ask, s, FALSE)
                         /\ it[s] = match_ask(b, bid, snapshot, it[s \ {ask}], ask)

\* match_order is such a walk: the fold meets the asks one by one, from the best to
\* the worst.
LEMMA AskWalk ==
    ASSUME NEW b \in Borrowers, NEW bid \in BidParams, NEW snapshot \in Nat \ {0},
           snapshot <= world.asv,
           NEW acc \in Accs, world \in Worlds, bid.principal > 0, Ranked(acc.market.asks)
    PROVE  \E it : IsAskWalk(it, acc.market.asks, b, bid, snapshot, acc)
<1>1. PICK S : S = acc.market.asks OBVIOUS
<1>2. S \subseteq AskOrder /\ IsFiniteSet(S) BY <1>1 DEF Accs, Markets, Ranked
<1>3. PICK pick : pick = [s \in SUBSET S |-> Worst(s, FALSE)] OBVIOUS
<1>4. \A s \in SUBSET S : s # {} => Worst(s, FALSE) \in s BY <1>1, WorstIn
<1>5. \A s \in SUBSET S : s # {} => pick[s] \in s BY <1>3, <1>4
<1>6. PICK f : f = [p \in Accs \X S |-> match_ask(b, bid, snapshot, p[1], p[2])] OBVIOUS
<1>7. \A a \in Accs, ask \in S : match_ask(b, bid, snapshot, a, ask) \in Accs
  BY <1>2, AskStep
<1>8. f \in [Accs \X S -> Accs] BY <1>6, <1>7
<1>9. PICK g \in [SUBSET S -> Accs] : \A s \in SUBSET S : Follows(g, acc, pick, f, s)
  BY <1>2, <1>5, <1>8, FoldExists
<1> DEFINE Eq(h) ==
        h = [s \in SUBSET S |->
               IF s = {} THEN acc
               ELSE LET x == Worst(s, FALSE)
                    IN  match_ask(b, bid, snapshot, h[s \ {x}], x)]
<1>10. Eq(g)
  <2>1. ASSUME NEW s \in SUBSET S
        PROVE  g[s] = IF s = {} THEN acc
                      ELSE LET x == Worst(s, FALSE)
                           IN  match_ask(b, bid, snapshot, g[s \ {x}], x)
    <3>1. CASE s = {} BY <1>9, <3>1 DEF Follows
    <3>2. CASE s # {}
      <4>1. PICK x : x = Worst(s, FALSE) OBVIOUS
      <4>2. x \in S /\ x = pick[s] /\ s \ {x} \in SUBSET S BY <1>3, <1>4, <3>2, <4>1
      <4>3. g[s] = f[<<g[s \ {x}], x>>] BY <1>9, <3>2, <4>2 DEF Follows
      <4>4. g[s \ {x}] \in Accs BY <1>9, <4>2
      <4>5. f[<<g[s \ {x}], x>>] = match_ask(b, bid, snapshot, g[s \ {x}], x)
        BY <1>6, <4>2, <4>4
      <4> QED BY <3>2, <4>1, <4>3, <4>5
    <3> QED BY <3>1, <3>2
  <2> QED BY <1>9, <2>1
<1>11. WalkAsks(b, bid, snapshot, acc) = (CHOOSE h : Eq(h))[S]
  BY <1>1 DEF WalkAsks, match_order, Walk, MapThenFoldSet
<1> HIDE DEF Eq
<1>12. PICK it : it = (CHOOSE h : Eq(h)) OBVIOUS
<1>13. Eq(it) BY <1>10, <1>12
<1>14. /\ it[{}] = acc
       /\ \A s \in SUBSET S : s # {} =>
             it[s] = match_ask(b, bid, snapshot, it[s \ {Worst(s, FALSE)}], Worst(s, FALSE))
  BY <1>13 DEF Eq
<1>15. DOMAIN it = SUBSET S /\ it = [s \in SUBSET S |-> it[s]] BY <1>13 DEF Eq
<1> DEFINE T == {s \in SUBSET S : it[s] \in Accs}
<1>16. \A s \in SUBSET S : s \in T
  <2>1. {} \in T BY <1>14
  <2>2. ASSUME NEW s \in SUBSET S, s # {} PROVE \E x \in s : (s \ {x} \in T => s \in T)
    <3>1. PICK x : x = Worst(s, FALSE) OBVIOUS
    <3>2. x \in s /\ x \in S BY <1>4, <2>2, <3>1
    <3>3. it[s] = match_ask(b, bid, snapshot, it[s \ {x}], x) BY <1>14, <2>2, <3>1
    <3>4. s \ {x} \in T => s \in T BY <1>7, <3>2, <3>3
    <3> QED BY <3>2, <3>4
  <2> HIDE DEF T
  <2> QED BY <1>2, <2>1, <2>2, SubsetInduction, Zenon
<1>17. it \in [SUBSET S -> Accs] BY <1>15, <1>16
<1>18. WalkAsks(b, bid, snapshot, acc) = it[S] BY <1>11, <1>12
<1>19. \A s \in SUBSET S : s # {} =>
          \E ask \in s : /\ IsLast(ask, s, FALSE)
                         /\ it[s] = match_ask(b, bid, snapshot, it[s \ {ask}], ask)
  BY <1>1, <1>4, <1>14, WorstIn
<1> QED BY <1>1, <1>14, <1>17, <1>18, <1>19, Zenon DEF IsAskWalk

\* What the walk keeps of a taking bid.
WalkKept(mode, A, b, bid, snapshot, m0, acc, r) ==
    /\ Taking(r, b, bid, snapshot, A, mode) /\ Since(m0, r)
    /\ r.market.free >= 1 /\ r.market.bids = acc.market.bids

\* A taking bid that has a block for every ask and one more walks the asks without
\* running out of blocks, and still has one for its residual.
LEMMA MatchOrderKeeps ==
    ASSUME NEW mode, NEW A, NEW b \in Borrowers, NEW bid \in BidParams,
           NEW snapshot \in Nat \ {0}, snapshot <= world.asv,
           NEW acc \in Accs, NEW m0, NEW r, world \in Worlds, bid.principal > 0,
           acc.market.asks \subseteq A,
           Taking(acc, b, bid, snapshot, A, mode), Since(m0, acc),
           acc.market.free >= Cardinality(acc.market.asks) + 1,
           r = WalkAsks(b, bid, snapshot, acc)
    PROVE  r \in Accs /\ WalkKept(mode, A, b, bid, snapshot, m0, acc, r)
<1>1. PICK S : S = acc.market.asks OBVIOUS
<1>2. S \subseteq AskOrder /\ IsFiniteSet(S) /\ Ranked(S)
  BY <1>1 DEF Accs, Markets, Taking, Book, OrdersOK, Ranked, AskOrder
<1>3. PICK it :
         /\ it \in [SUBSET S -> Accs]
         /\ WalkAsks(b, bid, snapshot, acc) = it[S]
         /\ it[{}] = acc
         /\ \A s \in SUBSET S : s # {} =>
               \E ask \in s : it[s] = match_ask(b, bid, snapshot, it[s \ {ask}], ask)
  <2>1. \E it : IsAskWalk(it, acc.market.asks, b, bid, snapshot, acc)
    <3>1. Ranked(acc.market.asks) BY <1>1, <1>2
    <3> QED BY <3>1, AskWalk
  <2>2. PICK it : IsAskWalk(it, S, b, bid, snapshot, acc) BY <1>1, <2>1
  <2>3. \A s \in SUBSET S : s # {} =>
           \E ask \in s : it[s] = match_ask(b, bid, snapshot, it[s \ {ask}], ask)
    BY <2>2, Zenon DEF IsAskWalk
  <2> QED BY <2>2, <2>3, Zenon DEF IsAskWalk
<1>4. \A s \in SUBSET S : IsFiniteSet(s) /\ Cardinality(s) \in Nat
          /\ Cardinality(s) <= Cardinality(S)
  BY <1>2, FS_Subset, FS_CardinalityType
<1> DEFINE T == {s \in SUBSET S :
                    /\ Taking(it[s], b, bid, snapshot, A, mode) /\ Since(m0, it[s])
                    /\ it[s].market.bids = acc.market.bids
                    /\ it[s].market.free + Cardinality(s) >= Cardinality(S) + 1}
<1>5. {} \in T
  <2>1. Cardinality({}) = 0 BY FS_EmptySet
  <2>2. acc.market.free \in Nat BY DEF Accs, Markets
  <2> QED BY <1>1, <1>3, <1>4, <2>1, <2>2
<1>6. ASSUME NEW s \in SUBSET S, s # {} PROVE \E x \in s : (s \ {x} \in T => s \in T)
  <2>1. PICK ask \in s : it[s] = match_ask(b, bid, snapshot, it[s \ {ask}], ask) BY <1>3, <1>6
  <2> SUFFICES ASSUME s \ {ask} \in T PROVE s \in T BY <2>1
  <2>2. PICK a, a2 : a = it[s \ {ask}] /\ a2 = it[s] OBVIOUS
  <2>3. a \in Accs /\ a2 \in Accs BY <1>3, <2>2
  <2>4. /\ Taking(a, b, bid, snapshot, A, mode) /\ Since(m0, a)
        /\ a.market.bids = acc.market.bids
        /\ a.market.free + Cardinality(s \ {ask}) >= Cardinality(S) + 1
    BY <2>2
  <2>5. Cardinality(s) = Cardinality(s \ {ask}) + 1 /\ Cardinality(s \ {ask}) \in Nat
    BY <1>4, <2>1, CardRemove
  <2>6. a.market.free \in Nat /\ a2.market.free \in Nat BY <2>3 DEF Accs, Markets
  <2>7. Cardinality(s) <= Cardinality(S) /\ Cardinality(S) \in Nat BY <1>4
  <2>8. a.market.free > 0 BY <2>4, <2>5, <2>6, <2>7
  <2>9. /\ Taking(a2, b, bid, snapshot, A, mode) /\ Since(m0, a2)
        /\ a2.market.free >= a.market.free - 1 /\ a2.market.bids = a.market.bids
    <3>1. ask \in AskOrder BY <1>2, <2>1
    <3>2. a2 = match_ask(b, bid, snapshot, a, ask) BY <2>1, <2>2, Zenon
    <3>3. AskKept(mode, A, b, bid, snapshot, m0, a, a2)
      <4>1. ask \in A BY <1>1, <2>1
      <4> QED BY <2>3, <3>1, <3>2, <4>1, AskStep, Zenon
    <3> QED BY <2>4, <2>8, <3>3, Zenon DEF AskKept
  <2>10. a2.market.free + Cardinality(s) >= Cardinality(S) + 1
    BY <2>4, <2>5, <2>6, <2>7, <2>9
  <2> QED BY <2>2, <2>4, <2>9, <2>10
<1>7. S \in T
  <2> HIDE DEF T
  <2>1. \A s \in SUBSET S : s \in T BY <1>2, <1>5, <1>6, SubsetInduction, Zenon
  <2> QED BY <2>1
<1>8. r = it[S] /\ r \in Accs BY <1>3
<1>9. r.market.free \in Nat /\ Cardinality(S) \in Nat BY <1>4, <1>8 DEF Accs, Markets
<1>10. /\ Taking(r, b, bid, snapshot, A, mode) /\ Since(m0, r)
       /\ r.market.bids = acc.market.bids
       /\ r.market.free + Cardinality(S) >= Cardinality(S) + 1
  BY <1>7, <1>8
<1> HIDE DEF T
<1>11. r.market.free >= 1
  <2>1. \A f, c \in Nat : f + c >= c + 1 => f >= 1 OBVIOUS
  <2> QED BY <1>9, <1>10, <2>1, Zenon
<1> QED BY <1>8, <1>10, <1>11, Zenon DEF WalkKept

-----------------------------------------------------------------------------
(* One resting bid under a taking ask *)

\* What moving shares on a seat writes.
LEMMA UnencumberShape ==
    ASSUME NEW seats \in [Traders -> Seat], NEW b \in Borrowers, NEW n \in Nat, NEW s2,
           s2 = unencumber_for_order(seats, b, n)
    PROVE  /\ s2 \in [Traders -> Seat]
           /\ \A t \in Traders :
                /\ s2[t].claimed = seats[t].claimed
                /\ s2[t].encumbered = seats[t].encumbered + At(t, b, -n)
                /\ s2[t].withdrawable + s2[t].encumbered
                     = seats[t].withdrawable + seats[t].encumbered
                /\ s2[t].open_borrow = seats[t].open_borrow
                /\ s2[t].open_lend = seats[t].open_lend
<1>1. b \in Traders BY DEF Traders
<1>2. PICK s : s = [seats[b] EXCEPT !.encumbered = seats[b].encumbered - n,
                                    !.withdrawable = seats[b].withdrawable + n]
  OBVIOUS
<1>3. s2 = [seats EXCEPT ![b] = s] BY <1>1, <1>2 DEF unencumber_for_order, Seat
<1>4. seats[b] \in Seat BY <1>1
<1>5. s \in Seat
  <2>1. PICK x, y : x = seats[b].encumbered - n /\ y = seats[b].withdrawable + n OBVIOUS
  <2>2. x \in Int /\ y \in Nat BY <1>4, <2>1 DEF Seat
  <2>3. s = [seats[b] EXCEPT !.encumbered = x, !.withdrawable = y] BY <1>2, <2>1
  <2> QED BY <1>4, <2>2, <2>3 DEF Seat
<1>6. /\ s.claimed = seats[b].claimed /\ s.open_borrow = seats[b].open_borrow
      /\ s.open_lend = seats[b].open_lend
      /\ s.encumbered = seats[b].encumbered - n /\ s.withdrawable = seats[b].withdrawable + n
  BY <1>2, <1>4 DEF Seat
<1>7. /\ seats[b].encumbered \in Int /\ seats[b].withdrawable \in Nat BY <1>4 DEF Seat
<1>8. ASSUME NEW t \in Traders
      PROVE  /\ s2[t].claimed = seats[t].claimed
             /\ s2[t].encumbered = seats[t].encumbered + At(t, b, -n)
             /\ s2[t].withdrawable + s2[t].encumbered
                  = seats[t].withdrawable + seats[t].encumbered
             /\ s2[t].open_borrow = seats[t].open_borrow
             /\ s2[t].open_lend = seats[t].open_lend
  <2>1. CASE t = b
    <3>1. s2[t] = s BY <1>3, <2>1
    <3> QED BY <1>6, <1>7, <2>1, <3>1 DEF At
  <2>2. CASE t # b
    <3>1. s2[t] = seats[t] BY <1>3, <2>2
    <3>2. seats[t].encumbered \in Int BY DEF Seat
    <3> QED BY <2>2, <3>1, <3>2 DEF At
  <2> QED BY <2>1, <2>2
<1> QED BY <1>3, <1>5, <1>8

\* What releasing a bid writes.
LEMMA ReleaseShape ==
    ASSUME NEW m \in Markets, NEW bid \in BidOrder, NEW m2, bid.snapshot > 0,
           m2 = Released(m, bid)
    PROVE  /\ m2 \in Markets
           /\ m2.asks = m.asks /\ m2.nodes = m.nodes /\ m2.order_seq = m.order_seq
           /\ m2.loan_seq = m.loan_seq /\ m2.blocks = m.blocks /\ m2.free = m.free + 1
           /\ m2.bids = m.bids \ {bid}
           /\ m2.seats = unencumber_for_order(m.seats, bid.trader, OrderShares(bid))
           /\ m2.seats \in [Traders -> Seat]
<1>1. PICK seats : seats = unencumber_for_order(m.seats, bid.trader, OrderShares(bid)) OBVIOUS
<1>2. seats \in [Traders -> Seat]
  <2>1. m.seats \in [Traders -> Seat] /\ bid.trader \in Borrowers BY DEF Markets, BidOrder
  <2>2. OrderShares(bid) \in Nat BY OrderSharesTyped
  <2> QED BY <1>1, <2>1, <2>2, UnencumberShape
<1>3. PICK m1 : m1 = [m EXCEPT !.seats = seats] OBVIOUS
<1>4. PICK B, f : B = m.bids \ {bid} /\ f = m.free + 1 OBVIOUS
<1>5. B \in SUBSET BidOrder /\ f \in Nat BY <1>4 DEF Markets
<1>6. /\ m1 \in Markets /\ m1.asks = m.asks /\ m1.nodes = m.nodes /\ m1.order_seq = m.order_seq
      /\ m1.loan_seq = m.loan_seq /\ m1.blocks = m.blocks /\ m1.free = m.free
      /\ m1.bids = m.bids /\ m1.seats = seats
  BY <1>2, <1>3 DEF Markets
<1>7. PICK m3 : m3 = [m1 EXCEPT !.bids = B] OBVIOUS
<1>8. /\ m3 \in Markets /\ m3.asks = m.asks /\ m3.nodes = m.nodes /\ m3.order_seq = m.order_seq
      /\ m3.loan_seq = m.loan_seq /\ m3.blocks = m.blocks /\ m3.free = m.free
      /\ m3.bids = B /\ m3.seats = seats
  BY <1>5, <1>6, <1>7 DEF Markets
<1>9. m2 = [m3 EXCEPT !.free = f]
  <2>1. [m EXCEPT !.seats = unencumber_for_order(@, bid.trader, OrderShares(bid))] = m1
    BY <1>1, <1>3, Zenon
  <2>2. m2 = remove_order_from_tree_and_free(m1, bid) BY <2>1, Zenon DEF Released
  <2>3. m2 = release_address([m1 EXCEPT !.bids = m1.bids \ {bid}])
    BY <2>2 DEF remove_order_from_tree_and_free
  <2>4. m2 = release_address(m3) BY <1>4, <1>6, <1>7, <2>3, Zenon
  <2>5. m2 = [m3 EXCEPT !.free = m3.free + 1] BY <2>4 DEF release_address
  <2> QED BY <1>4, <1>8, <2>5, Zenon
<1>10. /\ m2 \in Markets /\ m2.asks = m.asks /\ m2.nodes = m.nodes /\ m2.order_seq = m.order_seq
       /\ m2.loan_seq = m.loan_seq /\ m2.blocks = m.blocks /\ m2.free = f
       /\ m2.bids = B /\ m2.seats = seats
  BY <1>5, <1>8, <1>9 DEF Markets
<1> QED BY <1>1, <1>2, <1>4, <1>10

\* No seat has more or fewer shares, withdrawable and encumbered together.
SeatSumsKept(m, m2) ==
    \A t \in Traders : m2.seats[t].withdrawable + m2.seats[t].encumbered
                          = m.seats[t].withdrawable + m.seats[t].encumbered

\* The seat always has the shares that a bid gives back.
LEMMA ReleaseKeepsBook ==
    ASSUME NEW mode, NEW m, NEW L, NEW bid \in m.bids, NEW m2, Book(m, L, NIL, 0, mode),
           m2 = Released(m, bid)
    PROVE  /\ Book(m2, L, NIL, 0, mode)
           /\ m.seats[bid.trader].encumbered >= OrderShares(bid) /\ SeatSumsKept(m, m2)
<1>1. /\ m \in Markets /\ bid \in BidOrder /\ bid.snapshot > 0 /\ m.seats \in [Traders -> Seat]
      /\ m.free \in Nat
  BY DEF Book, OrdersOK, Markets
<1>2. PICK n \in Nat : n = OrderShares(bid) BY <1>1, OrderSharesTyped
<1>3. PICK b \in Borrowers : b = bid.trader BY <1>1 DEF BidOrder
<1>4. PICK B, f : B = m.bids \ {bid} /\ f = m.free + 1 OBVIOUS
<1>5. PICK md : md = [m EXCEPT !.bids = B, !.free = f] OBVIOUS
<1>6. B \in SUBSET BidOrder /\ f \in Nat BY <1>1, <1>4 DEF Markets
<1>7. /\ md \in Markets /\ md.asks = m.asks /\ md.nodes = m.nodes /\ md.seats = m.seats
      /\ md.order_seq = m.order_seq /\ md.loan_seq = m.loan_seq
      /\ md.blocks = m.blocks /\ md.free = f /\ md.bids = B
  BY <1>1, <1>5, <1>6 DEF Markets
<1>8. BidDropped(m, md, bid) BY <1>4, <1>7 DEF BidDropped
<1>9. Book(md, L, b, n, mode)
  <2>1. Book(m, L, b, 0, mode) BY Refocus
  <2>2. Book(md, L, b, 0 + OrderShares(bid), mode)
    BY <1>3, <1>7, <1>8, <2>1, DropKeepsBook
  <2>3. 0 + OrderShares(bid) = n BY <1>2
  <2> QED BY <2>2, <2>3, Zenon
<1>10. /\ m2 \in Markets
       /\ m2.asks = m.asks /\ m2.nodes = m.nodes /\ m2.order_seq = m.order_seq
       /\ m2.loan_seq = m.loan_seq /\ m2.blocks = m.blocks /\ m2.free = f
       /\ m2.bids = B
       /\ m2.seats = unencumber_for_order(m.seats, b, n)
  BY <1>1, <1>2, <1>3, <1>4, ReleaseShape
<1>11. \A t \in Traders :
          /\ m2.seats[t].claimed = m.seats[t].claimed
          /\ m2.seats[t].encumbered = m.seats[t].encumbered + At(t, b, -n)
          /\ m2.seats[t].withdrawable + m2.seats[t].encumbered
               = m.seats[t].withdrawable + m.seats[t].encumbered
          /\ m2.seats[t].open_borrow = m.seats[t].open_borrow
          /\ m2.seats[t].open_lend = m.seats[t].open_lend
  BY <1>1, <1>10, UnencumberShape
<1>12. SharesMoved(md, m2, b, -n)
  BY <1>1, <1>7, <1>10, <1>11 DEF SharesMoved, Markets
<1>13. Book(m2, L, NIL, 0, mode)
  <2>1. PICK d \in Int : d = -n OBVIOUS
  <2>2. Book(m2, L, b, n + d, mode)
    <3>1. SharesMoved(md, m2, b, d) BY <1>12, <2>1, Zenon
    <3>2. m2 \in Markets /\ n \in Int BY <1>10
    <3> QED BY <1>9, <3>1, <3>2, MoveKeepsBook
  <2>3. n + d = 0 BY <2>1
  <2>4. Book(m2, L, b, 0, mode) BY <2>2, <2>3, Zenon
  <2> QED BY <2>4, Refocus
<1>14. m.seats[b].encumbered >= n
  <2>1. Due(md, L, b) + At(b, b, n) <= md.seats[b].encumbered
    BY <1>9 DEF Book, EncumberedOK, Traders
  <2>2. Due(md, L, b) \in Nat BY <1>9, BookSets
  <2>3. m.seats[b].encumbered \in Int BY <1>1 DEF Traders, Seat
  <2> QED BY <1>7, <2>1, <2>2, <2>3 DEF At
<1> QED BY <1>2, <1>3, <1>11, <1>13, <1>14 DEF SeatSumsKept

\* A filled bid is gone, or what is left of it keeps its place, owner and snapshot.
Consumed(m, m2, bid, fill, c) ==
    /\ m2.asks = m.asks /\ m2.nodes = m.nodes /\ m2.seats = m.seats
    /\ m2.order_seq = m.order_seq /\ m2.loan_seq = m.loan_seq /\ m2.blocks = m.blocks
    /\ \/ fill = bid.principal /\ m2.bids = m.bids \ {bid} /\ m2.free = m.free + 1
       \/ /\ fill # bid.principal /\ m2.free = m.free
          /\ \E rest \in BidOrder :
                /\ m2.bids = (m.bids \ {bid}) \cup {rest}
                /\ rest.seq = bid.seq /\ rest.trader = bid.trader
                /\ rest.snapshot = bid.snapshot /\ rest.collateral = bid.collateral - c

\* What consuming a bid writes.
LEMMA ConsumeShape ==
    ASSUME NEW m \in Markets, NEW bid \in BidOrder, NEW fill \in Nat, NEW c \in Nat, NEW m2,
           fill <= bid.principal, c <= bid.collateral, m2 = ConsumeBid(m, bid, fill, c)
    PROVE  m2 \in Markets /\ Consumed(m, m2, bid, fill, c)
<1>1. CASE fill = bid.principal
  <2>1. PICK B, f : B = m.bids \ {bid} /\ f = m.free + 1 OBVIOUS
  <2>2. B \in SUBSET BidOrder /\ f \in Nat BY <2>1 DEF Markets
  <2>3. PICK m1 : m1 = [m EXCEPT !.bids = B] OBVIOUS
  <2>4. /\ m1 \in Markets /\ m1.asks = m.asks /\ m1.nodes = m.nodes /\ m1.seats = m.seats
        /\ m1.order_seq = m.order_seq /\ m1.loan_seq = m.loan_seq /\ m1.blocks = m.blocks
        /\ m1.free = m.free /\ m1.bids = B
    BY <2>2, <2>3 DEF Markets
  <2>5. m2 = [m1 EXCEPT !.free = f]
    <3>1. m2 = release_address([m EXCEPT !.bids = m.bids \ {bid}])
      BY <1>1 DEF ConsumeBid, remove_order_from_tree_and_free
    <3>2. m2 = release_address(m1) BY <2>1, <2>3, <3>1, Zenon
    <3>3. m2 = [m1 EXCEPT !.free = m1.free + 1] BY <3>2 DEF release_address
    <3> QED BY <2>1, <2>4, <3>3, Zenon
  <2>6. /\ m2 \in Markets /\ m2.asks = m.asks /\ m2.nodes = m.nodes /\ m2.seats = m.seats
        /\ m2.order_seq = m.order_seq /\ m2.loan_seq = m.loan_seq /\ m2.blocks = m.blocks
        /\ m2.free = f /\ m2.bids = B
    BY <2>2, <2>4, <2>5 DEF Markets
  <2> QED BY <1>1, <2>1, <2>6 DEF Consumed
<1>2. CASE fill # bid.principal
  <2>1. PICK p, k : p = bid.principal - fill /\ k = bid.collateral - c OBVIOUS
  <2>2. p \in Nat \ {0} /\ k \in Nat BY <1>2, <2>1 DEF BidOrder
  <2>3. PICK rest : rest = [bid EXCEPT !.principal = p, !.collateral = k] OBVIOUS
  <2>4. /\ rest \in BidOrder /\ rest.seq = bid.seq /\ rest.trader = bid.trader
        /\ rest.snapshot = bid.snapshot /\ rest.collateral = k
    BY <2>2, <2>3 DEF BidOrder
  <2>5. PICK B : B = (m.bids \ {bid}) \cup {rest} OBVIOUS
  <2>6. B \in SUBSET BidOrder BY <2>4, <2>5 DEF Markets
  <2>7. m2 = [m EXCEPT !.bids = B]
    BY <1>2, <2>1, <2>3, <2>5 DEF ConsumeBid
  <2>8. /\ m2 \in Markets /\ m2.asks = m.asks /\ m2.nodes = m.nodes /\ m2.seats = m.seats
        /\ m2.order_seq = m.order_seq /\ m2.loan_seq = m.loan_seq /\ m2.blocks = m.blocks
        /\ m2.free = m.free /\ m2.bids = B
    BY <2>6, <2>7 DEF Markets
  <2> QED BY <1>2, <2>1, <2>4, <2>5, <2>8 DEF Consumed
<1> QED BY <1>1, <1>2

\* The shares of the collateral that a bid hands to a loan go out of flight.
LEMMA ConsumeKeepsBook ==
    ASSUME NEW mode, NEW m, NEW L, NEW b \in Borrowers, NEW bid \in m.bids, NEW fill \in Nat,
           NEW c \in Nat,
           NEW m2 \in Markets, NEW k \in Int, Book(m, L, b, k, mode), bid.trader = b,
           Consumed(m, m2, bid, fill, c), c <= bid.collateral,
           fill = bid.principal => c = bid.collateral,
           k = amount_to_asset_shares(bid.collateral - c, bid.snapshot) - OrderShares(bid)
    PROVE  Book(m2, L, b, 0, mode)
<1>1. /\ m \in Markets /\ bid \in BidOrder /\ bid.snapshot \in Nat \ {0} /\ bid.collateral \in Nat
      /\ m.free \in Nat /\ bid.seq < m.order_seq /\ bid.seq \in Nat
  BY DEF Book, OrdersOK, Markets, BidOrder
<1>2. PICK n \in Nat : n = OrderShares(bid) BY <1>1, OrderSharesTyped
<1>3. bid.collateral - c \in Nat BY <1>1
<1>4. PICK e \in Nat : e = amount_to_asset_shares(bid.collateral - c, bid.snapshot)
  BY <1>1, <1>3, SharesTyped
<1>5. k = e - n BY <1>2, <1>4
<1>6. CASE fill = bid.principal
  <2>1. bid.collateral - c = 0 BY <1>1, <1>6
  <2>2. e = 0 BY <1>1, <1>4, <2>1, SharesTyped
  <2>3. BidDropped(m, m2, bid) BY <1>6 DEF Consumed, BidDropped
  <2>4. Book(m2, L, b, k + OrderShares(bid), mode) BY <2>3, DropKeepsBook
  <2>5. k + OrderShares(bid) = 0 BY <1>2, <1>5, <2>2
  <2> QED BY <2>4, <2>5, Zenon
<1>7. CASE fill # bid.principal
  <2>1. PICK rest \in BidOrder :
           /\ m2.bids = (m.bids \ {bid}) \cup {rest}
           /\ rest.seq = bid.seq /\ rest.trader = bid.trader
           /\ rest.snapshot = bid.snapshot /\ rest.collateral = bid.collateral - c
    BY <1>7 DEF Consumed
  <2>2. PICK B, f : B = m.bids \ {bid} /\ f = m.free + 1 OBVIOUS
  <2>3. B \in SUBSET BidOrder /\ f \in Nat BY <1>1, <2>2 DEF Markets
  <2>4. PICK md : md = [m EXCEPT !.bids = B, !.free = f] OBVIOUS
  <2>5. /\ md \in Markets /\ md.asks = m.asks /\ md.nodes = m.nodes /\ md.seats = m.seats
        /\ md.order_seq = m.order_seq /\ md.loan_seq = m.loan_seq /\ md.blocks = m.blocks
        /\ md.free = f /\ md.bids = B
    BY <1>1, <2>3, <2>4 DEF Markets
  <2>6. BidDropped(m, md, bid) BY <2>2, <2>5 DEF BidDropped
  <2>7. Book(md, L, b, e, mode)
    <3>1. Book(md, L, b, k + OrderShares(bid), mode) BY <2>5, <2>6, DropKeepsBook
    <3>2. k + OrderShares(bid) = e BY <1>2, <1>5
    <3> QED BY <3>1, <3>2, Zenon
  <2>8. BidPut(md, m2, rest)
    <3>1. /\ m2.asks = m.asks /\ m2.nodes = m.nodes /\ m2.seats = m.seats
          /\ m2.order_seq = m.order_seq /\ m2.loan_seq = m.loan_seq /\ m2.blocks = m.blocks
          /\ m2.free = m.free
      BY <1>7 DEF Consumed
    <3>2. m.order_seq \in Nat BY <1>1 DEF Markets
    <3> QED BY <1>1, <2>1, <2>2, <2>5, <3>1, <3>2 DEF BidPut
  <2>9. OrderShares(rest) = e BY <1>4, <2>1, Zenon DEF OrderShares
  <2>10. \A o \in md.bids \cup md.asks : o.seq # rest.seq
    <3>1. \A o \in m.bids \cup m.asks : o.seq = bid.seq => o = bid BY DEF Book, OrdersOK
    <3>2. bid \notin m.asks
      <4>1. bid.trader \in Borrowers BY <1>1 DEF BidOrder
      <4>2. \A o \in m.asks : o.trader \in SubVaults BY <1>1 DEF Markets, AskOrder
      <4> QED BY <4>1, <4>2, BookAssumption
    <3> QED BY <2>1, <2>2, <2>5, <3>1, <3>2
  <2>11. rest.seq < m2.order_seq BY <1>1, <2>1, <2>5, <2>8 DEF Consumed
  <2>12. Book(m2, L, b, e - OrderShares(rest), mode)
    <3>1. rest.trader = b /\ rest.snapshot > 0 /\ rest.snapshot <= world.asv
      BY <1>1, <2>1 DEF Book, OrdersOK
    <3> QED BY <2>7, <2>8, <2>10, <2>11, <3>1, PutKeepsBook
  <2>13. e - OrderShares(rest) = 0 BY <2>9
  <2> QED BY <2>12, <2>13, Zenon
<1> QED BY <1>6, <1>7

\* The accumulator of a taking ask: between two bids no shares are in flight.
Resting(acc, A, mode) ==
    Book(acc.market, loans, NIL, 0, mode) /\ (acc.aborted => Overpriced(A) # {})

\* A bid is skipped, ends the walk, is pruned or is filled through the gates.
BidFilled(acc, ask, bid, fill, c) ==
    /\ fill = MinOf(bid.principal, sub_vault_idle(acc.vault[ask.trader]))
    /\ c = MatchedCollateral(fill, bid.principal, bid.collateral, bid.collateral, bid.principal)
    /\ fill # 0 /\ bid.trader # Curator[ask.trader]
    /\ MeetsCap(fill, c, effective_origination_cap_bps(
                             acc.vault[ask.trader].policy.max_ltv, bid.buffer))

Taken(acc, ask, bid, fill, c, q, r) ==
    /\ BidFilled(acc, ask, bid, fill, c)
    /\ q = Fill(acc, ask, fill, Taker(bid.trader, c, bid, bid.snapshot, 0))
    /\ r = [q EXCEPT !.market = ConsumeBid(q.market, bid, fill, c)]

BidSkipped(ask, max_fills, acc, bid) ==
    LET sub  == acc.vault[ask.trader]
        fill == MinOf(bid.principal, sub_vault_idle(sub))
    IN  \/ acc.stop \/ acc.fills >= max_fills \/ bid.trader = Curator[ask.trader]
        \/ ~(bid.term <= ask.term)
        \/ ~MeetsCap(fill, MatchedCollateral(fill, bid.principal, bid.collateral,
                                             bid.collateral, bid.principal),
                     effective_origination_cap_bps(sub.policy.max_ltv, bid.buffer))

BidResult(ask, max_fills, acc, bid, r) ==
    \/ r = acc /\ BidSkipped(ask, max_fills, acc, bid)
    \/ /\ r = [acc EXCEPT !.stop = TRUE]
       /\ \/ bid.rate < ask.rate
          \/ MinOf(bid.principal, sub_vault_idle(acc.vault[ask.trader])) = 0
    \/ r = PruneBid(acc, bid)
    \/ \E fill, c, q : Taken(acc, ask, bid, fill, c, q, r)

\* The outcomes of one resting bid under a taking ask.
LEMMA BidCases ==
    ASSUME NEW ask, NEW max_fills, NEW acc, NEW bid, NEW r, r = match_bid(ask, max_fills, acc, bid)
    PROVE  BidResult(ask, max_fills, acc, bid, r)
<1>1. PICK fill : fill = MinOf(bid.principal, sub_vault_idle(acc.vault[ask.trader])) OBVIOUS
<1>2. PICK c : c = MatchedCollateral(fill, bid.principal, bid.collateral,
                                     bid.collateral, bid.principal)
  OBVIOUS
<1>3. PICK q : q = Fill(acc, ask, fill, Taker(bid.trader, c, bid, bid.snapshot, 0)) OBVIOUS
<1> QED BY <1>1, <1>2, <1>3, Zenon DEF match_bid, BidSkipped, BidFilled, Taken, BidResult

\* A pruned bid leaves nothing in flight, and the seat has what it gives back.
LEMMA PruneStep ==
    ASSUME NEW mode, NEW A, NEW acc \in Accs, NEW bid \in BidOrder, NEW m0, NEW r, bid.snapshot > 0,
           r = PruneBid(acc, bid)
    PROVE  /\ r \in Accs
           /\ Resting(acc, A, mode) /\ Since(m0, acc) /\ bid \in acc.market.bids =>
                 /\ Resting(r, A, mode) /\ Since(m0, r)
                 /\ r.market.free >= acc.market.free - 1
                 /\ acc.market.bids \ {bid} \subseteq r.market.bids
<1>1. PICK m \in Markets : m = acc.market BY DEF Accs
<1>2. PICK m2 : m2 = Released(m, bid) OBVIOUS
<1>3. /\ m2 \in Markets
      /\ m2.asks = m.asks /\ m2.nodes = m.nodes /\ m2.order_seq = m.order_seq
      /\ m2.loan_seq = m.loan_seq /\ m2.blocks = m.blocks /\ m2.free = m.free + 1
      /\ m2.bids = m.bids \ {bid}
  BY <1>2, ReleaseShape
<1>4. PICK ab \in BOOLEAN : ab <=> acc.aborted \/ m.seats[bid.trader].encumbered < OrderShares(bid)
  OBVIOUS
<1>5. r = [acc EXCEPT !.market = m2, !.aborted = ab]
  <2>1. ab = (acc.aborted \/ m.seats[bid.trader].encumbered < OrderShares(bid))
    BY <1>4
  <2>2. r = [acc EXCEPT !.market = Released(acc.market, bid),
                        !.aborted = acc.aborted
                          \/ acc.market.seats[bid.trader].encumbered < OrderShares(bid)]
    BY Zenon DEF PruneBid
  <2> QED BY <1>1, <1>2, <2>1, <2>2, Zenon
<1>6. /\ r \in Accs /\ r.market = m2 /\ r.vault = acc.vault /\ r.aborted = ab
  BY <1>3, <1>5 DEF Accs
<1>7. ASSUME Resting(acc, A, mode), Since(m0, acc), bid \in m.bids
      PROVE  /\ Resting(r, A, mode) /\ Since(m0, r)
             /\ r.market.free >= acc.market.free - 1
             /\ acc.market.bids \ {bid} \subseteq r.market.bids
  <2>1. /\ Book(m2, loans, NIL, 0, mode) /\ m.seats[bid.trader].encumbered >= OrderShares(bid)
        /\ SeatSumsKept(m, m2)
    <3>1. Book(m, loans, NIL, 0, mode) BY <1>1, <1>7, Zenon DEF Resting
    <3> QED BY <1>2, <1>7, <3>1, ReleaseKeepsBook
  <2>2. ab => Overpriced(A) # {}
    <3>1. acc.aborted => Overpriced(A) # {} BY <1>7 DEF Resting
    <3>2. OrderShares(bid) \in Nat BY OrderSharesTyped
    <3>3. m.seats[bid.trader].encumbered \in Int BY DEF Markets, Traders, BidOrder, Seat
    <3>4. ~(m.seats[bid.trader].encumbered < OrderShares(bid)) BY <2>1, <3>2, <3>3
    <3> QED BY <1>4, <3>1, <3>4, Zenon
  <2>3. Resting(r, A, mode) BY <1>6, <2>1, <2>2, Zenon DEF Resting
  <2>4. Since(m0, r)
    BY <1>1, <1>3, <1>6, <1>7, <2>1 DEF Since, FixedOnly, SeatSumsKept
  <2>5. m.free \in Nat BY DEF Markets
  <2> QED BY <1>1, <1>3, <1>6, <2>3, <2>4, <2>5
<1> QED BY <1>1, <1>6, <1>7

\* A filled bid hands its collateral to the loan and keeps what is left.
LEMMA TakenStep ==
    ASSUME NEW mode, NEW A, NEW acc \in Accs, NEW ask \in AskOrder, NEW bid \in BidOrder,
           NEW m0, NEW r,
           NEW fill, NEW c, NEW q, bid.snapshot > 0, world \in Worlds, ask.rate >= world.apr,
           Taken(acc, ask, bid, fill, c, q, r)
    PROVE  /\ r \in Accs
           /\ ask \in A /\ Resting(acc, A, mode) /\ Since(m0, acc)
              /\ acc.market.free > 0 /\ bid \in acc.market.bids =>
                 /\ Resting(r, A, mode) /\ Since(m0, r)
                 /\ r.market.free >= acc.market.free - 1
                 /\ acc.market.bids \ {bid} \subseteq r.market.bids
<1>0. /\ BidFilled(acc, ask, bid, fill, c)
      /\ q = Fill(acc, ask, fill, Taker(bid.trader, c, bid, bid.snapshot, 0))
      /\ r = [q EXCEPT !.market = ConsumeBid(q.market, bid, fill, c)]
  BY DEF Taken
<1>1. PICK sub : sub = acc.vault[ask.trader] OBVIOUS
<1>2. sub \in [idle : Nat, sunset : BOOLEAN, policy : Policies]
  BY <1>1 DEF Accs, Lenders, AskOrder
<1>3. sub_vault_idle(sub) \in Nat /\ sub_vault_idle(sub) <= sub.idle BY <1>2, IdleTyped
<1>4. PICK P, C, v, b : /\ P = bid.principal /\ C = bid.collateral /\ v = bid.snapshot
                        /\ b = bid.trader
  OBVIOUS
<1>5. /\ P \in Nat \ {0} /\ C \in Nat /\ v \in Nat \ {0} /\ b \in Borrowers
      /\ bid.rate \in Nat /\ bid.term \in Nat /\ bid.buffer \in Nat
  BY <1>4 DEF BidOrder
<1>6. fill \in Nat /\ fill > 0 /\ fill <= P /\ fill <= sub_vault_idle(sub) /\ fill <= sub.idle
  <2>1. fill = MinOf(P, sub_vault_idle(sub)) /\ fill # 0
    BY <1>0, <1>1, <1>4, Zenon DEF BidFilled
  <2>2. sub.idle \in Nat BY <1>2
  <2> QED BY <1>3, <1>5, <2>1, <2>2 DEF MinOf
<1>7. c \in Nat /\ c <= C /\ (fill = P => c = C)
  <2>1. c = MatchedCollateral(fill, P, C, C, P) BY <1>0, <1>4, Zenon DEF BidFilled
  <2>2. C * P <= C * P BY <1>5
  <2> QED BY <1>5, <1>6, <2>1, <2>2, CollateralSplit
<1>8. PICK taker : taker = Taker(bid.trader, c, bid, bid.snapshot, 0) OBVIOUS
<1>9. /\ taker \in Takers /\ taker.borrower = b /\ taker.collateral = c
      /\ taker.snapshot = v /\ taker.buffer = bid.buffer
  BY <1>4, <1>5, <1>7, <1>8 DEF Taker, Takers
<1>10. q = Fill(acc, ask, fill, taker) BY <1>0, <1>8
<1>11. q \in Accs
  <2>1. fill <= acc.vault[ask.trader].idle BY <1>1, <1>6
  <2> QED BY <1>6, <1>9, <1>10, <2>1, FillTyped
<1>12. PICK mq \in Markets : mq = q.market BY <1>11 DEF Accs
<1>13. PICK m2 : m2 = ConsumeBid(mq, bid, fill, c) OBVIOUS
<1>14. m2 \in Markets /\ Consumed(mq, m2, bid, fill, c)
  BY <1>4, <1>6, <1>7, <1>13, ConsumeShape
<1>15. r = [q EXCEPT !.market = m2] BY <1>0, <1>12, <1>13
<1>16. r \in Accs /\ r.market = m2 /\ r.vault = q.vault /\ r.aborted = q.aborted
  BY <1>11, <1>14, <1>15 DEF Accs
<1>17. ASSUME ask \in A, Resting(acc, A, mode), Since(m0, acc), acc.market.free > 0,
              bid \in acc.market.bids
       PROVE  /\ Resting(r, A, mode) /\ Since(m0, r)
              /\ r.market.free >= acc.market.free - 1
              /\ acc.market.bids \ {bid} \subseteq r.market.bids
  <2>1. Gated(acc, ask, fill, taker)
    <3>1. /\ b # Curator[ask.trader]
          /\ MeetsCap(fill, c, effective_origination_cap_bps(
                                   acc.vault[ask.trader].policy.max_ltv, bid.buffer))
      BY <1>0, <1>4, Zenon DEF BidFilled
    <3> QED BY <1>1, <1>6, <1>9, <3>1, Zenon DEF Gated
  <2>2. PICK node : node = NodeOf(acc, ask, fill, taker) OBVIOUS
  <2>3. /\ q.aborted => acc.aborted \/ ~RateFits(ask)
        /\ Since(m0, q)
        /\ LoanAdded(acc.market, q.market, node) /\ node \in MatchedLoan
    <3>1. LoansOK(acc.market, loans) BY <1>17 DEF Resting, Book
    <3> QED BY <1>6, <1>9, <1>10, <1>17, <2>1, <2>2, <3>1, FillSince
  <2>4. /\ node.borrower = b /\ node.snapshot = v /\ node.collateral = c
        /\ node.seq = acc.market.loan_seq
    BY <1>9, <2>2 DEF NodeOf
  <2>5. PICK n, e, k : /\ n = amount_to_asset_shares(C, v)
                       /\ e = amount_to_asset_shares(C - c, v)
                       /\ k = e - n
    OBVIOUS
  <2>6. /\ n \in Nat /\ e \in Nat /\ amount_to_asset_shares(c, v) \in Nat
        /\ amount_to_asset_shares(c, v) + e <= n
        /\ n <= amount_to_asset_shares(c, v) + e + 1
    BY <1>5, <1>7, <2>5, SplitShares
  <2>7. LoanShares(node) = amount_to_asset_shares(c, v) BY <2>4, Zenon DEF LoanShares
  <2>8. OrderShares(bid) = n BY <1>4, <2>5, Zenon DEF OrderShares
  <2>9. k \in Int /\ 0 - LoanShares(node) - 1 <= k /\ k <= 0 - LoanShares(node)
    BY <2>5, <2>6, <2>7
  <2>10. Book(mq, loans, b, k, mode)
    <3>1. Book(acc.market, loans, b, 0, mode) BY <1>17, Refocus DEF Resting
    <3>2. LoanAdded(acc.market, mq, node) BY <1>12, <2>3, Zenon
    <3>3. node.snapshot > 0 /\ node.snapshot <= world.asv
      BY <1>4, <1>5, <1>17, <2>4 DEF Resting, Book, OrdersOK
    <3> QED BY <1>5, <2>3, <2>4, <2>9, <3>1, <3>2, <3>3, LoanKeepsBook
  <2>11. mq.bids = acc.market.bids /\ mq.free = acc.market.free - 1
    BY <1>12, <2>3 DEF LoanAdded
  <2>12. Book(m2, loans, b, 0, mode)
    <3>1. k = amount_to_asset_shares(bid.collateral - c, bid.snapshot) - OrderShares(bid)
      BY <1>4, <2>5, <2>8, Zenon
    <3>2. bid \in mq.bids BY <1>17, <2>11
    <3>3. bid.trader = b /\ c <= bid.collateral /\ (fill = bid.principal => c = bid.collateral)
      BY <1>4, <1>7
    <3> QED BY <1>5, <1>6, <1>7, <1>14, <2>9, <2>10, <3>1, <3>2, <3>3, ConsumeKeepsBook
  <2>13. Resting(r, A, mode)
    <3>1. Book(r.market, loans, NIL, 0, mode) BY <1>16, <2>12, Refocus
    <3>2. r.aborted => Overpriced(A) # {}
      BY <1>16, <1>17, <2>3, Zenon DEF Resting, Overpriced
    <3> QED BY <3>1, <3>2 DEF Resting
  <2>14. /\ m2.asks = mq.asks /\ m2.order_seq = mq.order_seq /\ m2.seats = mq.seats
         /\ m2.nodes = mq.nodes /\ m2.loan_seq = mq.loan_seq
         /\ mq.bids \ {bid} \subseteq m2.bids
         /\ (m2.free = mq.free \/ m2.free = mq.free + 1)
         /\ \A o \in m2.bids : o \in mq.bids \/ (o.seq = bid.seq /\ o.trader = bid.trader)
    BY <1>14 DEF Consumed
  <2>15. Since(m0, r)
    <3>1. r.market.asks = m0.asks /\ r.market.order_seq = m0.order_seq
      BY <1>12, <1>16, <2>3, <2>14 DEF Since
    <3>2. \A t \in Traders :
            r.market.seats[t].withdrawable + r.market.seats[t].encumbered
              = m0.seats[t].withdrawable + m0.seats[t].encumbered
      BY <1>12, <1>16, <2>3, <2>14 DEF Since
    <3>3. \A u \in SubVaults : /\ r.vault[u].policy = vault[u].policy
                               /\ r.vault[u].sunset = vault[u].sunset
      BY <1>16, <2>3 DEF Since
    <3>4. \A o \in q.market.bids : \E old \in m0.bids : old.seq = o.seq /\ old.trader = o.trader
      BY <2>3 DEF Since
    <3>5. \A o \in r.market.bids : \E old \in m0.bids : old.seq = o.seq /\ old.trader = o.trader
      BY <1>12, <1>16, <1>17, <2>11, <2>14, <3>4
    <3>6. \A l \in r.market.nodes \ m0.nodes : l.lender # NIL => LoanHonoursTerms(l)
      BY <1>12, <1>16, <2>3, <2>14 DEF Since
    <3>7. FixedOnly(m0, r.market) BY <1>12, <1>16, <2>3, <2>14, Zenon DEF Since, FixedOnly
    <3> QED BY <3>1, <3>2, <3>3, <3>5, <3>6, <3>7 DEF Since
  <2>16. acc.market.free \in Nat BY DEF Accs, Markets
  <2>17. r.market.free >= acc.market.free - 1 BY <1>16, <2>11, <2>14, <2>16
  <2> QED BY <1>16, <2>11, <2>13, <2>14, <2>15, <2>17
<1> QED BY <1>16, <1>17

\* What meeting one bid keeps of a walk that has a block for it.
BidKept(mode, A, ask, bid, m0, acc, r) ==
    ask \in A /\ Resting(acc, A, mode) /\ Since(m0, acc)
    /\ acc.market.free > 0 /\ bid \in acc.market.bids =>
       /\ Resting(r, A, mode) /\ Since(m0, r)
       /\ r.market.free >= acc.market.free - 1
       /\ acc.market.bids \ {bid} \subseteq r.market.bids

\* One resting bid keeps the walk's accumulator, takes at most one block and leaves
\* the other bids alone.
LEMMA BidStep ==
    ASSUME NEW mode, NEW A, NEW acc \in Accs, NEW ask \in AskOrder, NEW bid \in BidOrder,
           NEW m0, NEW r,
           NEW max_fills, bid.snapshot > 0, world \in Worlds, ask.rate >= world.apr,
           r = match_bid(ask, max_fills, acc, bid)
    PROVE  r \in Accs /\ BidKept(mode, A, ask, bid, m0, acc, r)
<1> SUFFICES /\ r \in Accs
             /\ ask \in A /\ Resting(acc, A, mode) /\ Since(m0, acc)
                /\ acc.market.free > 0 /\ bid \in acc.market.bids =>
                   /\ Resting(r, A, mode) /\ Since(m0, r)
                   /\ r.market.free >= acc.market.free - 1
                   /\ acc.market.bids \ {bid} \subseteq r.market.bids
  BY Zenon DEF BidKept
<1>0. acc.market \in Markets /\ acc.market.free \in Nat BY DEF Accs, Markets
<1>1. CASE r = acc BY <1>0, <1>1
<1>2. CASE r = [acc EXCEPT !.stop = TRUE]
  <2>1. /\ r \in Accs /\ r.market = acc.market /\ r.vault = acc.vault
        /\ r.aborted = acc.aborted
    BY <1>2 DEF Accs
  <2>2. Resting(acc, A, mode) => Resting(r, A, mode) BY <2>1, Zenon DEF Resting
  <2>3. Since(m0, acc) => Since(m0, r) BY <2>1, Zenon DEF Since
  <2> QED BY <1>0, <2>1, <2>2, <2>3
<1>3. CASE r = PruneBid(acc, bid) BY <1>3, PruneStep
<1>4. ASSUME NEW fill, NEW c, NEW q, Taken(acc, ask, bid, fill, c, q, r)
      PROVE  /\ r \in Accs
             /\ ask \in A /\ Resting(acc, A, mode) /\ Since(m0, acc)
                /\ acc.market.free > 0 /\ bid \in acc.market.bids =>
                   /\ Resting(r, A, mode) /\ Since(m0, r)
                   /\ r.market.free >= acc.market.free - 1
                   /\ acc.market.bids \ {bid} \subseteq r.market.bids
  BY <1>4, TakenStep
<1>5. BidResult(ask, max_fills, acc, bid, r) BY BidCases
<1> QED BY <1>1, <1>2, <1>3, <1>4, <1>5, Zenon DEF BidResult

\* The bids' walk as a function of the bids that it has met.
IsBidWalk(it, S, ask, max_fills, acc) ==
    /\ it \in [SUBSET S -> Accs]
    /\ match_resting_bids(ask, max_fills, acc) = it[S]
    /\ it[{}] = [acc EXCEPT !.stop = FALSE]
    /\ \A s \in SUBSET S : s # {} =>
          \E bid \in s : /\ IsLast(bid, s, TRUE)
                         /\ it[s] = match_bid(ask, max_fills, it[s \ {bid}], bid)

\* The fold over the bids of a book exists and threads accumulators.
LEMMA BidWalk ==
    ASSUME NEW ask \in AskOrder, NEW max_fills, NEW acc \in Accs, world \in Worlds,
           ask.rate >= world.apr, Ranked(acc.market.bids), BidSet(acc.market.bids)
    PROVE  \E it : IsBidWalk(it, acc.market.bids, ask, max_fills, acc)
<1>a. PICK base : base = [acc EXCEPT !.stop = FALSE] OBVIOUS
<1>b. base \in Accs BY <1>a DEF Accs
<1>1. PICK S : S = acc.market.bids OBVIOUS
<1>2. S \subseteq BidOrder /\ IsFiniteSet(S) /\ \A o \in S : o.snapshot > 0 BY <1>1 DEF BidSet
<1>3. PICK pick : pick = [s \in SUBSET S |-> Worst(s, TRUE)] OBVIOUS
<1>4. \A s \in SUBSET S : s # {} => Worst(s, TRUE) \in s BY <1>1, WorstIn
<1>5. \A s \in SUBSET S : s # {} => pick[s] \in s BY <1>3, <1>4
<1>6. PICK f : f = [p \in Accs \X S |-> match_bid(ask, max_fills, p[1], p[2])] OBVIOUS
<1>7. \A a \in Accs, bid \in S : match_bid(ask, max_fills, a, bid) \in Accs
  BY <1>2, BidStep
<1>8. f \in [Accs \X S -> Accs] BY <1>6, <1>7
<1>9. PICK g \in [SUBSET S -> Accs] : \A s \in SUBSET S : Follows(g, base, pick, f, s)
  BY <1>b, <1>2, <1>5, <1>8, FoldExists
<1> DEFINE Eq(h) ==
        h = [s \in SUBSET S |->
               IF s = {} THEN base
               ELSE LET x == Worst(s, TRUE)
                    IN  match_bid(ask, max_fills, h[s \ {x}], x)]
<1>10. Eq(g)
  <2>1. ASSUME NEW s \in SUBSET S
        PROVE  g[s] = IF s = {} THEN base
                      ELSE LET x == Worst(s, TRUE)
                           IN  match_bid(ask, max_fills, g[s \ {x}], x)
    <3>1. CASE s = {} BY <1>9, <3>1 DEF Follows
    <3>2. CASE s # {}
      <4>1. PICK x : x = Worst(s, TRUE) OBVIOUS
      <4>2. x \in S /\ x = pick[s] /\ s \ {x} \in SUBSET S BY <1>3, <1>4, <3>2, <4>1
      <4>3. g[s] = f[<<g[s \ {x}], x>>] BY <1>9, <3>2, <4>2 DEF Follows
      <4>4. g[s \ {x}] \in Accs BY <1>9, <4>2
      <4>5. f[<<g[s \ {x}], x>>] = match_bid(ask, max_fills, g[s \ {x}], x)
        BY <1>6, <4>2, <4>4
      <4> QED BY <3>2, <4>1, <4>3, <4>5
    <3> QED BY <3>1, <3>2
  <2> QED BY <1>9, <2>1
<1>11. match_resting_bids(ask, max_fills, acc) = (CHOOSE h : Eq(h))[S]
  BY <1>a, <1>1 DEF match_resting_bids, Walk, MapThenFoldSet
<1> HIDE DEF Eq
<1>12. PICK it : it = (CHOOSE h : Eq(h)) OBVIOUS
<1>13. Eq(it) BY <1>10, <1>12
<1>14. /\ it[{}] = base
       /\ \A s \in SUBSET S : s # {} =>
             it[s] = match_bid(ask, max_fills, it[s \ {Worst(s, TRUE)}], Worst(s, TRUE))
  BY <1>13 DEF Eq
<1>15. DOMAIN it = SUBSET S /\ it = [s \in SUBSET S |-> it[s]] BY <1>13 DEF Eq
<1> DEFINE T == {s \in SUBSET S : it[s] \in Accs}
<1>16. \A s \in SUBSET S : s \in T
  <2>1. {} \in T BY <1>b, <1>14
  <2>2. ASSUME NEW s \in SUBSET S, s # {} PROVE \E x \in s : (s \ {x} \in T => s \in T)
    <3>1. PICK x : x = Worst(s, TRUE) OBVIOUS
    <3>2. x \in s /\ x \in S BY <1>4, <2>2, <3>1
    <3>3. it[s] = match_bid(ask, max_fills, it[s \ {x}], x) BY <1>14, <2>2, <3>1
    <3>4. s \ {x} \in T => s \in T BY <1>7, <3>2, <3>3
    <3> QED BY <3>2, <3>4
  <2> HIDE DEF T
  <2> QED BY <1>2, <2>1, <2>2, SubsetInduction, Zenon
<1>17. it \in [SUBSET S -> Accs] BY <1>15, <1>16
<1>18. match_resting_bids(ask, max_fills, acc) = it[S] BY <1>11, <1>12
<1>19. \A s \in SUBSET S : s # {} =>
          \E bid \in s : /\ IsLast(bid, s, TRUE)
                         /\ it[s] = match_bid(ask, max_fills, it[s \ {bid}], bid)
  BY <1>1, <1>4, <1>14, WorstIn
<1>20. it[{}] = [acc EXCEPT !.stop = FALSE] BY <1>a, <1>14
<1>21. IsBidWalk(it, S, ask, max_fills, acc) BY <1>17, <1>18, <1>19, <1>20 DEF IsBidWalk
<1> QED BY <1>1, <1>21

\* Growing the market adds free blocks and nothing else.
LEMMA GrowShape ==
    ASSUME NEW m \in Markets, NEW n \in Nat, NEW m2, m2 = expand_market_to_free_blocks(m, n)
    PROVE  /\ m2 \in Markets /\ m2.asks = m.asks /\ m2.bids = m.bids /\ m2.nodes = m.nodes
           /\ m2.seats = m.seats /\ m2.order_seq = m.order_seq /\ m2.loan_seq = m.loan_seq
           /\ m2.free >= n /\ m2.free >= m.free /\ m2.blocks - m2.free = m.blocks - m.free
<1>1. PICK f, k : f = MaxOf(m.free, n) /\ k = m.blocks + SatSub(n, m.free) OBVIOUS
<1>2. m.free \in Nat /\ m.blocks \in Nat BY DEF Markets
<1>3. /\ f \in Nat /\ k \in Nat /\ f >= n /\ f >= m.free /\ k - f = m.blocks - m.free
  BY <1>1, <1>2 DEF MaxOf, SatSub
<1>4. m2 = [m EXCEPT !.free = f, !.blocks = k]
  BY <1>1 DEF expand_market_to_free_blocks, Markets
<1>5. /\ m2 \in Markets /\ m2.asks = m.asks /\ m2.bids = m.bids /\ m2.nodes = m.nodes
      /\ m2.seats = m.seats /\ m2.order_seq = m.order_seq /\ m2.loan_seq = m.loan_seq
      /\ m2.free = f /\ m2.blocks = k
  BY <1>3, <1>4 DEF Markets
<1> QED BY <1>3, <1>5

\* Growing the market keeps the book.
LEMMA GrowKeepsBook ==
    ASSUME NEW mode, NEW m, NEW L, NEW b, NEW k \in Int, NEW n \in Nat, NEW m2,
           Book(m, L, b, k, mode), m2 = expand_market_to_free_blocks(m, n)
    PROVE  Book(m2, L, b, k, mode)
<1>1. m \in Markets BY DEF Book
<1>2. /\ m2 \in Markets /\ m2.asks = m.asks /\ m2.bids = m.bids /\ m2.nodes = m.nodes
      /\ m2.seats = m.seats /\ m2.order_seq = m.order_seq /\ m2.loan_seq = m.loan_seq
      /\ m2.blocks - m2.free = m.blocks - m.free
  BY <1>1, GrowShape
<1>3. PICK d \in Int : d = 0 OBVIOUS
<1>4. SharesMoved(m, m2, b, d)
  <2>1. m.order_seq \in Nat BY <1>1 DEF Markets
  <2>2. \A t \in Traders : m.seats[t].encumbered \in Int BY <1>1 DEF Markets, Seat
  <2> QED BY <1>2, <1>3, <2>1, <2>2 DEF SharesMoved, At
<1>5. Book(m2, L, b, k + d, mode) BY <1>2, <1>4, MoveKeepsBook
<1>6. k + d = k BY <1>3
<1> QED BY <1>5, <1>6, Zenon

\* An ask that grows the market to one block per bid walks the bids without running
\* out of blocks, whatever it fills, prunes and leaves.
LEMMA TakeKeeps ==
    ASSUME NEW mode, NEW A, NEW ask \in AskOrder, ask \in A, NEW max_fills, NEW acc \in Accs,
           NEW m0, NEW r,
           world \in Worlds, ask.rate >= world.apr, Resting(acc, A, mode), Since(m0, acc),
           r = take_resting_bids(ask, max_fills, acc)
    PROVE  r \in Accs /\ Resting(r, A, mode) /\ Since(m0, r)
<1>1. PICK m \in Markets : m = acc.market BY DEF Accs
<1>2. Book(m, loans, NIL, 0, mode) BY <1>1 DEF Resting
<1>3. PICK n \in Nat : n = Cardinality(m.bids) BY <1>2, BookSets
<1>4. PICK m1 : m1 = expand_market_to_free_blocks(m, n) OBVIOUS
<1>5. /\ m1 \in Markets /\ m1.asks = m.asks /\ m1.bids = m.bids /\ m1.nodes = m.nodes
      /\ m1.seats = m.seats /\ m1.order_seq = m.order_seq /\ m1.loan_seq = m.loan_seq
      /\ m1.free >= n
  BY <1>4, GrowShape
<1>6. Book(m1, loans, NIL, 0, mode) BY <1>2, <1>4, GrowKeepsBook
<1>7. PICK a1 : a1 = [acc EXCEPT !.market = m1] OBVIOUS
<1>8. /\ a1 \in Accs /\ a1.market = m1 /\ a1.vault = acc.vault /\ a1.aborted = acc.aborted
  BY <1>5, <1>7 DEF Accs
<1>9. r = match_resting_bids(ask, max_fills, a1)
  BY <1>1, <1>3, <1>4, <1>7, Zenon DEF take_resting_bids
<1>10. PICK S : S = m1.bids OBVIOUS
<1>11. BidSet(S) BY <1>6, <1>10, BookSets
<1>12. Ranked(S) BY <1>6, <1>10, <1>11 DEF Ranked, BidSet, BidOrder, Book, OrdersOK
<1>13. PICK it :
         /\ it \in [SUBSET S -> Accs]
         /\ match_resting_bids(ask, max_fills, a1) = it[S]
         /\ it[{}] = [a1 EXCEPT !.stop = FALSE]
         /\ \A s \in SUBSET S : s # {} =>
               \E bid \in s : it[s] = match_bid(ask, max_fills, it[s \ {bid}], bid)
  <2>1. \E it : IsBidWalk(it, a1.market.bids, ask, max_fills, a1)
    <3>1. Ranked(a1.market.bids) /\ BidSet(a1.market.bids) BY <1>8, <1>10, <1>11, <1>12
    <3> QED BY <1>8, <3>1, BidWalk
  <2>2. PICK it : IsBidWalk(it, S, ask, max_fills, a1) BY <1>8, <1>10, <2>1
  <2>3. \A s \in SUBSET S : s # {} =>
           \E bid \in s : it[s] = match_bid(ask, max_fills, it[s \ {bid}], bid)
    BY <2>2, Zenon DEF IsBidWalk
  <2> QED BY <2>2, <2>3, Zenon DEF IsBidWalk
<1>14. IsFiniteSet(S) BY <1>11 DEF BidSet
<1>15. \A s \in SUBSET S : IsFiniteSet(s) /\ Cardinality(s) \in Nat
           /\ Cardinality(s) <= Cardinality(S)
  BY <1>14, FS_Subset, FS_CardinalityType
<1>16. Cardinality(S) = n BY <1>3, <1>5, <1>10, Zenon
<1> DEFINE T == {s \in SUBSET S :
                    /\ Resting(it[s], A, mode) /\ Since(m0, it[s])
                    /\ S \ s \subseteq it[s].market.bids
                    /\ it[s].market.free + Cardinality(s) >= Cardinality(S)}
<1>17. {} \in T
  <2>1. Cardinality({}) = 0 BY FS_EmptySet
  <2>2. PICK a2 : a2 = it[{}] OBVIOUS
  <2>3. a2.market = m1 /\ a2.vault = acc.vault /\ a2.aborted = acc.aborted
    BY <1>8, <1>13, <2>2 DEF Accs
  <2>4. Resting(a2, A, mode) BY <1>6, <2>3 DEF Resting
  <2>5. Since(m0, a2) BY <1>1, <1>5, <2>3 DEF Since, FixedOnly
  <2>6. m1.free \in Nat /\ m1.free >= Cardinality(S) BY <1>5, <1>16 DEF Markets
  <2> QED BY <1>10, <2>1, <2>2, <2>3, <2>4, <2>5, <2>6
<1>18. ASSUME NEW s \in SUBSET S, s # {} PROVE \E x \in s : (s \ {x} \in T => s \in T)
  <2>1. PICK bid \in s : it[s] = match_bid(ask, max_fills, it[s \ {bid}], bid) BY <1>13, <1>18
  <2> SUFFICES ASSUME s \ {bid} \in T PROVE s \in T BY <2>1
  <2>2. PICK a, a2 : a = it[s \ {bid}] /\ a2 = it[s] OBVIOUS
  <2>3. a \in Accs /\ a2 \in Accs BY <1>13, <2>2
  <2>4. /\ Resting(a, A, mode) /\ Since(m0, a) /\ S \ (s \ {bid}) \subseteq a.market.bids
        /\ a.market.free + Cardinality(s \ {bid}) >= Cardinality(S)
    BY <2>2
  <2>5. Cardinality(s) = Cardinality(s \ {bid}) + 1 /\ Cardinality(s \ {bid}) \in Nat
    BY <1>15, <2>1, CardRemove
  <2>6. a.market.free \in Nat /\ a2.market.free \in Nat BY <2>3 DEF Accs, Markets
  <2>7. Cardinality(s) <= Cardinality(S) /\ Cardinality(S) \in Nat BY <1>15
  <2>8. a.market.free > 0 BY <2>4, <2>5, <2>6, <2>7
  <2>9. bid \in a.market.bids /\ bid \in BidOrder /\ bid.snapshot > 0
    BY <1>11, <2>1, <2>4 DEF BidSet
  <2>10. /\ Resting(a2, A, mode) /\ Since(m0, a2) /\ a2.market.free >= a.market.free - 1
         /\ a.market.bids \ {bid} \subseteq a2.market.bids
    <3>1. a2 = match_bid(ask, max_fills, a, bid) BY <2>1, <2>2, Zenon
    <3>2. ask \in A /\ ask \in AskOrder /\ world \in Worlds /\ ask.rate >= world.apr OBVIOUS
    <3>3. BidKept(mode, A, ask, bid, m0, a, a2)
      BY <2>3, <2>9, <3>1, <3>2, BidStep, Zenon
    <3> QED BY <2>4, <2>8, <2>9, <3>2, <3>3, Zenon DEF BidKept
  <2>11. a2.market.free + Cardinality(s) >= Cardinality(S)
    BY <2>4, <2>5, <2>6, <2>7, <2>10
  <2>12. S \ s \subseteq a2.market.bids BY <2>1, <2>4, <2>10
  <2> QED BY <2>2, <2>10, <2>11, <2>12
<1>19. S \in T
  <2> HIDE DEF T
  <2>1. \A s \in SUBSET S : s \in T BY <1>14, <1>17, <1>18, SubsetInduction, Zenon
  <2> QED BY <2>1
<1>20. r = it[S] /\ r \in Accs BY <1>9, <1>13
<1> QED BY <1>19, <1>20

-----------------------------------------------------------------------------
(* The crank *)

CrankStep(budget, acc, ask) ==
    IF acc.fills >= budget \/ ask.rate < world.apr THEN acc
    ELSE take_resting_bids(ask, budget, acc)

\* What the crank threads through the asks.
Cranks(mode) == {a \in Accs : Resting(a, market.asks, mode) /\ Since(market, a)}

\* One ask of the crank.
LEMMA CrankStepKeeps ==
    ASSUME NEW mode, NEW budget, NEW acc \in Cranks(mode), NEW ask \in AskOrder,
           ask \in market.asks, world \in Worlds
    PROVE  CrankStep(budget, acc, ask) \in Cranks(mode)
<1>1. world.apr \in Nat /\ ask.rate \in Nat BY BookAssumption DEF AskOrder
<1>2. CASE acc.fills >= budget \/ ask.rate < world.apr BY <1>2 DEF CrankStep
<1>3. CASE ~(acc.fills >= budget \/ ask.rate < world.apr)
  <2>1. ask.rate >= world.apr BY <1>1, <1>3
  <2>2. PICK r : r = take_resting_bids(ask, budget, acc) OBVIOUS
  <2>3. acc \in Accs /\ Resting(acc, market.asks, mode) /\ Since(market, acc) BY DEF Cranks
  <2>4. r \in Accs /\ Resting(r, market.asks, mode) /\ Since(market, r)
    BY <2>1, <2>2, <2>3, TakeKeeps
  <2>5. CrankStep(budget, acc, ask) = r BY <1>3, <2>2, Zenon DEF CrankStep
  <2> QED BY <2>4, <2>5 DEF Cranks
<1> QED BY <1>2, <1>3

\* The crank walks every ask, each over all the bids; only an overpriced ask of the book
\* makes it abort.
LEMMA CrankKeeps ==
    ASSUME NEW mode, NEW budget, NEW r, world \in Worlds, Walking(market, 0, 0) \in Cranks(mode),
           r = match_crank(budget)
    PROVE  r \in Cranks(mode)
<1>0. PICK base \in Cranks(mode) : base = Walking(market, 0, 0) OBVIOUS
<1>1. PICK S : S = market.asks OBVIOUS
<1>2. S \subseteq AskOrder /\ IsFiniteSet(S) /\ Ranked(S)
  <2>1. base.market = market BY <1>0 DEF Walking
  <2>2. Book(market, loans, NIL, 0, mode) BY <2>1 DEF Cranks, Resting
  <2> QED BY <1>1, <2>2 DEF Book, OrdersOK, Markets, Ranked, AskOrder
<1>3. PICK pick : pick = [s \in SUBSET S |-> Worst(s, FALSE)] OBVIOUS
<1>4. \A s \in SUBSET S : s # {} => Worst(s, FALSE) \in s BY <1>2, WorstIn
<1>5. \A s \in SUBSET S : s # {} => pick[s] \in s BY <1>3, <1>4
<1>6. PICK f : f = [p \in Cranks(mode) \X S |-> CrankStep(budget, p[1], p[2])] OBVIOUS
<1>7. \A a \in Cranks(mode), ask \in S : CrankStep(budget, a, ask) \in Cranks(mode)
  BY <1>1, <1>2, CrankStepKeeps
<1>8. f \in [Cranks(mode) \X S -> Cranks(mode)] BY <1>6, <1>7
<1>9. PICK g \in [SUBSET S -> Cranks(mode)] : \A s \in SUBSET S : Follows(g, base, pick, f, s)
  BY <1>2, <1>5, <1>8, FoldExists
<1> DEFINE Eq(h) ==
        h = [s \in SUBSET S |->
               IF s = {} THEN base
               ELSE LET x == Worst(s, FALSE)
                    IN  CrankStep(budget, h[s \ {x}], x)]
<1>10. Eq(g)
  <2>1. ASSUME NEW s \in SUBSET S
        PROVE  g[s] = IF s = {} THEN base
                      ELSE LET x == Worst(s, FALSE)
                           IN  CrankStep(budget, g[s \ {x}], x)
    <3>1. CASE s = {} BY <1>9, <3>1 DEF Follows
    <3>2. CASE s # {}
      <4>1. PICK x : x = Worst(s, FALSE) OBVIOUS
      <4>2. x \in S /\ x = pick[s] /\ s \ {x} \in SUBSET S BY <1>3, <1>4, <3>2, <4>1
      <4>3. g[s] = f[<<g[s \ {x}], x>>] BY <1>9, <3>2, <4>2 DEF Follows
      <4>4. g[s \ {x}] \in Cranks(mode) BY <1>9, <4>2
      <4>5. f[<<g[s \ {x}], x>>] = CrankStep(budget, g[s \ {x}], x)
        BY <1>6, <4>2, <4>4
      <4> QED BY <3>2, <4>1, <4>3, <4>5
    <3> QED BY <3>1, <3>2
  <2> QED BY <1>9, <2>1
<1>11. match_crank(budget) = (CHOOSE h : Eq(h))[S]
  BY <1>0, <1>1 DEF match_crank, Walk, MapThenFoldSet, CrankStep
<1> HIDE DEF Eq
<1>12. PICK it : it = (CHOOSE h : Eq(h)) OBVIOUS
<1>13. Eq(it) BY <1>10, <1>12
<1>14. /\ it[{}] = base
       /\ \A s \in SUBSET S : s # {} =>
             it[s] = CrankStep(budget, it[s \ {Worst(s, FALSE)}], Worst(s, FALSE))
  BY <1>13 DEF Eq
<1> DEFINE T == {s \in SUBSET S : it[s] \in Cranks(mode)}
<1>15. \A s \in SUBSET S : s \in T
  <2>1. {} \in T BY <1>14
  <2>2. ASSUME NEW s \in SUBSET S, s # {} PROVE \E x \in s : (s \ {x} \in T => s \in T)
    <3>1. PICK x : x = Worst(s, FALSE) OBVIOUS
    <3>2. x \in s /\ x \in S BY <1>4, <2>2, <3>1
    <3>3. it[s] = CrankStep(budget, it[s \ {x}], x) BY <1>14, <2>2, <3>1
    <3>4. s \ {x} \in T => s \in T BY <1>7, <3>2, <3>3
    <3> QED BY <3>2, <3>4
  <2> HIDE DEF T
  <2> QED BY <1>2, <2>1, <2>2, SubsetInduction, Zenon
<1> QED BY <1>11, <1>12, <1>15

-----------------------------------------------------------------------------
(* The residual of a taking bid *)

\* Of the loans queued between the two markets at most one borrows from the pool, and
\* it borrows n shares.
PoolGrows(m0, m, n) ==
    /\ m.loan_seq - Cardinality(m.nodes) = m0.loan_seq - Cardinality(m0.nodes)
    /\ \/ n = 0 /\ PoolOf(m.nodes) = PoolOf(m0.nodes)
       \/ \E l \in PoolOf(m.nodes) :
             /\ l.shares = n /\ l \notin m0.nodes
             /\ PoolOf(m.nodes) = PoolOf(m0.nodes) \cup {l}

\* What a placement that began with market m0 has done when it ends: the bids are
\* those of m0, or what is left of them, and the residual if it rests.
Settled(m0, a, b, seq, rested, n) ==
    /\ a.market.asks = m0.asks /\ a.market.order_seq = m0.order_seq
    /\ \A t \in Traders :
          a.market.seats[t].withdrawable + a.market.seats[t].encumbered
            = m0.seats[t].withdrawable + m0.seats[t].encumbered
    /\ \A bid \in a.market.bids :
          \/ rested /\ bid.seq = seq /\ bid.trader = b
          \/ \E old \in m0.bids : old.seq = bid.seq /\ old.trader = bid.trader
    /\ \A l \in a.market.nodes \ m0.nodes : l.lender # NIL => LoanHonoursTerms(l)
    /\ PoolGrows(m0, a.market, n)

\* A residual that borrows from the pool queues a loan without a lender.
LEMMA PoolStep ==
    ASSUME NEW mode, NEW A, NEW b \in Borrowers, NEW bid \in BidParams,
           NEW snapshot \in Nat \ {0}, snapshot <= world.asv,
           NEW acc \in Accs, NEW m0, NEW seq, NEW rested, NEW r, world \in Worlds,
           Taking(acc, b, bid, snapshot, A, mode), Since(m0, acc), acc.market.free >= 1,
           r = get_free_address(
                   [acc EXCEPT !.market = QueueLoan(@, PoolNode(acc, b, bid, snapshot))])
    PROVE  /\ r \in Accs /\ Resting(r, A, mode)
           /\ Settled(m0, r, b, seq, rested, marginfi_borrow_shares(acc.principal))
           /\ acc.market.bids \subseteq r.market.bids
<1>1. PICK node : node = PoolNode(acc, b, bid, snapshot) OBVIOUS
<1>2. PICK sh : sh = marginfi_borrow_shares(acc.principal) OBVIOUS
<1>3. sh \in Nat
  <2>1. world.lsv \in Nat \ {0} BY BookAssumption
  <2>2. acc.principal \in Nat BY DEF Accs
  <2> QED BY <1>2, <2>1, <2>2, SharesTyped, Zenon DEF marginfi_borrow_shares
<1>4. /\ node \in MatchedLoan /\ node.borrower = b /\ node.lender = NIL
      /\ node.snapshot = snapshot /\ node.collateral = acc.collateral
      /\ node.seq = acc.market.loan_seq /\ node.shares = sh
  BY <1>1, <1>2, <1>3 DEF PoolNode, MatchedLoan, Accs, Markets, BidParams
<1>5. PICK m \in Markets : m = acc.market BY DEF Accs
<1>6. PICK m1 : m1 = QueueLoan(m, node) OBVIOUS
<1>7. /\ m1 \in Markets
      /\ m1.asks = m.asks /\ m1.bids = m.bids /\ m1.order_seq = m.order_seq
      /\ m1.blocks = m.blocks /\ m1.free = m.free
      /\ m1.nodes = m.nodes \cup {node} /\ m1.loan_seq = m.loan_seq + 1
      /\ \A t \in Traders :
           /\ m1.seats[t].claimed = m.seats[t].claimed
           /\ m1.seats[t].withdrawable = m.seats[t].withdrawable
           /\ m1.seats[t].encumbered = m.seats[t].encumbered
           /\ m1.seats[t].open_borrow = m.seats[t].open_borrow + At(t, node.borrower, 1)
           /\ m1.seats[t].open_lend = m.seats[t].open_lend + At(t, node.lender, 1)
  BY <1>4, <1>6, QueueShape
<1>8. PICK base : base = [acc EXCEPT !.market = m1] OBVIOUS
<1>9. base \in Accs /\ base.market = m1 /\ base.vault = acc.vault /\ base.aborted = acc.aborted
  BY <1>7, <1>8 DEF Accs
<1>10. r = get_free_address(base) BY <1>1, <1>5, <1>6, <1>8, Zenon
<1>11. /\ r \in Accs
       /\ r.aborted <=> base.aborted \/ base.market.free = 0
       /\ r.market.asks = base.market.asks /\ r.market.bids = base.market.bids
       /\ r.market.nodes = base.market.nodes /\ r.market.seats = base.market.seats
       /\ r.market.order_seq = base.market.order_seq
       /\ r.market.loan_seq = base.market.loan_seq /\ r.market.blocks = base.market.blocks
       /\ base.market.free > 0 => r.market.free = base.market.free - 1
  BY <1>9, <1>10, FreeShape
<1>12. m.free > 0 /\ m.free # 0 BY <1>5 DEF Markets
<1>13. LoanAdded(m, r.market, node) BY <1>7, <1>9, <1>11, <1>12 DEF LoanAdded
<1>14. r.aborted => Overpriced(A) # {}
  BY <1>7, <1>9, <1>11, <1>12 DEF Taking
<1>15. PICK n \in Nat : n = amount_to_asset_shares(acc.collateral, snapshot)
  BY SharesTyped DEF Accs
<1>16. LoanShares(node) = n BY <1>4, <1>15, Zenon DEF LoanShares
<1>17. Book(m, loans, b, n, mode) BY <1>5, <1>15, Zenon DEF Taking
<1>18. Book(r.market, loans, b, 0, mode)
  <2>1. n - LoanShares(node) - 1 <= 0 /\ 0 <= n - LoanShares(node) BY <1>16
  <2>2. node.snapshot > 0 /\ node.snapshot <= world.asv /\ node.seq = m.loan_seq BY <1>4, <1>5
  <2>3. r.market \in Markets BY <1>11 DEF Accs
  <2> QED BY <1>4, <1>13, <1>17, <2>1, <2>2, <2>3, LoanKeepsBook
<1>19. Resting(r, A, mode) BY <1>14, <1>18, Refocus DEF Resting
<1>20. Settled(m0, r, b, seq, rested, sh)
  <2>1. PoolGrows(m0, r.market, sh)
    <3>1. r.market.nodes = m.nodes \cup {node} /\ r.market.loan_seq = m.loan_seq + 1
      BY <1>7, <1>9, <1>11
    <3>2. LoansOK(m, loans) /\ m.loan_seq \in Nat BY <1>17 DEF Book, Markets
    <3>3. node \notin m.nodes /\ IsFiniteSet(m.nodes) BY <1>4, <1>5, <3>2 DEF LoansOK
    <3>4. /\ Cardinality(m.nodes) \in Nat
          /\ Cardinality(m.nodes \cup {node}) = Cardinality(m.nodes) + 1
      BY <3>3, CardAdd
    <3>5. FixedOnly(m0, m) BY <1>5 DEF Since
    <3>6. r.market.loan_seq - Cardinality(r.market.nodes)
            = m0.loan_seq - Cardinality(m0.nodes)
      <4>1. m.loan_seq - Cardinality(m.nodes) = m0.loan_seq - Cardinality(m0.nodes)
        BY <3>5 DEF FixedOnly
      <4>2. (m.loan_seq + 1) - (Cardinality(m.nodes) + 1) = m.loan_seq - Cardinality(m.nodes)
        BY <3>2, <3>4
      <4> QED BY <3>1, <3>4, <4>1, <4>2, Zenon
    <3>7. PoolOf(r.market.nodes) = PoolOf(m0.nodes) \cup {node} /\ node \in PoolOf(r.market.nodes)
      BY <1>4, <3>1, <3>5 DEF FixedOnly, PoolOf
    <3>8. node \notin m0.nodes BY <1>4, <3>3, <3>5 DEF FixedOnly, PoolOf
    <3> QED BY <1>4, <3>6, <3>7, <3>8 DEF PoolGrows
  <2> QED BY <1>4, <1>5, <1>7, <1>9, <1>11, <2>1 DEF Settled, Since
<1> QED BY <1>2, <1>5, <1>7, <1>9, <1>11, <1>19, <1>20

\* A residual that rests carries the shares that are left, under its own sequence.
LEMMA RestStep ==
    ASSUME NEW mode, NEW A, NEW b \in Borrowers, NEW bid \in BidParams,
           NEW snapshot \in Nat \ {0}, snapshot <= world.asv,
           NEW acc \in Accs, NEW m0, NEW seq \in Nat, NEW r,
           Taking(acc, b, bid, snapshot, A, mode), Since(m0, acc), acc.market.free >= 1,
           acc.principal > 0, seq < acc.market.order_seq,
           \A o \in acc.market.bids \cup acc.market.asks : o.seq # seq,
           r = get_free_address(
                 [acc EXCEPT !.market.bids = @ \cup {RestingBid(acc, b, bid, snapshot, seq)}])
    PROVE  /\ r \in Accs /\ Resting(r, A, mode) /\ Settled(m0, r, b, seq, TRUE, 0)
           /\ acc.market.bids \subseteq r.market.bids
<1>1. PICK rest : rest = RestingBid(acc, b, bid, snapshot, seq) OBVIOUS
<1>2. /\ rest \in BidOrder /\ rest.trader = b /\ rest.seq = seq
      /\ rest.snapshot = snapshot /\ rest.collateral = acc.collateral
  BY <1>1 DEF RestingBid, BidOrder, Accs, BidParams
<1>3. PICK m \in Markets : m = acc.market BY DEF Accs
<1>4. PICK B : B = m.bids \cup {rest} OBVIOUS
<1>5. B \in SUBSET BidOrder BY <1>2, <1>4 DEF Markets
<1>6. PICK m1 : m1 = [m EXCEPT !.bids = B] OBVIOUS
<1>7. /\ m1 \in Markets
      /\ m1.asks = m.asks /\ m1.bids = B /\ m1.order_seq = m.order_seq
      /\ m1.blocks = m.blocks /\ m1.free = m.free /\ m1.seats = m.seats
      /\ m1.nodes = m.nodes /\ m1.loan_seq = m.loan_seq
  BY <1>5, <1>6 DEF Markets
<1>8. PICK base : base = [acc EXCEPT !.market = m1] OBVIOUS
<1>9. base \in Accs /\ base.market = m1 /\ base.vault = acc.vault /\ base.aborted = acc.aborted
  BY <1>7, <1>8 DEF Accs
<1>10. r = get_free_address(base)
  <2>1. [acc EXCEPT !.market.bids = @ \cup {rest}] = base
    BY <1>3, <1>4, <1>6, <1>8 DEF Accs
  <2>2. r = get_free_address([acc EXCEPT !.market.bids = @ \cup {rest}]) BY <1>1, Zenon
  <2> QED BY <2>1, <2>2, Zenon
<1>11. /\ r \in Accs
       /\ r.aborted <=> base.aborted \/ base.market.free = 0
       /\ r.market.asks = base.market.asks /\ r.market.bids = base.market.bids
       /\ r.market.nodes = base.market.nodes /\ r.market.seats = base.market.seats
       /\ r.market.order_seq = base.market.order_seq
       /\ r.market.loan_seq = base.market.loan_seq /\ r.market.blocks = base.market.blocks
       /\ base.market.free > 0 => r.market.free = base.market.free - 1
  BY <1>9, <1>10, FreeShape
<1>12. m.free > 0 /\ m.free # 0 /\ m.order_seq \in Nat BY <1>3 DEF Markets
<1>13. PICK m2 : m2 = r.market OBVIOUS
<1>a. /\ m2.asks = m.asks /\ m2.nodes = m.nodes /\ m2.seats = m.seats
      /\ m2.order_seq = m.order_seq /\ m2.loan_seq = m.loan_seq
      /\ m2.blocks = m.blocks /\ m2.free = m.free - 1 /\ m2.bids = m.bids \cup {rest}
  BY <1>4, <1>7, <1>9, <1>11, <1>12, <1>13
<1>b. BidPut(m, m2, rest)
  <2>1. m2.order_seq >= m.order_seq BY <1>12, <1>a
  <2> QED BY <1>a, <2>1, Zenon DEF BidPut
<1>14. r.aborted => Overpriced(A) # {}
  BY <1>7, <1>9, <1>11, <1>12 DEF Taking
<1>15. PICK n \in Nat : n = amount_to_asset_shares(acc.collateral, snapshot)
  BY SharesTyped DEF Accs
<1>16. OrderShares(rest) = n BY <1>2, <1>15, Zenon DEF OrderShares
<1>17. Book(m, loans, b, n, mode) BY <1>3, <1>15, Zenon DEF Taking
<1>18. Book(r.market, loans, b, 0, mode)
  <2>1. /\ rest.snapshot > 0 /\ rest.snapshot <= world.asv
        /\ rest.seq < r.market.order_seq
    BY <1>2, <1>3, <1>13, <1>a
  <2>2. \A o \in m.bids \cup m.asks : o.seq # rest.seq BY <1>2, <1>3
  <2>3. r.market \in Markets BY <1>11 DEF Accs
  <2>4. Book(r.market, loans, b, n - OrderShares(rest), mode)
    BY <1>2, <1>13, <1>b, <1>17, <2>1, <2>2, <2>3, PutKeepsBook
  <2>5. n - OrderShares(rest) = 0 BY <1>16
  <2> QED BY <2>4, <2>5, Zenon
<1>19. Resting(r, A, mode) BY <1>14, <1>18, Refocus DEF Resting
<1>20. Settled(m0, r, b, seq, TRUE, 0)
  <2>1. m2.asks = m0.asks /\ m2.order_seq = m0.order_seq BY <1>3, <1>a DEF Since
  <2>2. \A t \in Traders : m2.seats[t].withdrawable + m2.seats[t].encumbered
                             = m0.seats[t].withdrawable + m0.seats[t].encumbered
    BY <1>3, <1>a DEF Since
  <2>3. \A o \in m2.bids : \/ TRUE /\ o.seq = seq /\ o.trader = b
                           \/ \E old \in m0.bids : old.seq = o.seq /\ old.trader = o.trader
    <3>1. \A o \in m.bids : \E old \in m0.bids : old.seq = o.seq /\ old.trader = o.trader
      BY <1>3 DEF Since
    <3> QED BY <1>2, <1>a, <3>1
  <2>4. \A l \in m2.nodes \ m0.nodes : l.lender # NIL => LoanHonoursTerms(l)
    BY <1>3, <1>a DEF Since
  <2>5. PoolGrows(m0, m2, 0) BY <1>3, <1>a, Zenon DEF Since, FixedOnly, PoolGrows
  <2> QED BY <1>13, <2>1, <2>2, <2>3, <2>4, <2>5, Zenon DEF Settled
<1> QED BY <1>3, <1>11, <1>13, <1>a, <1>19, <1>20

\* A residual that is dropped gives back the shares that are left.
LEMMA DropStep ==
    ASSUME NEW mode, NEW A, NEW b \in Borrowers, NEW bid \in BidParams,
           NEW snapshot \in Nat \ {0}, snapshot <= world.asv,
           NEW acc \in Accs, NEW m0, NEW seq, NEW rested, NEW r,
           Taking(acc, b, bid, snapshot, A, mode), Since(m0, acc),
           r = [acc EXCEPT !.market.seats =
                  unencumber_for_order(@, b, amount_to_asset_shares(acc.collateral, snapshot))]
    PROVE  /\ r \in Accs /\ Resting(r, A, mode) /\ Settled(m0, r, b, seq, rested, 0)
           /\ acc.market.bids \subseteq r.market.bids
<1>1. PICK n \in Nat : n = amount_to_asset_shares(acc.collateral, snapshot)
  BY SharesTyped DEF Accs
<1>2. PICK m \in Markets : m = acc.market BY DEF Accs
<1>3. PICK seats : seats = unencumber_for_order(m.seats, b, n) OBVIOUS
<1>4. m.seats \in [Traders -> Seat] BY DEF Markets
<1>5. /\ seats \in [Traders -> Seat]
      /\ \A t \in Traders :
           /\ seats[t].claimed = m.seats[t].claimed
           /\ seats[t].encumbered = m.seats[t].encumbered + At(t, b, -n)
           /\ seats[t].withdrawable + seats[t].encumbered
                = m.seats[t].withdrawable + m.seats[t].encumbered
           /\ seats[t].open_borrow = m.seats[t].open_borrow
           /\ seats[t].open_lend = m.seats[t].open_lend
  BY <1>3, <1>4, UnencumberShape
<1>6. PICK m1 : m1 = [m EXCEPT !.seats = seats] OBVIOUS
<1>7. /\ m1 \in Markets
      /\ m1.asks = m.asks /\ m1.bids = m.bids /\ m1.order_seq = m.order_seq
      /\ m1.blocks = m.blocks /\ m1.free = m.free /\ m1.seats = seats
      /\ m1.nodes = m.nodes /\ m1.loan_seq = m.loan_seq
  BY <1>5, <1>6 DEF Markets
<1>8. r = [acc EXCEPT !.market = m1]
  <2>1. r = [acc EXCEPT !.market.seats = unencumber_for_order(acc.market.seats, b, n)]
    BY <1>1, Zenon
  <2>2. r = [acc EXCEPT !.market.seats = seats] BY <1>2, <1>3, <2>1, Zenon
  <2> QED BY <1>2, <1>6, <2>2 DEF Accs
<1>9. r \in Accs /\ r.market = m1 /\ r.vault = acc.vault /\ r.aborted = acc.aborted
  BY <1>7, <1>8 DEF Accs
<1>10. PICK d \in Int : d = -n OBVIOUS
<1>11. SharesMoved(m, m1, b, d)
  <2>1. SharesMoved(m, m1, b, -n)
    <3>1. m.order_seq \in Nat BY DEF Markets
    <3> QED BY <1>5, <1>7, <3>1 DEF SharesMoved
  <2> QED BY <1>10, <2>1, Zenon
<1>12. Book(m, loans, b, n, mode) BY <1>1, <1>2, Zenon DEF Taking
<1>13. Book(m1, loans, b, n + d, mode) BY <1>7, <1>11, <1>12, MoveKeepsBook
<1>14. n + d = 0 BY <1>10
<1>15. Book(m1, loans, b, 0, mode) BY <1>13, <1>14, Zenon
<1>16. Resting(r, A, mode) BY <1>9, <1>15, Refocus DEF Resting, Taking
<1>17. Settled(m0, r, b, seq, rested, 0)
  BY <1>2, <1>5, <1>7, <1>9 DEF Settled, Since, FixedOnly, PoolGrows
<1> QED BY <1>2, <1>7, <1>9, <1>16, <1>17

\* Whatever becomes of the residual, no shares stay in flight and the block that
\* it may need is there.
LEMMA SettleKeeps ==
    ASSUME NEW mode, NEW A, NEW b \in Borrowers, NEW bid \in BidParams,
           NEW snapshot \in Nat \ {0}, snapshot <= world.asv,
           NEW acc \in Accs, NEW m0, NEW seq \in Nat, NEW r, NEW rested, NEW n,
           world \in Worlds, Taking(acc, b, bid, snapshot, A, mode), Since(m0, acc),
           acc.market.free >= 1,
           seq < acc.market.order_seq,
           \A o \in acc.market.bids \cup acc.market.asks : o.seq # seq,
           r = SettleResidual(acc, b, bid, snapshot, seq),
           rested = (acc.principal > 0 /\ bid.mode = "REST"),
           n = IF acc.principal > 0 /\ bid.mode = "P2POOL_FALLBACK"
               THEN marginfi_borrow_shares(acc.principal) ELSE 0
    PROVE  /\ r \in Accs /\ Resting(r, A, mode) /\ Settled(m0, r, b, seq, rested, n)
           /\ acc.market.bids \subseteq r.market.bids
<1>0. acc.principal \in Nat /\ bid.mode \in RESIDUAL_MODES BY DEF Accs, BidParams
<1>1. CASE acc.principal = 0
  <2>1. r = acc BY <1>1, <1>0 DEF SettleResidual
  <2>2. Book(acc.market, loans, b, amount_to_asset_shares(0, snapshot), mode)
        /\ (acc.aborted => Overpriced(A) # {})
    BY <1>1, Zenon DEF Taking
  <2>3. amount_to_asset_shares(0, snapshot) = 0 BY SharesTyped
  <2>4. Book(acc.market, loans, b, 0, mode) BY <2>2, <2>3, Zenon
  <2>5. Resting(r, A, mode) BY <2>1, <2>2, <2>4, Refocus DEF Resting
  <2>6. n = 0 BY <1>1
  <2>7. Settled(m0, r, b, seq, rested, 0)
    BY <2>1, Zenon DEF Settled, Since, FixedOnly, PoolGrows
  <2>8. acc.market.bids \subseteq r.market.bids BY <2>1
  <2> QED BY <2>1, <2>5, <2>6, <2>7, <2>8, Zenon
<1>2. CASE acc.principal > 0 /\ bid.mode = "P2POOL_FALLBACK"
  <2>1. r = get_free_address(
              [acc EXCEPT !.market = QueueLoan(@, PoolNode(acc, b, bid, snapshot))])
    BY <1>0, <1>2 DEF SettleResidual
  <2>2. n = marginfi_borrow_shares(acc.principal) BY <1>2
  <2>3. /\ r \in Accs /\ Resting(r, A, mode)
        /\ Settled(m0, r, b, seq, rested, marginfi_borrow_shares(acc.principal))
        /\ acc.market.bids \subseteq r.market.bids
    BY <2>1, PoolStep
  <2> QED BY <2>2, <2>3, Zenon
<1>3. CASE acc.principal > 0 /\ bid.mode = "REST"
  <2>1. r = get_free_address(
              [acc EXCEPT !.market.bids = @ \cup {RestingBid(acc, b, bid, snapshot, seq)}])
    BY <1>0, <1>3 DEF SettleResidual
  <2>2. /\ r \in Accs /\ Resting(r, A, mode) /\ Settled(m0, r, b, seq, TRUE, 0)
        /\ acc.market.bids \subseteq r.market.bids
    BY <1>3, <2>1, RestStep
  <2>3. n = 0 BY <1>3
  <2>4. rested BY <1>3
  <2>5. Settled(m0, r, b, seq, rested, 0) BY <2>2, <2>4, Zenon DEF Settled
  <2> QED BY <2>2, <2>3, <2>5, Zenon
<1>4. CASE acc.principal > 0 /\ bid.mode = "DROP"
  <2>1. r = [acc EXCEPT !.market.seats =
               unencumber_for_order(@, b, amount_to_asset_shares(acc.collateral, snapshot))]
    BY <1>0, <1>4 DEF SettleResidual
  <2>2. n = 0 BY <1>4
  <2>3. /\ r \in Accs /\ Resting(r, A, mode) /\ Settled(m0, r, b, seq, rested, 0)
        /\ acc.market.bids \subseteq r.market.bids
    BY <2>1, DropStep
  <2> QED BY <2>2, <2>3, Zenon
<1> QED BY <1>0, <1>1, <1>2, <1>3, <1>4 DEF RESIDUAL_MODES

\* Encumbering moves shares from the free balance of one seat to its locked one.
LEMMA EncumberShape ==
    ASSUME NEW seats \in [Traders -> Seat], NEW b \in Borrowers, NEW n \in Nat, NEW s2,
           n <= seats[b].withdrawable, s2 = encumber_for_order(seats, b, n)
    PROVE  /\ s2 \in [Traders -> Seat]
           /\ \A t \in Traders :
                /\ s2[t].claimed = seats[t].claimed
                /\ s2[t].encumbered = seats[t].encumbered + At(t, b, n)
                /\ s2[t].withdrawable + s2[t].encumbered
                     = seats[t].withdrawable + seats[t].encumbered
                /\ s2[t].open_borrow = seats[t].open_borrow
                /\ s2[t].open_lend = seats[t].open_lend
<1>1. b \in Traders BY DEF Traders
<1>2. PICK s : s = [seats[b] EXCEPT !.withdrawable = seats[b].withdrawable - n,
                                    !.encumbered = seats[b].encumbered + n]
  OBVIOUS
<1>3. s2 = [seats EXCEPT ![b] = s] BY <1>1, <1>2 DEF encumber_for_order, Seat
<1>4. seats[b] \in Seat BY <1>1
<1>7. /\ seats[b].encumbered \in Int /\ seats[b].withdrawable \in Nat BY <1>4 DEF Seat
<1>5. s \in Seat
  <2>1. PICK x, y : x = seats[b].encumbered + n /\ y = seats[b].withdrawable - n OBVIOUS
  <2>2. x \in Int /\ y \in Nat BY <1>7, <2>1
  <2>3. s = [seats[b] EXCEPT !.withdrawable = y, !.encumbered = x] BY <1>2, <2>1
  <2> QED BY <1>4, <2>2, <2>3 DEF Seat
<1>6. /\ s.claimed = seats[b].claimed /\ s.open_borrow = seats[b].open_borrow
      /\ s.open_lend = seats[b].open_lend
      /\ s.encumbered = seats[b].encumbered + n /\ s.withdrawable = seats[b].withdrawable - n
  BY <1>2, <1>4 DEF Seat
<1>8. ASSUME NEW t \in Traders
      PROVE  /\ s2[t].claimed = seats[t].claimed
             /\ s2[t].encumbered = seats[t].encumbered + At(t, b, n)
             /\ s2[t].withdrawable + s2[t].encumbered
                  = seats[t].withdrawable + seats[t].encumbered
             /\ s2[t].open_borrow = seats[t].open_borrow
             /\ s2[t].open_lend = seats[t].open_lend
  <2>1. CASE t = b
    <3>1. s2[t] = s BY <1>3, <2>1
    <3> QED BY <1>6, <1>7, <2>1, <3>1 DEF At
  <2>2. CASE t # b
    <3>1. s2[t] = seats[t] BY <1>3, <2>2
    <3>2. seats[t].encumbered \in Int BY DEF Seat
    <3> QED BY <2>2, <3>1, <3>2 DEF At
  <2> QED BY <2>1, <2>2
<1> QED BY <1>3, <1>5, <1>8

\* The asks that a placement reads: none without the vault account.
Offered(with_vault) == IF with_vault THEN market.asks ELSE {}

\* Room for every ask and the residual is enough for a placement, and every share that it
\* encumbers ends in a loan, the resting bid or the seat.
LEMMA PlaceKeeps ==
    ASSUME NEW mode, NEW b \in Borrowers, NEW bid \in BidParams, NEW with_vault \in BOOLEAN,
           NEW a, NEW r, NEW rested, NEW k,
           world \in Worlds, vault \in Lenders, Book(market, loans, NIL, 0, mode), MayPlace(b, bid),
           a = match_borrower_bid(b, bid, with_vault), r = place_order(b, bid, with_vault),
           rested = (a.principal > 0 /\ bid.mode = "REST"),
           k = IF a.principal > 0 /\ bid.mode = "P2POOL_FALLBACK"
               THEN marginfi_borrow_shares(a.principal) ELSE 0
    PROVE  /\ a \in Accs /\ r \in Accs /\ Resting(r, Offered(with_vault), mode)
           /\ r.market.order_seq = market.order_seq + 1 /\ r.market.asks = market.asks
           /\ \A t \in Traders :
                 r.market.seats[t].withdrawable + r.market.seats[t].encumbered
                   = market.seats[t].withdrawable + market.seats[t].encumbered
           /\ \A o \in r.market.bids :
                 \/ rested /\ o.seq = market.order_seq /\ o.trader = b
                 \/ \E old \in market.bids : old.seq = o.seq /\ old.trader = o.trader
           /\ \A l \in r.market.nodes \ market.nodes : l.lender # NIL => LoanHonoursTerms(l)
           /\ PoolGrows(market, r.market, k)
           /\ market.bids \subseteq r.market.bids
<1>a. PICK A : A = Offered(with_vault) OBVIOUS
<1>1. PICK v : v = world.asv OBVIOUS
<1>2. v \in Nat \ {0} /\ v <= world.asv BY <1>1, BookAssumption
<1>3. /\ bid.collateral \in Nat /\ bid.principal \in Nat /\ bid.principal > 0
  BY DEF BidParams, MayPlace
<1>4. PICK n \in Nat : n = amount_to_asset_shares(bid.collateral, v) BY <1>2, <1>3, SharesTyped
<1>5. market \in Markets BY DEF Book
<1>6. PICK N \in Nat : N = Cardinality(market.asks) + 1
  <2>1. Cardinality(market.asks) \in Nat BY BookSets, Zenon
  <2> QED BY <2>1
<1>7. PICK g : g = expand_market_to_free_blocks(market, N) OBVIOUS
<1>8. /\ g \in Markets /\ g.asks = market.asks /\ g.bids = market.bids /\ g.nodes = market.nodes
      /\ g.seats = market.seats /\ g.order_seq = market.order_seq /\ g.loan_seq = market.loan_seq
      /\ g.free >= N
  BY <1>5, <1>7, GrowShape
<1>9. Book(g, loans, b, 0, mode)
  <2>1. Book(g, loans, NIL, 0, mode) BY <1>7, GrowKeepsBook
  <2> QED BY <2>1, Refocus
<1>10. PICK seats : seats = encumber_for_order(g.seats, b, n) OBVIOUS
<1>11. /\ seats \in [Traders -> Seat]
       /\ \A t \in Traders :
            /\ seats[t].claimed = g.seats[t].claimed
            /\ seats[t].encumbered = g.seats[t].encumbered + At(t, b, n)
            /\ seats[t].withdrawable + seats[t].encumbered
                 = g.seats[t].withdrawable + g.seats[t].encumbered
            /\ seats[t].open_borrow = g.seats[t].open_borrow
            /\ seats[t].open_lend = g.seats[t].open_lend
  <2>1. g.seats \in [Traders -> Seat] BY <1>8 DEF Markets
  <2>2. n <= g.seats[b].withdrawable BY <1>1, <1>4, <1>8 DEF MayPlace
  <2> QED BY <1>10, <2>1, <2>2, EncumberShape
<1>12. PICK q \in Nat : q = g.order_seq + 1 BY <1>8 DEF Markets
<1>13. PICK p : p = [g EXCEPT !.seats = seats, !.order_seq = q] OBVIOUS
<1>14. /\ p \in Markets /\ p.asks = g.asks /\ p.bids = g.bids /\ p.nodes = g.nodes
       /\ p.seats = seats /\ p.order_seq = q /\ p.loan_seq = g.loan_seq
       /\ p.free = g.free /\ p.blocks = g.blocks
  BY <1>8, <1>11, <1>13 DEF Markets
<1>15. Book(p, loans, b, n, mode)
  <2>1. SharesMoved(g, p, b, n)
    <3>1. g.order_seq \in Nat BY <1>8 DEF Markets
    <3> QED BY <1>11, <1>12, <1>14, <3>1 DEF SharesMoved
  <2>2. Book(p, loans, b, 0 + n, mode)
    <3>1. 0 \in Int /\ n \in Int OBVIOUS
    <3> QED BY <1>9, <1>14, <2>1, <3>1, MoveKeepsBook, Zenon
  <2>3. 0 + n = n OBVIOUS
  <2> QED BY <2>2, <2>3, Zenon
<1>16. PICK w : w = Walking(p, bid.principal, bid.collateral) OBVIOUS
<1>17. /\ w \in Accs /\ w.market = p /\ w.vault = vault /\ w.principal = bid.principal
       /\ w.collateral = bid.collateral /\ w.aborted = FALSE
  BY <1>3, <1>14, <1>16 DEF Walking, Accs
<1>18. a = match_order(b, bid, v, with_vault, w)
  BY <1>1, <1>4, <1>6, <1>7, <1>8, <1>10, <1>12, <1>13, <1>16 DEF match_borrower_bid
<1>19. Taking(w, b, bid, v, A, mode)
  <2>1. Book(w.market, loans, b, amount_to_asset_shares(w.collateral, v), mode)
    BY <1>4, <1>15, <1>17, Zenon
  <2>2. bid.collateral * w.principal <= w.collateral * bid.principal BY <1>3, <1>17
  <2>3. ~w.aborted /\ ~(w.principal = 0) BY <1>3, <1>17
  <2> QED BY <2>1, <2>2, <2>3, Zenon DEF Taking
<1>20. Since(p, w) BY <1>17 DEF Since, FixedOnly
<1>21. /\ a \in Accs /\ Taking(a, b, bid, v, A, mode) /\ Since(p, a)
       /\ a.market.free >= 1 /\ a.market.bids = w.market.bids
  <2>1. CASE with_vault
    <3>1. w.market.free >= Cardinality(w.market.asks) + 1 BY <1>6, <1>8, <1>14, <1>17
    <3>2. w.market.asks \subseteq A BY <1>a, <1>8, <1>14, <1>17, <2>1 DEF Offered
    <3>3. a = WalkAsks(b, bid, v, w)
      <4>1. with_vault = TRUE BY <2>1
      <4> QED BY <1>18, <4>1, Zenon DEF WalkAsks
    <3>4. bid.principal > 0 /\ world \in Worlds /\ bid \in BidParams BY <1>3
    <3>5. a \in Accs /\ WalkKept(mode, A, b, bid, v, p, w, a)
      BY <1>2, <1>17, <1>19, <1>20, <3>1, <3>2, <3>3, <3>4, MatchOrderKeeps
    <3> QED BY <3>5, Zenon DEF WalkKept
  <2>2. CASE ~with_vault
    <3>1. a = w BY <1>18, <2>2, Zenon DEF match_order
    <3>2. Cardinality(market.asks) \in Nat BY BookSets, Zenon
    <3>3. w.market.free >= 1 BY <1>6, <1>8, <1>14, <1>17, <3>2 DEF Markets
    <3> QED BY <1>17, <1>19, <1>20, <3>1, <3>3
  <2> QED BY <2>1, <2>2
<1>22. PICK s \in Nat : s = market.order_seq BY <1>5 DEF Markets
<1>23. r = SettleResidual(a, b, bid, v, s) BY <1>1, <1>22, Zenon DEF place_order
<1>24. s < a.market.order_seq BY <1>8, <1>12, <1>14, <1>21, <1>22 DEF Since
<1>25. \A o \in a.market.bids \cup a.market.asks : o.seq # s
  <2>1. \A o \in market.bids \cup market.asks : o.seq < s /\ o.seq \in Nat
    BY <1>5, <1>22 DEF Book, OrdersOK, Markets, BidOrder, AskOrder
  <2>2. a.market.asks = market.asks BY <1>8, <1>14, <1>21 DEF Since
  <2>3. \A o \in a.market.bids : \E old \in market.bids : old.seq = o.seq
    BY <1>8, <1>14, <1>21 DEF Since
  <2>4. \A o \in market.bids \cup market.asks : o.seq # s BY <2>1
  <2> QED BY <2>2, <2>3, <2>4
<1>26. /\ r \in Accs /\ Resting(r, A, mode) /\ Settled(p, r, b, s, rested, k)
       /\ a.market.bids \subseteq r.market.bids
  BY <1>2, <1>21, <1>23, <1>24, <1>25, SettleKeeps
<1>27. r.market.order_seq = market.order_seq + 1 /\ r.market.asks = market.asks
  BY <1>8, <1>12, <1>14, <1>26 DEF Settled
<1>28. \A t \in Traders :
          r.market.seats[t].withdrawable + r.market.seats[t].encumbered
            = market.seats[t].withdrawable + market.seats[t].encumbered
  BY <1>8, <1>11, <1>14, <1>26 DEF Settled
<1>29. \A o \in r.market.bids :
          \/ rested /\ o.seq = market.order_seq /\ o.trader = b
          \/ \E old \in market.bids : old.seq = o.seq /\ old.trader = o.trader
  <2>1. p.bids = market.bids BY <1>8, <1>14
  <2> QED BY <1>22, <1>26, <2>1, Zenon DEF Settled
<1>30. \A l \in r.market.nodes \ market.nodes : l.lender # NIL => LoanHonoursTerms(l)
  <2>1. p.nodes = market.nodes BY <1>8, <1>14
  <2> QED BY <1>26, <2>1, Zenon DEF Settled
<1>31. PoolGrows(market, r.market, k)
  <2>1. p.nodes = market.nodes /\ p.loan_seq = market.loan_seq BY <1>8, <1>14
  <2> QED BY <1>26, <2>1, Zenon DEF Settled, PoolGrows
<1>32. market.bids \subseteq r.market.bids BY <1>8, <1>14, <1>17, <1>21, <1>26
<1> QED BY <1>a, <1>21, <1>26, <1>27, <1>28, <1>29, <1>30, <1>31, <1>32

-----------------------------------------------------------------------------
(* Seats, asks, promotion and repayment *)

\* Claiming a seat writes its flag and takes a block.
LEMMA ClaimShape ==
    ASSUME NEW m \in Markets, NEW t \in Traders, NEW m2, m.free >= 1, m2 = claim_seat(m, t)
    PROVE  /\ m2 \in Markets
           /\ m2.asks = m.asks /\ m2.bids = m.bids /\ m2.nodes = m.nodes
           /\ m2.order_seq = m.order_seq /\ m2.loan_seq = m.loan_seq
           /\ m2.blocks = m.blocks /\ m2.free = m.free - 1
           /\ \A u \in Traders :
                /\ m2.seats[u].claimed <=> u = t \/ m.seats[u].claimed
                /\ m2.seats[u].withdrawable = m.seats[u].withdrawable
                /\ m2.seats[u].encumbered = m.seats[u].encumbered
                /\ m2.seats[u].open_borrow = m.seats[u].open_borrow
                /\ m2.seats[u].open_lend = m.seats[u].open_lend
<1>1. PICK seats : seats = [m.seats EXCEPT ![t].claimed = TRUE] OBVIOUS
<1>2. PICK f : f = m.free - 1 OBVIOUS
<1>3. m.seats \in [Traders -> Seat] /\ f \in Nat BY <1>2 DEF Markets
<1>4. /\ seats \in [Traders -> Seat]
      /\ \A u \in Traders :
           /\ seats[u].claimed <=> u = t \/ m.seats[u].claimed
           /\ seats[u].withdrawable = m.seats[u].withdrawable
           /\ seats[u].encumbered = m.seats[u].encumbered
           /\ seats[u].open_borrow = m.seats[u].open_borrow
           /\ seats[u].open_lend = m.seats[u].open_lend
  BY <1>1, <1>3 DEF Seat
<1>5. m2 = [m EXCEPT !.free = f, !.seats = seats] BY <1>1, <1>2 DEF claim_seat, Markets
<1>6. /\ m2 \in Markets
      /\ m2.asks = m.asks /\ m2.bids = m.bids /\ m2.nodes = m.nodes
      /\ m2.order_seq = m.order_seq /\ m2.loan_seq = m.loan_seq
      /\ m2.blocks = m.blocks /\ m2.free = f /\ m2.seats = seats
  BY <1>3, <1>4, <1>5 DEF Markets
<1> QED BY <1>2, <1>4, <1>6

\* A seat that is claimed for the first time takes one block.
LEMMA ClaimKeepsBook ==
    ASSUME NEW mode, NEW m, NEW L, NEW t \in Traders, NEW m2, Book(m, L, NIL, 0, mode), m.free >= 1,
           ~m.seats[t].claimed, m2 = claim_seat(m, t)
    PROVE  Book(m2, L, NIL, 0, mode)
<1>1. m \in Markets BY DEF Book
<1>2. /\ m2 \in Markets
      /\ m2.asks = m.asks /\ m2.bids = m.bids /\ m2.nodes = m.nodes
      /\ m2.order_seq = m.order_seq /\ m2.loan_seq = m.loan_seq
      /\ m2.blocks = m.blocks /\ m2.free = m.free - 1
      /\ \A u \in Traders :
           /\ m2.seats[u].claimed <=> u = t \/ m.seats[u].claimed
           /\ m2.seats[u].withdrawable = m.seats[u].withdrawable
           /\ m2.seats[u].encumbered = m.seats[u].encumbered
           /\ m2.seats[u].open_borrow = m.seats[u].open_borrow
           /\ m2.seats[u].open_lend = m.seats[u].open_lend
  BY <1>1, ClaimShape
<1>3. OrdersOK(m2) BY <1>2 DEF Book, OrdersOK
<1>4. LoansOK(m2, L) /\ CountsOK(m2, L, mode) BY <1>2, LoansUntouched DEF Book
<1>5. BlocksOK(m2)
  <2>1. PICK C : C = Claimed(m) OBVIOUS
  <2>2. Claimed(m2) = C \cup {t} /\ t \notin C BY <1>2, <2>1 DEF Claimed
  <2>3. IsFiniteSet(C)
    <3>1. IsFiniteSet(Traders) BY FS_Union, BookAssumption DEF Traders
    <3> QED BY <2>1, <3>1, FS_Subset DEF Claimed
  <2>4. Cardinality(C \cup {t}) = Cardinality(C) + 1 /\ Cardinality(C) \in Nat
    BY <2>2, <2>3, CardAdd
  <2>5. Cardinality(m.bids) \in Nat /\ Cardinality(m.asks) \in Nat /\ Cardinality(m.nodes) \in Nat
    BY BookSets, Zenon
  <2>6. m.blocks = m.free + Cardinality(C) + Cardinality(m.asks)
                     + Cardinality(m.bids) + Cardinality(m.nodes)
    BY <2>1 DEF Book, BlocksOK
  <2>7. m.free \in Nat BY <1>1 DEF Markets
  <2>8. m2.blocks = m2.free + (Cardinality(C) + 1) + Cardinality(m.asks)
                     + Cardinality(m.bids) + Cardinality(m.nodes)
    BY <1>2, <2>4, <2>5, <2>6, <2>7
  <2> QED BY <1>2, <2>2, <2>4, <2>8, Zenon DEF BlocksOK
<1>6. EncumberedOK(m2, L, NIL, 0, mode)
  <2>1. \A c : Due(m2, L, c) = Due(m, L, c) BY <1>2, Zenon DEF Due
  <2> QED BY <1>2, <2>1 DEF Book, EncumberedOK
<1> QED BY <1>2, <1>3, <1>4, <1>5, <1>6 DEF Book

\* An ask is in m2 and not in m; its sub-vault's seat counts it and it holds a block.
AskAdded(m, m2, ask) ==
    /\ m2.bids = m.bids /\ m2.nodes = m.nodes /\ m2.loan_seq = m.loan_seq
    /\ m2.blocks = m.blocks /\ m2.free = m.free - 1
    /\ ask \notin m.asks /\ m2.asks = m.asks \cup {ask}
    /\ \A t \in Traders :
          /\ m2.seats[t].claimed = m.seats[t].claimed
          /\ m2.seats[t].withdrawable = m.seats[t].withdrawable
          /\ m2.seats[t].encumbered = m.seats[t].encumbered
          /\ m2.seats[t].open_borrow = m.seats[t].open_borrow
          /\ m2.seats[t].open_lend = m.seats[t].open_lend + At(t, ask.trader, 1)

\* What a market with one ask more or less has in common with the other.
LEMMA AskCounts ==
    ASSUME NEW mode, NEW m \in Markets, NEW m2 \in Markets, NEW L, NEW ask \in AskOrder,
           IsFiniteSet(m.asks), IsFiniteSet(m.bids), LoansOK(m, L), AskAdded(m, m2, ask)
    PROVE  /\ IsFiniteSet(m2.asks)
           /\ LoansOK(m2, L)
           /\ CountsOK(m, L, mode) <=> CountsOK(m2, L, mode)
           /\ BlocksOK(m) <=> BlocksOK(m2)
           /\ EncumberedOK(m, L, NIL, 0, mode) <=> EncumberedOK(m2, L, NIL, 0, mode)
<1>1. PICK S : S = m.asks OBVIOUS
<1>2. m2.asks = S \cup {ask} /\ ask \notin S /\ IsFiniteSet(S) BY <1>1 DEF AskAdded
<1>3. IsFiniteSet(S \cup {ask}) /\ Cardinality(S) \in Nat
          /\ Cardinality(S \cup {ask}) = Cardinality(S) + 1
  BY <1>2, CardAdd
<1>4. IsFiniteSet(m2.asks) /\ Cardinality(m2.asks) = Cardinality(m.asks) + 1
  BY <1>1, <1>2, <1>3, Zenon
<1>5. LoansOK(m2, L) BY Zenon DEF LoansOK, AskAdded
<1>6. m2.nodes \cup L = m.nodes \cup L BY DEF AskAdded
<1>7. CountsOK(m, L, mode) <=> CountsOK(m2, L, mode)
  <2>1. ASSUME NEW b \in Borrowers
        PROVE  /\ m2.seats[b].open_borrow = m.seats[b].open_borrow
               /\ Cardinality(LoansBy(m2.nodes \cup L, b)) = Cardinality(LoansBy(m.nodes \cup L, b))
    <3>1. m2.seats[b].open_borrow = m.seats[b].open_borrow BY DEF AskAdded, Traders
    <3> QED BY <1>6, <3>1, Zenon
  <2>2. ASSUME NEW v \in SubVaults
        PROVE  m.seats[v].open_lend
                   = Cardinality(By(m.asks, v)) + Cardinality(LentBy(m.nodes \cup L, v))
               <=> m2.seats[v].open_lend
                   = Cardinality(By(m2.asks, v)) + Cardinality(LentBy(m2.nodes \cup L, v))
    <3>1. PICK k : k = Cardinality(LentBy(m.nodes \cup L, v)) OBVIOUS
    <3>2. k = Cardinality(LentBy(m2.nodes \cup L, v)) BY <1>6, <3>1, Zenon
    <3>3. k \in Nat
      <4>1. IsFiniteSet(m.nodes \cup L) BY FS_Union DEF LoansOK
      <4>2. IsFiniteSet(LentBy(m.nodes \cup L, v)) BY <4>1, FS_Subset DEF LentBy
      <4> QED BY <3>1, <4>2, FS_CardinalityType
    <3>4. /\ Cardinality(By(S, v)) \in Nat
          /\ Cardinality(By(S \cup {ask}, v)) = Cardinality(By(S, v)) + At(v, ask.trader, 1)
      BY <1>2, AskAdds
    <3>5. /\ Cardinality(By(m.asks, v)) \in Nat
          /\ Cardinality(By(m2.asks, v)) = Cardinality(By(m.asks, v)) + At(v, ask.trader, 1)
      BY <1>1, <1>2, <3>4, Zenon
    <3>6. m2.seats[v].open_lend = m.seats[v].open_lend + At(v, ask.trader, 1)
      BY DEF AskAdded, Traders
    <3>7. m.seats[v].open_lend \in Nat BY DEF Markets, Traders, Seat
    <3>8. At(v, ask.trader, 1) \in Nat BY DEF At
    <3> QED BY <3>1, <3>2, <3>3, <3>5, <3>6, <3>7, <3>8
  <2> QED BY <2>1, <2>2, Zenon DEF CountsOK
<1>8. BlocksOK(m) <=> BlocksOK(m2)
  <2>1. Claimed(m2) = Claimed(m) BY DEF Claimed, AskAdded
  <2>2. m2.bids = m.bids /\ m2.nodes = m.nodes /\ m2.blocks = m.blocks /\ m2.free = m.free - 1
    BY DEF AskAdded
  <2>3. Cardinality(m.bids) \in Nat /\ Cardinality(m.nodes) \in Nat
            /\ Cardinality(Claimed(m)) \in Nat
    <3>1. IsFiniteSet(Traders) BY FS_Union, BookAssumption DEF Traders
    <3>2. IsFiniteSet(Claimed(m)) BY <3>1, FS_Subset DEF Claimed
    <3> QED BY <3>2, FS_CardinalityType DEF LoansOK
  <2>4. m.free \in Nat /\ m.blocks \in Nat BY DEF Markets
  <2>5. Cardinality(m.asks) \in Nat BY FS_CardinalityType
  <2>6. m.blocks = m.free + Cardinality(Claimed(m)) + Cardinality(m.asks)
                     + Cardinality(m.bids) + Cardinality(m.nodes)
        <=> m2.blocks = m2.free + Cardinality(Claimed(m)) + Cardinality(m2.asks)
                     + Cardinality(m.bids) + Cardinality(m.nodes)
    BY <1>4, <2>2, <2>3, <2>4, <2>5
  <2> QED BY <2>1, <2>2, <2>6, Zenon DEF BlocksOK
<1>9. EncumberedOK(m, L, NIL, 0, mode) <=> EncumberedOK(m2, L, NIL, 0, mode)
  <2>1. \A c : Due(m2, L, c) = Due(m, L, c) BY Zenon DEF Due, AskAdded
  <2> QED BY <2>1 DEF EncumberedOK, AskAdded
<1> QED BY <1>4, <1>5, <1>7, <1>8, <1>9

\* What an ask that comes or goes writes on its sub-vault's seat.
LEMMA LendShape ==
    ASSUME NEW seats \in [Traders -> Seat], NEW v \in Traders, NEW k \in Nat, NEW s2,
           s2 = [seats EXCEPT ![v].open_lend = k]
    PROVE  /\ s2 \in [Traders -> Seat]
           /\ \A t \in Traders :
                /\ s2[t].claimed = seats[t].claimed
                /\ s2[t].withdrawable = seats[t].withdrawable
                /\ s2[t].encumbered = seats[t].encumbered
                /\ s2[t].open_borrow = seats[t].open_borrow
                /\ s2[t].open_lend = IF t = v THEN k ELSE seats[t].open_lend
  BY DEF Seat

\* A vault's ask has come to rest on a market.
AskRested(mode, m, L, v, m2) ==
    /\ Book(m2, L, NIL, 0, mode) /\ VaultAsk(v, m.order_seq) \in AskOrder
    /\ VaultAsk(v, m.order_seq).rate >= world.apr
    /\ m2.order_seq = m.order_seq + 1 /\ m2.bids = m.bids /\ m2.nodes = m.nodes
    /\ m2.loan_seq = m.loan_seq
    /\ \A t \in Traders : /\ m2.seats[t].withdrawable = m.seats[t].withdrawable
                          /\ m2.seats[t].encumbered = m.seats[t].encumbered

\* A fresh ask keeps the book.
LEMMA RestKeepsBook ==
    ASSUME NEW mode, NEW m, NEW L, NEW v \in SubVaults, NEW m2, Book(m, L, NIL, 0, mode),
           m.free >= 1,
           world \in Worlds, vault \in Lenders, m2 = rest_vault_ask(m, v)
    PROVE  AskRested(mode, m, L, v, m2)
<1>1. m \in Markets /\ m.seats \in [Traders -> Seat] /\ m.order_seq \in Nat BY DEF Book, Markets
<1>2. PICK ask : ask = VaultAsk(v, m.order_seq) OBVIOUS
<1>3. ask \in AskOrder /\ ask.trader = v /\ ask.seq = m.order_seq /\ ask.rate >= world.apr
  <2>1. vault[v].policy \in Policies BY DEF Lenders
  <2>2. vault[v].policy.spread \in Nat /\ vault[v].policy.max_term \in Nat BY <2>1, PolicyTyped
  <2>3. world.apr \in Nat BY BookAssumption
  <2> QED BY <1>1, <1>2, <2>2, <2>3 DEF VaultAsk, AskOrder
<1>4. v \in Traders BY DEF Traders
<1>5. PICK k : k = m.seats[v].open_lend + 1 OBVIOUS
<1>6. k \in Nat BY <1>1, <1>4, <1>5 DEF Seat
<1>7. PICK seats : seats = [m.seats EXCEPT ![v].open_lend = k] OBVIOUS
<1>8. /\ seats \in [Traders -> Seat]
      /\ \A t \in Traders :
           /\ seats[t].claimed = m.seats[t].claimed
           /\ seats[t].withdrawable = m.seats[t].withdrawable
           /\ seats[t].encumbered = m.seats[t].encumbered
           /\ seats[t].open_borrow = m.seats[t].open_borrow
           /\ seats[t].open_lend = IF t = v THEN k ELSE m.seats[t].open_lend
  BY <1>1, <1>4, <1>6, <1>7, LendShape
<1>9. PICK A, q, f : A = m.asks \cup {ask} /\ q = m.order_seq + 1 /\ f = m.free - 1 OBVIOUS
<1>10. A \in SUBSET AskOrder /\ q \in Nat /\ f \in Nat BY <1>1, <1>3, <1>9 DEF Markets
<1>11. m2 = [m EXCEPT !.asks = A, !.order_seq = q, !.seats = seats, !.free = f]
  BY <1>1, <1>2, <1>5, <1>7, <1>9 DEF rest_vault_ask, Markets
<1>12. /\ m2 \in Markets /\ m2.asks = A /\ m2.bids = m.bids /\ m2.nodes = m.nodes
       /\ m2.order_seq = q /\ m2.loan_seq = m.loan_seq /\ m2.blocks = m.blocks
       /\ m2.free = f /\ m2.seats = seats
  BY <1>1, <1>8, <1>10, <1>11 DEF Markets
<1>13. \A o \in m.bids \cup m.asks : o.seq \in Nat /\ o.seq < m.order_seq
  BY <1>1 DEF Book, OrdersOK, Markets, BidOrder, AskOrder
<1>14. \A o \in m.bids \cup m.asks : o.seq # ask.seq BY <1>1, <1>3, <1>13
<1>15. \A t \in Traders : m.seats[t].open_lend \in Nat BY <1>1 DEF Seat
<1>16. AskAdded(m, m2, ask)
  <2>1. ask \notin m.asks BY <1>14
  <2>2. \A t \in Traders : seats[t].open_lend = m.seats[t].open_lend + At(t, ask.trader, 1)
    BY <1>3, <1>5, <1>8, <1>15 DEF At
  <2> QED BY <1>8, <1>9, <1>12, <2>1, <2>2 DEF AskAdded
<1>17. /\ IsFiniteSet(m2.asks) /\ LoansOK(m2, L)
       /\ CountsOK(m2, L, mode) /\ BlocksOK(m2) /\ EncumberedOK(m2, L, NIL, 0, mode)
  BY <1>1, <1>3, <1>12, <1>16, AskCounts DEF Book, OrdersOK
<1>18. OrdersOK(m2)
  <2>1. \A o \in m2.bids \cup m2.asks : o.seq < m2.order_seq
    BY <1>1, <1>3, <1>9, <1>12, <1>13
  <2>2. \A o1, o2 \in m2.bids \cup m2.asks : o1.seq = o2.seq => o1 = o2
    BY <1>9, <1>12, <1>14 DEF Book, OrdersOK
  <2> QED BY <1>12, <1>17, <2>1, <2>2 DEF Book, OrdersOK
<1>19. Book(m2, L, NIL, 0, mode) BY <1>12, <1>17, <1>18 DEF Book
<1> QED BY <1>2, <1>3, <1>8, <1>9, <1>12, <1>19 DEF AskRested

\* What a cancelled ask leaves of a book.
AskCancelled(mode, m, L, m2) ==
    /\ Book(m2, L, NIL, 0, mode)
    /\ m2.order_seq = m.order_seq /\ m2.bids = m.bids /\ m2.nodes = m.nodes
    /\ m2.loan_seq = m.loan_seq /\ m2.free = m.free + 1
    /\ \A t \in Traders : /\ m2.seats[t].withdrawable = m.seats[t].withdrawable
                          /\ m2.seats[t].encumbered = m.seats[t].encumbered

\* An ask that leaves the book frees its block, and its seat had counted it.
LEMMA CancelKeepsBook ==
    ASSUME NEW mode, NEW m, NEW L, NEW ask \in m.asks, NEW m2, Book(m, L, NIL, 0, mode),
           m2 = cancel_vault_ask(m, ask)
    PROVE  AskCancelled(mode, m, L, m2)
<1>1. /\ m \in Markets /\ m.seats \in [Traders -> Seat] /\ m.free \in Nat
      /\ ask \in AskOrder /\ IsFiniteSet(m.asks)
  BY DEF Book, Markets, OrdersOK
<1>2. PICK v \in SubVaults : v = ask.trader BY <1>1 DEF AskOrder
<1>3. v \in Traders BY DEF Traders
<1>4. PICK A, f, k : A = m.asks \ {ask} /\ f = m.free + 1 /\ k = m.seats[v].open_lend - 1 OBVIOUS
<1>5. k \in Nat
  <2>1. m.seats[v].open_lend
          = Cardinality(By(m.asks, v)) + Cardinality(LentBy(m.nodes \cup L, v))
    BY DEF Book, CountsOK
  <2>2. IsFiniteSet(By(m.asks, v)) BY <1>1, FS_Subset DEF By
  <2>3. ask \in By(m.asks, v) BY <1>2 DEF By
  <2>4. Cardinality(By(m.asks, v)) \in Nat /\ Cardinality(By(m.asks, v)) >= 1
    <3>1. /\ Cardinality(By(m.asks, v)) \in Nat /\ Cardinality(By(m.asks, v) \ {ask}) \in Nat
          /\ Cardinality(By(m.asks, v)) = Cardinality(By(m.asks, v) \ {ask}) + 1
      BY <2>2, <2>3, CardRemove, Zenon
    <3> QED BY <3>1
  <2>5. LoanSet(m.nodes \cup L) BY BookSets
  <2>6. Cardinality(LentBy(m.nodes \cup L, v)) \in Nat BY <2>5, LoanSums
  <2> QED BY <1>4, <2>1, <2>4, <2>6
<1>6. PICK seats : seats = [m.seats EXCEPT ![v].open_lend = k] OBVIOUS
<1>7. /\ seats \in [Traders -> Seat]
      /\ \A t \in Traders :
           /\ seats[t].claimed = m.seats[t].claimed
           /\ seats[t].withdrawable = m.seats[t].withdrawable
           /\ seats[t].encumbered = m.seats[t].encumbered
           /\ seats[t].open_borrow = m.seats[t].open_borrow
           /\ seats[t].open_lend = IF t = v THEN k ELSE m.seats[t].open_lend
  BY <1>1, <1>3, <1>5, <1>6, LendShape
<1>8. A \in SUBSET AskOrder /\ f \in Nat BY <1>1, <1>4 DEF Markets
<1>9. PICK m1 : m1 = [m EXCEPT !.asks = A, !.seats = seats] OBVIOUS
<1>10. /\ m1 \in Markets /\ m1.asks = A /\ m1.bids = m.bids /\ m1.nodes = m.nodes
       /\ m1.order_seq = m.order_seq /\ m1.loan_seq = m.loan_seq /\ m1.blocks = m.blocks
       /\ m1.free = m.free /\ m1.seats = seats
  BY <1>1, <1>7, <1>8, <1>9 DEF Markets
<1>11. m2 = [m1 EXCEPT !.free = f]
  <2>1. [m EXCEPT !.asks = @ \ {ask}, !.seats[ask.trader].open_lend = @ - 1] = m1
    BY <1>1, <1>2, <1>4, <1>6, <1>9 DEF Markets
  <2>2. m2 = release_address(m1) BY <2>1, Zenon DEF cancel_vault_ask
  <2>3. m2 = [m1 EXCEPT !.free = m1.free + 1] BY <2>2 DEF release_address
  <2> QED BY <1>4, <1>10, <2>3, Zenon
<1>12. /\ m2 \in Markets /\ m2.asks = A /\ m2.bids = m.bids /\ m2.nodes = m.nodes
       /\ m2.order_seq = m.order_seq /\ m2.loan_seq = m.loan_seq /\ m2.blocks = m.blocks
       /\ m2.free = f /\ m2.seats = seats
  BY <1>8, <1>10, <1>11 DEF Markets
<1>13. \A t \in Traders : m.seats[t].open_lend \in Nat BY <1>1 DEF Seat
<1>14. AskAdded(m2, m, ask)
  <2>1. \A t \in Traders : m.seats[t].open_lend = seats[t].open_lend + At(t, ask.trader, 1)
    BY <1>2, <1>4, <1>7, <1>13 DEF At
  <2>2. m.free = f - 1 BY <1>1, <1>4
  <2>3. ask \notin A /\ m.asks = A \cup {ask} BY <1>4
  <2> QED BY <1>7, <1>12, <2>1, <2>2, <2>3 DEF AskAdded
<1>15. IsFiniteSet(A) BY <1>1, <1>4, FS_RemoveElement
<1>16. LoansOK(m2, L) BY <1>12 DEF Book, LoansOK
<1>17. CountsOK(m2, L, mode) /\ BlocksOK(m2) /\ EncumberedOK(m2, L, NIL, 0, mode)
  BY <1>1, <1>12, <1>14, <1>15, <1>16, AskCounts DEF Book, OrdersOK
<1>18. OrdersOK(m2) BY <1>4, <1>12, <1>15 DEF Book, OrdersOK
<1>19. Book(m2, L, NIL, 0, mode) BY <1>12, <1>16, <1>17, <1>18 DEF Book
<1> QED BY <1>4, <1>7, <1>12, <1>19 DEF AskCancelled

\* process_matched_loan and repay, as relations between two markets and loan sets.
Promoted(m, L, node, x, m2, L2) ==
    /\ m2 = release_address([m EXCEPT !.nodes = @ \ {node}])
    /\ L2 = L \cup {[node EXCEPT !.matures = x]}

Repaid(m, L, l, m2, L2) ==
    /\ m2 = [m EXCEPT !.seats = UncountLoan(@, l)]
    /\ L2 = L \ {l}

\* The market after a match became a loan.
LoanPromoted(mode, m, node, m2, L2) ==
    /\ Book(m2, L2, NIL, 0, mode) /\ m2.order_seq = m.order_seq /\ m2.bids = m.bids
    /\ m2.nodes = m.nodes \ {node} /\ m2.seats = m.seats /\ m2.loan_seq = m.loan_seq

\* A queued loan becomes a loan account: same borrower, lender and shares, and its
\* block is free.
LEMMA PromoteKeepsBook ==
    ASSUME NEW mode, NEW m, NEW L, NEW node \in m.nodes, NEW x \in Nat, NEW m2, NEW L2,
           Book(m, L, NIL, 0, mode), Promoted(m, L, node, x, m2, L2)
    PROVE  LoanPromoted(mode, m, node, m2, L2)
<1>0. L2 = L \cup {[node EXCEPT !.matures = x]} BY DEF Promoted
<1> USE <1>0
<1>1. m \in Markets /\ node \in MatchedLoan /\ m.free \in Nat BY DEF Book, Markets
<1>2. PICK l : l = [node EXCEPT !.matures = x] OBVIOUS
<1>3. /\ l \in MatchedLoan /\ l.seq = node.seq /\ l.borrower = node.borrower
      /\ l.lender = node.lender /\ l.snapshot = node.snapshot /\ l.collateral = node.collateral
  BY <1>1, <1>2 DEF MatchedLoan
<1>4. PICK N, f : N = m.nodes \ {node} /\ f = m.free + 1 OBVIOUS
<1>5. N \in SUBSET MatchedLoan /\ f \in Nat BY <1>1, <1>4 DEF Markets
<1>6. PICK m1 : m1 = [m EXCEPT !.nodes = N] OBVIOUS
<1>7. m1 \in Markets /\ m1.free = m.free BY <1>1, <1>5, <1>6 DEF Markets
<1>8. m2 = [m EXCEPT !.nodes = N, !.free = f]
  <2>1. m2 = release_address(m1) BY <1>4, <1>6 DEF Promoted
  <2>2. m2 = [m1 EXCEPT !.free = m1.free + 1] BY <2>1 DEF release_address
  <2>3. m2 = [m1 EXCEPT !.free = f] BY <1>4, <1>7, <2>2, Zenon
  <2> QED BY <1>1, <1>6, <2>3 DEF Markets
<1>9. /\ m2 \in Markets /\ m2.asks = m.asks /\ m2.bids = m.bids /\ m2.nodes = N
      /\ m2.order_seq = m.order_seq /\ m2.loan_seq = m.loan_seq /\ m2.blocks = m.blocks
      /\ m2.free = f /\ m2.seats = m.seats
  BY <1>1, <1>5, <1>8 DEF Markets
<1>10. PICK A : A = N \cup L OBVIOUS
<1>11. /\ m.nodes \cup L = A \cup {node} /\ m2.nodes \cup L2 = A \cup {l}
       /\ node \notin A /\ l \notin A
  <2>1. m.nodes \cap L = {} BY DEF Book, LoansOK
  <2>2. \A y \in m.nodes \cup L : y.seq = node.seq => y = node BY DEF Book, LoansOK
  <2>3. node \notin A BY <1>4, <1>10, <2>1
  <2>4. l \notin A BY <1>3, <1>4, <1>10, <2>2, <2>3
  <2>5. L2 = L \cup {l} BY <1>2
  <2> QED BY <1>4, <1>9, <1>10, <2>3, <2>4, <2>5
<1>12. LoanSet(A \cup {node}) /\ LoanSet(m.nodes) /\ \A c : Due(m, L, c) \in Nat
  BY <1>11, BookSets, Zenon
<1>13. /\ LoanSet(A) /\ node.snapshot > 0 /\ l.snapshot > 0
  <2>1. IsFiniteSet(A)
    <3>1. A \subseteq A \cup {node} OBVIOUS
    <3>2. IsFiniteSet(A \cup {node}) BY <1>12 DEF LoanSet
    <3> QED BY <3>1, <3>2, FS_Subset
  <2> QED BY <1>3, <1>12, <2>1 DEF LoanSet
<1>14. OrdersOK(m2) BY <1>9 DEF Book, OrdersOK
<1>15. IsFiniteSet(N) /\ Cardinality(N) \in Nat /\ Cardinality(m.nodes) = Cardinality(N) + 1
  BY <1>4, <1>12, CardRemove DEF LoanSet
<1>16. LoansOK(m2, L2)
  <2>1. IsFiniteSet(L2) BY FS_AddElement DEF Book, LoansOK
  <2>2. L2 = L \cup {l} /\ L2 \subseteq MatchedLoan BY <1>2, <1>3 DEF Book, LoansOK
  <2>3. N \cap L2 = {}
    <3>1. N \cap L = {} BY <1>4 DEF Book, LoansOK
    <3>2. l \notin N BY <1>10, <1>11
    <3> QED BY <2>2, <3>1, <3>2
  <2>4. \A y \in A \cup {node} :
          y.seq < m.loan_seq /\ y.snapshot > 0 /\ y.snapshot <= world.asv
    BY <1>11 DEF Book, LoansOK
  <2>5. \A y, z \in A \cup {node} : y.seq = z.seq => y = z BY <1>11 DEF Book, LoansOK
  <2>6. \A y \in A \cup {l} :
          y.seq < m.loan_seq /\ y.snapshot > 0 /\ y.snapshot <= world.asv
    BY <1>3, <1>13, <2>4
  <2>7. \A y \in A : y.seq # l.seq BY <1>3, <1>11, <2>5
  <2>8. \A y, z \in A \cup {l} : y.seq = z.seq => y = z BY <2>5, <2>7
  <2> QED BY <1>9, <1>11, <1>15, <2>1, <2>2, <2>3, <2>6, <2>8 DEF LoansOK
<1>17. LoanShares(l) = LoanShares(node) /\ LoanShares(l) \in Nat
  <2>1. LoanShares(l) = LoanShares(node) BY <1>3, Zenon DEF LoanShares
  <2> QED BY <1>3, <1>13, <2>1, LoanSharesTyped
<1>18. ASSUME NEW t
       PROVE  /\ Cardinality(LoansBy(m2.nodes \cup L2, t)) = Cardinality(LoansBy(m.nodes \cup L, t))
              /\ Cardinality(LentBy(m2.nodes \cup L2, t)) = Cardinality(LentBy(m.nodes \cup L, t))
              /\ Sum(LoansBy(m2.nodes \cup L2, t), ShareOf)
                   = Sum(LoansBy(m.nodes \cup L, t), ShareOf)
  <2>1. /\ Cardinality(LoansBy(A \cup {l}, t)) = Cardinality(LoansBy(A, t)) + At(t, l.borrower, 1)
        /\ Cardinality(LentBy(A \cup {l}, t)) = Cardinality(LentBy(A, t)) + At(t, l.lender, 1)
        /\ Sum(LoansBy(A \cup {l}, t), ShareOf)
             = Sum(LoansBy(A, t), ShareOf) + At(t, l.borrower, LoanShares(l))
    BY <1>3, <1>11, <1>13, LoanAdds
  <2>2. /\ Cardinality(LoansBy(A \cup {node}, t))
             = Cardinality(LoansBy(A, t)) + At(t, node.borrower, 1)
        /\ Cardinality(LentBy(A \cup {node}, t))
             = Cardinality(LentBy(A, t)) + At(t, node.lender, 1)
        /\ Sum(LoansBy(A \cup {node}, t), ShareOf)
             = Sum(LoansBy(A, t), ShareOf) + At(t, node.borrower, LoanShares(node))
    BY <1>1, <1>11, <1>13, LoanAdds
  <2> QED BY <1>3, <1>11, <1>17, <2>1, <2>2, Zenon
<1>19. CountsOK(m2, L2, mode)
  <2>1. mode = "Exact" => \A b \in Borrowers :
           m2.seats[b].open_borrow = Cardinality(LoansBy(m2.nodes \cup L2, b))
    BY <1>9, <1>18, Zenon DEF Book, CountsOK
  <2>2. \A v \in SubVaults : m2.seats[v].open_lend
           = Cardinality(By(m2.asks, v)) + Cardinality(LentBy(m2.nodes \cup L2, v))
    BY <1>9, <1>18, Zenon DEF Book, CountsOK
  <2> QED BY <2>1, <2>2 DEF CountsOK
<1>20. BlocksOK(m2)
  <2>1. Claimed(m2) = Claimed(m) BY <1>9 DEF Claimed
  <2>2. /\ Cardinality(m.bids) \in Nat /\ Cardinality(m.asks) \in Nat
        /\ Cardinality(Claimed(m)) \in Nat
    BY BookSets, Zenon
  <2>3. m.blocks = m.free + Cardinality(Claimed(m)) + Cardinality(m.asks)
                     + Cardinality(m.bids) + Cardinality(m.nodes)
    BY DEF Book, BlocksOK
  <2>4. m.blocks = f + Cardinality(Claimed(m)) + Cardinality(m.asks)
                     + Cardinality(m.bids) + Cardinality(N)
    BY <1>1, <1>4, <1>15, <2>2, <2>3
  <2> QED BY <1>9, <2>1, <2>4, Zenon DEF BlocksOK
<1>21. EncumberedOK(m2, L2, NIL, 0, mode)
  <2>1. \A c : Due(m2, L2, c) = Due(m, L, c) BY <1>9, <1>18, Zenon DEF Due
  <2> QED BY <1>9, <2>1 DEF Book, EncumberedOK
<1>22. Book(m2, L2, NIL, 0, mode) BY <1>9, <1>14, <1>16, <1>19, <1>20, <1>21 DEF Book
<1> QED BY <1>4, <1>9, <1>22 DEF LoanPromoted

\* What the close of a loan writes on the two seats.
LEMMA UncountShape ==
    ASSUME NEW seats \in [Traders -> Seat], NEW l \in MatchedLoan, NEW s2,
           l.snapshot > 0, l.lender # NIL, s2 = UncountLoan(seats, l)
    PROVE  /\ s2 \in [Traders -> Seat]
           /\ \A t \in Traders :
                /\ s2[t].claimed = seats[t].claimed
                /\ s2[t].encumbered = seats[t].encumbered + At(t, l.borrower, -LoanShares(l))
                /\ s2[t].withdrawable + s2[t].encumbered
                     = seats[t].withdrawable + seats[t].encumbered
                /\ s2[t].open_borrow = SatSub(seats[t].open_borrow, At(t, l.borrower, 1))
                /\ s2[t].open_lend = SatSub(seats[t].open_lend, At(t, l.lender, 1))
<1>1. PICK b, v : b = l.borrower /\ v = l.lender OBVIOUS
<1>2. b \in Borrowers /\ b \in Traders /\ v \in Traders /\ b # v
  BY <1>1, BookAssumption DEF MatchedLoan, Traders
<1>3. PICK n \in Nat : n = LoanShares(l) BY LoanSharesTyped
<1>4. PICK freed : freed = unencumber_for_order(seats, b, n) OBVIOUS
<1>5. /\ freed \in [Traders -> Seat]
      /\ \A t \in Traders :
           /\ freed[t].claimed = seats[t].claimed
           /\ freed[t].encumbered = seats[t].encumbered + At(t, b, -n)
           /\ freed[t].withdrawable + freed[t].encumbered
                = seats[t].withdrawable + seats[t].encumbered
           /\ freed[t].open_borrow = seats[t].open_borrow
           /\ freed[t].open_lend = seats[t].open_lend
  BY <1>2, <1>4, UnencumberShape
<1>6. PICK x, y : x = SatSub(seats[b].open_borrow, 1) /\ y = SatSub(seats[v].open_lend, 1) OBVIOUS
<1>7. /\ \A t \in Traders : seats[t].open_borrow \in Nat /\ seats[t].open_lend \in Nat
      /\ x \in Nat /\ y \in Nat
  BY <1>2, <1>6 DEF Seat, SatSub
<1>8. PICK borrowed : borrowed = [freed EXCEPT ![b].open_borrow = x] OBVIOUS
<1>9. /\ borrowed \in [Traders -> Seat]
      /\ \A t \in Traders :
           /\ borrowed[t].claimed = freed[t].claimed
           /\ borrowed[t].encumbered = freed[t].encumbered
           /\ borrowed[t].withdrawable = freed[t].withdrawable
           /\ borrowed[t].open_borrow = IF t = b THEN x ELSE freed[t].open_borrow
           /\ borrowed[t].open_lend = freed[t].open_lend
  BY <1>2, <1>5, <1>7, <1>8 DEF Seat
<1>10. PICK lent : lent = [borrowed EXCEPT ![v].open_lend = y] OBVIOUS
<1>11. /\ lent \in [Traders -> Seat]
       /\ \A t \in Traders :
            /\ lent[t].claimed = borrowed[t].claimed
            /\ lent[t].encumbered = borrowed[t].encumbered
            /\ lent[t].withdrawable = borrowed[t].withdrawable
            /\ lent[t].open_borrow = borrowed[t].open_borrow
            /\ lent[t].open_lend = IF t = v THEN y ELSE borrowed[t].open_lend
  BY <1>2, <1>7, <1>9, <1>10 DEF Seat
<1>12. s2 = lent
  <2>1. s2 = LET f == unencumber_for_order(seats, b, n)
                 g == [f EXCEPT ![b].open_borrow = SatSub(@, 1)]
             IN  [g EXCEPT ![v].open_lend = SatSub(@, 1)]
    BY <1>1, <1>3, Zenon DEF UncountLoan
  <2>2. [freed EXCEPT ![b].open_borrow = SatSub(@, 1)] = borrowed
    BY <1>2, <1>5, <1>6, <1>8
  <2>3. [borrowed EXCEPT ![v].open_lend = SatSub(@, 1)] = lent
    BY <1>2, <1>5, <1>6, <1>9, <1>10
  <2> QED BY <1>4, <2>1, <2>2, <2>3, Zenon
<1>13. ASSUME NEW t \in Traders
       PROVE  /\ s2[t].open_borrow = SatSub(seats[t].open_borrow, At(t, b, 1))
              /\ s2[t].open_lend = SatSub(seats[t].open_lend, At(t, v, 1))
  <2>1. /\ s2[t].open_borrow = IF t = b THEN x ELSE seats[t].open_borrow
        /\ s2[t].open_lend = IF t = v THEN y ELSE seats[t].open_lend
    BY <1>5, <1>9, <1>11, <1>12
  <2> QED BY <1>6, <1>7, <2>1 DEF At, SatSub
<1> QED BY <1>1, <1>3, <1>5, <1>9, <1>11, <1>12, <1>13

\* A repaid loan leaves no shares behind, and both seats had counted it.
LEMMA RepayKeepsBook ==
    ASSUME NEW mode, NEW m, NEW L, NEW l \in L, NEW m2, NEW L2, Book(m, L, NIL, 0, mode),
           l.lender # NIL,
           Repaid(m, L, l, m2, L2)
    PROVE  /\ Book(m2, L2, NIL, 0, mode) /\ m2.order_seq = m.order_seq /\ m2.bids = m.bids
           /\ m2.nodes = m.nodes /\ m2.loan_seq = m.loan_seq
           /\ \A t \in Traders : m2.seats[t].withdrawable + m2.seats[t].encumbered
                                   = m.seats[t].withdrawable + m.seats[t].encumbered
<1>0. L2 = L \ {l} BY DEF Repaid
<1> USE <1>0
<1>1. /\ m \in Markets /\ l \in MatchedLoan /\ l.snapshot > 0 /\ m.seats \in [Traders -> Seat]
  BY DEF Book, Markets, LoansOK
<1>2. PICK n \in Nat : n = LoanShares(l) BY <1>1, LoanSharesTyped
<1>3. PICK seats : seats = UncountLoan(m.seats, l) OBVIOUS
<1>4. /\ seats \in [Traders -> Seat]
      /\ \A t \in Traders :
           /\ seats[t].claimed = m.seats[t].claimed
           /\ seats[t].encumbered = m.seats[t].encumbered + At(t, l.borrower, -LoanShares(l))
           /\ seats[t].withdrawable + seats[t].encumbered
                = m.seats[t].withdrawable + m.seats[t].encumbered
           /\ seats[t].open_borrow = SatSub(m.seats[t].open_borrow, At(t, l.borrower, 1))
           /\ seats[t].open_lend = SatSub(m.seats[t].open_lend, At(t, l.lender, 1))
  BY <1>1, <1>3, UncountShape
<1>5. m2 = [m EXCEPT !.seats = seats] BY <1>3 DEF Repaid
<1>6. /\ m2 \in Markets /\ m2.asks = m.asks /\ m2.bids = m.bids /\ m2.nodes = m.nodes
      /\ m2.order_seq = m.order_seq /\ m2.loan_seq = m.loan_seq /\ m2.blocks = m.blocks
      /\ m2.free = m.free /\ m2.seats = seats
  BY <1>1, <1>4, <1>5 DEF Markets
<1>7. PICK A : A = m2.nodes \cup L2 OBVIOUS
<1>8. m.nodes \cup L = A \cup {l} /\ l \notin A BY <1>6, <1>7 DEF Book, LoansOK
<1>9. LoanSet(A \cup {l}) BY <1>8, BookSets, Zenon
<1>10. LoanSet(A)
  <2>1. IsFiniteSet(A \cup {l}) /\ A \subseteq A \cup {l} BY <1>9 DEF LoanSet
  <2>2. IsFiniteSet(A) BY <2>1, FS_Subset
  <2> QED BY <1>9, <2>2 DEF LoanSet
<1>11. ASSUME NEW t
       PROVE  /\ Cardinality(LoansBy(A \cup {l}, t))
                   = Cardinality(LoansBy(A, t)) + At(t, l.borrower, 1)
              /\ Cardinality(LentBy(A \cup {l}, t)) = Cardinality(LentBy(A, t)) + At(t, l.lender, 1)
              /\ Sum(LoansBy(A \cup {l}, t), ShareOf)
                   = Sum(LoansBy(A, t), ShareOf) + At(t, l.borrower, n)
              /\ Cardinality(LoansBy(A, t)) \in Nat /\ Cardinality(LentBy(A, t)) \in Nat
              /\ Sum(LoansBy(A, t), ShareOf) \in Nat
  BY <1>1, <1>2, <1>8, <1>10, LoanAdds, LoanSums
<1>12. OrdersOK(m2) BY <1>6 DEF Book, OrdersOK
<1>13. LoansOK(m2, L2)
  <2>1. IsFiniteSet(L2) BY FS_RemoveElement DEF Book, LoansOK
  <2>2. L2 \subseteq L OBVIOUS
  <2> QED BY <1>6, <2>1, <2>2 DEF Book, LoansOK
<1>14. CountsOK(m2, L2, mode)
  <2>1. ASSUME mode = "Exact", NEW b \in Borrowers
        PROVE  m2.seats[b].open_borrow = Cardinality(LoansBy(m2.nodes \cup L2, b))
    <3>1. m2.seats[b].open_borrow = SatSub(m.seats[b].open_borrow, At(b, l.borrower, 1))
      BY <1>4, <1>6 DEF Traders
    <3>2. m.seats[b].open_borrow = Cardinality(LoansBy(A, b)) + At(b, l.borrower, 1)
      BY <1>8, <1>11, <2>1, Zenon DEF Book, CountsOK
    <3>3. m2.seats[b].open_borrow = Cardinality(LoansBy(A, b))
      BY <1>11, <3>1, <3>2 DEF SatSub, At
    <3> QED BY <1>7, <3>3, Zenon
  <2>2. ASSUME NEW v \in SubVaults
        PROVE  m2.seats[v].open_lend
                 = Cardinality(By(m2.asks, v)) + Cardinality(LentBy(m2.nodes \cup L2, v))
    <3>1. m2.seats[v].open_lend = SatSub(m.seats[v].open_lend, At(v, l.lender, 1))
      BY <1>4, <1>6 DEF Traders
    <3>2. m.seats[v].open_lend
            = Cardinality(By(m.asks, v)) + (Cardinality(LentBy(A, v)) + At(v, l.lender, 1))
      BY <1>8, <1>11, Zenon DEF Book, CountsOK
    <3>3. Cardinality(By(m.asks, v)) \in Nat
      BY FS_Subset, FS_CardinalityType DEF By, Book, OrdersOK
    <3>4. m2.seats[v].open_lend = Cardinality(By(m.asks, v)) + Cardinality(LentBy(A, v))
      BY <1>11, <3>1, <3>2, <3>3 DEF SatSub, At
    <3> QED BY <1>6, <1>7, <3>4, Zenon
  <2> QED BY <2>1, <2>2 DEF CountsOK
<1>15. BlocksOK(m2)
  <2>1. Claimed(m2) = Claimed(m) BY <1>4, <1>6 DEF Claimed
  <2> QED BY <1>6, <2>1, Zenon DEF Book, BlocksOK
<1>16. EncumberedOK(m2, L2, NIL, 0, mode)
  <2> SUFFICES ASSUME NEW c \in Traders
               PROVE  /\ Due(m2, L2, c) + At(c, NIL, 0) <= m2.seats[c].encumbered
                      /\ mode = "Exact" =>
                            m2.seats[c].encumbered <= Due(m2, L2, c) + At(c, NIL, 0) + m2.loan_seq
    BY DEF EncumberedOK
  <2>1. PICK B : B = Sum(By(m.bids, c), BidShares) OBVIOUS
  <2>2. B \in Nat
    <3>1. BidSet(m.bids) BY BookSets
    <3> QED BY <2>1, <3>1, BidSums
  <2>3. Due(m, L, c) = B + (Sum(LoansBy(A, c), ShareOf) + At(c, l.borrower, n))
    BY <1>8, <1>11, <2>1, Zenon DEF Due
  <2>4. Due(m2, L2, c) = B + Sum(LoansBy(A, c), ShareOf) BY <1>6, <1>7, <2>1, Zenon DEF Due
  <2>5. /\ Due(m, L, c) + At(c, NIL, 0) <= m.seats[c].encumbered
        /\ mode = "Exact" => m.seats[c].encumbered <= Due(m, L, c) + At(c, NIL, 0) + m.loan_seq
        /\ m.seats[c].encumbered \in Int /\ m.loan_seq \in Nat
    BY DEF Book, EncumberedOK, Markets, Seat
  <2>6. m2.seats[c].encumbered = m.seats[c].encumbered + At(c, l.borrower, -n)
    BY <1>2, <1>4, <1>6
  <2>7. Sum(LoansBy(A, c), ShareOf) \in Nat BY <1>11
  <2> QED BY <1>6, <2>2, <2>3, <2>4, <2>5, <2>6, <2>7 DEF At
<1>17. Book(m2, L2, NIL, 0, mode) BY <1>6, <1>12, <1>13, <1>14, <1>15, <1>16 DEF Book
<1> QED BY <1>4, <1>6, <1>17

-----------------------------------------------------------------------------
(* The balances of the seats *)

\* Between two instructions no seat owes more than it has: its encumbered balance
\* covers what its bids and loans give back.
LEMMA SeatTyped ==
    ASSUME NEW mode, NEW m, NEW L, NEW t \in Traders, Book(m, L, NIL, 0, mode)
    PROVE  /\ m.seats[t] \in ClaimedSeat
           /\ m.seats[t].encumbered \in Nat /\ m.seats[t].withdrawable \in Nat
           /\ Due(m, L, t) \in Nat /\ m.loan_seq \in Nat
           /\ Due(m, L, t) <= m.seats[t].encumbered
           /\ mode = "Exact" => m.seats[t].encumbered <= Due(m, L, t) + m.loan_seq
<1>1. Due(m, L, t) \in Nat BY BookSets, Zenon
<1>2. m.seats[t] \in Seat /\ m.loan_seq \in Nat BY DEF Book, Markets
<1>3. m.seats[t].encumbered \in Int /\ m.seats[t].withdrawable \in Nat BY <1>2 DEF Seat
<1>4. /\ Due(m, L, t) + At(t, NIL, 0) <= m.seats[t].encumbered
      /\ mode = "Exact" => m.seats[t].encumbered <= Due(m, L, t) + At(t, NIL, 0) + m.loan_seq
  BY DEF Book, EncumberedOK
<1>5. At(t, NIL, 0) = 0 BY DEF At
<1>6. /\ Due(m, L, t) <= m.seats[t].encumbered
      /\ mode = "Exact" => m.seats[t].encumbered <= Due(m, L, t) + m.loan_seq
      /\ m.seats[t].encumbered \in Nat
  BY <1>1, <1>2, <1>3, <1>4, <1>5
<1>7. m.seats[t] \in ClaimedSeat BY <1>2, <1>6 DEF Seat, ClaimedSeat
<1> QED BY <1>1, <1>2, <1>3, <1>6, <1>7

\* An instruction that only moves shares within seats leaves them backed.
LEMMA BackedSame ==
    ASSUME NEW m, NEW m2, NEW a, NEW a2, Backed(m, a), a2.collateral = a.collateral,
           \A t \in Traders : m2.seats[t].withdrawable + m2.seats[t].encumbered
                                = m.seats[t].withdrawable + m.seats[t].encumbered
    PROVE  Backed(m2, a2)
<1>1. \A b \in Borrowers : Held(m)[b] = Held(m2)[b] BY DEF Held, Traders
<1>2. Sum(Borrowers, Held(m)) = Sum(Borrowers, Held(m2)) BY <1>1, SumSame
<1> QED BY <1>2 DEF Backed

\* Only what one borrower holds changes the sum.
LEMMA HeldMoves ==
    ASSUME NEW f, NEW g, NEW b \in Borrowers,
           \A c \in Borrowers : f[c] \in Nat /\ g[c] \in Nat,
           \A c \in Borrowers : c # b => f[c] = g[c]
    PROVE  Sum(Borrowers, g) = (Sum(Borrowers, f) - f[b]) + g[b]
BY BookAssumption, SumChange

\* So does one that takes no less from a seat than from the account, or brings the
\* account no less than it credits to the seat.
LEMMA BackedMoves ==
    ASSUME NEW mode, NEW m, NEW m2, NEW L, NEW b \in Borrowers, NEW a, NEW a2,
           Book(m, L, NIL, 0, mode), Book(m2, L, NIL, 0, mode), Backed(m, a),
           a.collateral \in Nat, a2.collateral \in Nat,
           \A t \in Traders : m2.seats[t].encumbered = m.seats[t].encumbered,
           \A t \in Traders : t # b => m2.seats[t].withdrawable = m.seats[t].withdrawable,
           m2.seats[b].withdrawable - m.seats[b].withdrawable <= a2.collateral - a.collateral
    PROVE  Backed(m2, a2)
<1>1. \A c \in Borrowers :
         /\ m.seats[c].encumbered \in Nat /\ m.seats[c].withdrawable \in Nat
         /\ m2.seats[c].withdrawable \in Nat /\ m2.seats[c].encumbered = m.seats[c].encumbered
  BY SeatTyped DEF Traders
<1>2. \A c \in Borrowers : Held(m)[c] \in Nat /\ Held(m2)[c] \in Nat BY <1>1 DEF Held
<1>3. \A c \in Borrowers : c # b => Held(m)[c] = Held(m2)[c] BY <1>1 DEF Held, Traders
<1>4. IsFiniteSet(Borrowers) BY BookAssumption
<1>5. Sum(Borrowers, Held(m2)) = (Sum(Borrowers, Held(m)) - Held(m)[b]) + Held(m2)[b]
  BY <1>2, <1>3, HeldMoves, Zenon
<1>6. Held(m2)[b] - Held(m)[b] = m2.seats[b].withdrawable - m.seats[b].withdrawable
  BY <1>1 DEF Held
<1>7. Sum(Borrowers, Held(m)) \in Nat BY <1>2, <1>4, SumTyped
<1>8. Sum(Borrowers, Held(m2)) <= a2.collateral
  BY <1>1, <1>2, <1>5, <1>6, <1>7 DEF Backed
<1> QED BY <1>8 DEF Backed

-----------------------------------------------------------------------------
(* One instruction each *)

\* A fixed loan that a step queues honours the terms of its lender.
Honoured ==
    \A l \in market'.nodes \ market.nodes : l.lender # NIL => LoanHonoursTerms(l)

\* A step that leaves loans and debts alone, and one that queues fixed loans only.
NoLoan ==
    /\ market'.nodes = market.nodes /\ market'.loan_seq = market.loan_seq
    /\ loans' = loans /\ account'.liability = account.liability

FixedLoans ==
    /\ FixedOnly(market, market')
    /\ loans' = loans /\ account'.liability = account.liability

\* What an instruction has to leave behind.
LEMMA Stepped ==
    ASSUME NEW mode, now' \in 0..MaxTime, world' = world, world \in Worlds, vault' \in Lenders,
           refs' \in [Borrowers -> SUBSET (0..MaxOrders)],
           account' \in [collateral : Nat, liability : Nat],
           Book(market', loans', NIL, 0, mode), market'.order_seq <= MaxOrders,
           Listed(market', refs'), Backed(market', account')
    PROVE  Inv(mode)'
<1>1. OrdersOK(market') => OrdersOK(market)' BY DEF OrdersOK
<1>2. LoansOK(market', loans') => LoansOK(market, loans)' BY DEF LoansOK
<1> QED BY <1>1, <1>2 DEF Inv, Book

\* claim_seat.
LEMMA ClaimSeatKeeps ==
    ASSUME NEW mode, Inv(mode), NEW b \in Borrowers, ClaimSeat(b)
    PROVE  Inv(mode)' /\ NoLoan
<1>1. PICK g : g = expand_market_to_free_blocks(market, 1) OBVIOUS
<1>2. market \in Markets /\ Book(market, loans, NIL, 0, mode) BY DEF Inv, Book
<1>3. /\ g \in Markets /\ g.asks = market.asks /\ g.bids = market.bids /\ g.nodes = market.nodes
      /\ g.seats = market.seats /\ g.order_seq = market.order_seq
      /\ g.loan_seq = market.loan_seq /\ g.free >= 1
  BY <1>1, <1>2, GrowShape
<1>4. Book(g, loans, NIL, 0, mode) BY <1>1, <1>2, GrowKeepsBook
<1>5. market' = claim_seat(g, b) /\ ~g.seats[b].claimed BY <1>1, <1>3 DEF ClaimSeat
<1>6. b \in Traders BY DEF Traders
<1>7. Book(market', loans, NIL, 0, mode) BY <1>3, <1>4, <1>5, <1>6, ClaimKeepsBook
<1>8. /\ market'.bids = market.bids /\ market'.nodes = market.nodes
      /\ market'.order_seq = market.order_seq /\ market'.loan_seq = market.loan_seq
      /\ \A u \in Traders : /\ market'.seats[u].withdrawable = market.seats[u].withdrawable
                            /\ market'.seats[u].encumbered = market.seats[u].encumbered
  BY <1>3, <1>5, <1>6, ClaimShape
<1>9. Backed(market', account) BY <1>8, BackedSame DEF Inv
<1>10. Listed(market', refs) BY <1>8 DEF Inv, Listed
<1>11. UNCHANGED <<now, world, vault, loans, refs, account>> BY DEF ClaimSeat
<1> QED BY <1>7, <1>8, <1>9, <1>10, <1>11, Stepped DEF Inv, NoLoan

\* Only one withdrawable balance changes.
Rebalanced(m, m2, b, w) ==
    /\ m2 \in Markets /\ SharesMoved(m, m2, b, 0)
    /\ m2.seats[b].withdrawable = w
    /\ m2.order_seq = m.order_seq /\ m2.bids = m.bids /\ m2.nodes = m.nodes
    /\ m2.loan_seq = m.loan_seq
    /\ \A t \in Traders : m2.seats[t].encumbered = m.seats[t].encumbered
    /\ \A t \in Traders : t # b => m2.seats[t].withdrawable = m.seats[t].withdrawable

\* Collateral that comes in or goes out changes one free balance.
LEMMA FreeBalance ==
    ASSUME NEW m \in Markets, NEW b \in Traders, NEW w \in Nat, NEW m2,
           m2 = [m EXCEPT !.seats[b].withdrawable = w]
    PROVE  Rebalanced(m, m2, b, w)
<1>1. PICK s : s = [m.seats EXCEPT ![b].withdrawable = w] OBVIOUS
<1>2. m.seats \in [Traders -> Seat] BY DEF Markets
<1>3. /\ s \in [Traders -> Seat] /\ s[b].withdrawable = w
      /\ \A t \in Traders :
           /\ s[t].claimed = m.seats[t].claimed
           /\ s[t].encumbered = m.seats[t].encumbered
           /\ s[t].open_borrow = m.seats[t].open_borrow
           /\ s[t].open_lend = m.seats[t].open_lend
      /\ \A t \in Traders : t # b => s[t].withdrawable = m.seats[t].withdrawable
  BY <1>1, <1>2 DEF Seat
<1>4. m2 = [m EXCEPT !.seats = s] BY <1>1
<1>5. /\ m2 \in Markets /\ m2.asks = m.asks /\ m2.bids = m.bids /\ m2.nodes = m.nodes
      /\ m2.seats = s /\ m2.order_seq = m.order_seq /\ m2.loan_seq = m.loan_seq
      /\ m2.free = m.free /\ m2.blocks = m.blocks /\ m.order_seq \in Nat
      /\ m.free \in Nat /\ m.blocks \in Nat
  BY <1>3, <1>4 DEF Markets
<1>6. \A t \in Traders : s[t].encumbered = m.seats[t].encumbered + At(t, b, 0)
  <2>1. \A t \in Traders : m.seats[t].encumbered \in Int BY <1>2 DEF Seat
  <2> QED BY <1>3, <2>1 DEF At
<1>7. SharesMoved(m, m2, b, 0) BY <1>3, <1>5, <1>6 DEF SharesMoved
<1> QED BY <1>3, <1>5, <1>7 DEF Rebalanced

\* One balance and the account move together.
LEMMA BalanceKeeps ==
    ASSUME NEW mode, Inv(mode), NEW b \in Borrowers, NEW w \in Nat, NEW k \in Nat,
           w - market.seats[b].withdrawable <= k - account.collateral,
           market' = [market EXCEPT !.seats[b].withdrawable = w],
           account' = [account EXCEPT !.collateral = k],
           UNCHANGED <<now, world, vault, loans, refs>>
    PROVE  Inv(mode)' /\ NoLoan
<1>1. market \in Markets /\ Book(market, loans, NIL, 0, mode) BY DEF Inv, Book
<1>2. b \in Traders BY DEF Traders
<1>3. /\ market' \in Markets /\ SharesMoved(market, market', b, 0)
      /\ market'.seats[b].withdrawable = w
      /\ market'.order_seq = market.order_seq /\ market'.loan_seq = market.loan_seq
      /\ market'.bids = market.bids /\ market'.nodes = market.nodes
      /\ \A t \in Traders : market'.seats[t].encumbered = market.seats[t].encumbered
      /\ \A t \in Traders : t # b =>
            market'.seats[t].withdrawable = market.seats[t].withdrawable
  <2>1. Rebalanced(market, market', b, w) BY <1>1, <1>2, FreeBalance, Zenon
  <2> QED BY <2>1 DEF Rebalanced
<1>4. Book(market', loans, NIL, 0, mode)
  <2>1. Book(market, loans, b, 0, mode) BY <1>1, Refocus
  <2>2. Book(market', loans, b, 0 + 0, mode) BY <1>3, <2>1, MoveKeepsBook
  <2>3. 0 + 0 = 0 OBVIOUS
  <2>4. Book(market', loans, b, 0, mode) BY <2>2, <2>3, Zenon
  <2> QED BY <2>4, Refocus
<1>5. /\ account \in [collateral : Nat, liability : Nat]
      /\ account' \in [collateral : Nat, liability : Nat]
      /\ account'.collateral = k /\ account'.liability = account.liability
  BY DEF Inv
<1>6. Backed(market', account')
  <2>1. Backed(market, account) BY DEF Inv
  <2>2. market'.seats[b].withdrawable - market.seats[b].withdrawable
          <= account'.collateral - account.collateral
    BY <1>3, <1>5
  <2>3. account.collateral \in Nat /\ account'.collateral \in Nat BY <1>5
  <2>4. PICK m2 : m2 = market' OBVIOUS
  <2>5. PICK a2 : a2 = account' OBVIOUS
  <2>6. /\ Book(m2, loans, NIL, 0, mode) /\ a2.collateral \in Nat
        /\ m2.seats[b].withdrawable - market.seats[b].withdrawable
             <= a2.collateral - account.collateral
    BY <1>4, <2>2, <2>3, <2>4, <2>5, Zenon
  <2>7. /\ \A t \in Traders : m2.seats[t].encumbered = market.seats[t].encumbered
        /\ \A t \in Traders : t # b => m2.seats[t].withdrawable = market.seats[t].withdrawable
    BY <1>3, <2>4, Zenon
  <2>8. PICK m : m = market OBVIOUS
  <2>9. PICK a : a = account OBVIOUS
  <2>10. /\ Book(m, loans, NIL, 0, mode) /\ Backed(m, a) /\ a.collateral \in Nat
         /\ m2.seats[b].withdrawable - m.seats[b].withdrawable <= a2.collateral - a.collateral
         /\ \A t \in Traders : m2.seats[t].encumbered = m.seats[t].encumbered
         /\ \A t \in Traders : t # b => m2.seats[t].withdrawable = m.seats[t].withdrawable
    BY <1>1, <2>1, <2>3, <2>6, <2>7, <2>8, <2>9, Zenon
  <2>11. Backed(m2, a2) BY <2>6, <2>10, BackedMoves
  <2> QED BY <2>4, <2>5, <2>11, Zenon
<1>7. Listed(market', refs) BY <1>3 DEF Inv, Listed
<1> QED BY <1>3, <1>4, <1>5, <1>6, <1>7, Stepped DEF Inv, NoLoan

\* deposit: the account gains what the seat is credited.
LEMMA DepositKeeps ==
    ASSUME NEW mode, Inv(mode), NEW b \in Borrowers, NEW atoms \in DepositAtoms, Deposit(b, atoms)
    PROVE  Inv(mode)' /\ NoLoan
<1>1. atoms \in Nat /\ world.asv \in Nat \ {0} BY BookAssumption DEF Inv
<1>2. PICK n \in Nat : n = amount_to_asset_shares(atoms, world.asv) BY <1>1, SharesTyped
<1>3. market.seats[b].withdrawable \in Nat /\ account.collateral \in Nat
  BY SeatTyped DEF Inv, Traders
<1>4. PICK w \in Nat : w = market.seats[b].withdrawable + n BY <1>3
<1>5. PICK k \in Nat : k = account.collateral + n BY <1>3
<1>6. market' = [market EXCEPT !.seats[b].withdrawable = w]
  BY <1>2, <1>4 DEF Deposit
<1>7. account' = [account EXCEPT !.collateral = k] BY <1>2, <1>5 DEF Deposit
<1>8. UNCHANGED <<now, world, vault, loans, refs>> BY DEF Deposit
<1>9. w - market.seats[b].withdrawable <= k - account.collateral BY <1>3, <1>4, <1>5
<1> QED BY <1>6, <1>7, <1>8, <1>9, BalanceKeeps

\* withdraw: whole atoms leave, worth no more shares than the seat gives up.
LEMMA WithdrawKeeps ==
    ASSUME NEW mode, Inv(mode), NEW b \in Borrowers, NEW requested \in Nat,
           NEW withdraw_all \in BOOLEAN,
           Withdraw(b, requested, withdraw_all),
           withdraw_all => requested = market.seats[b].withdrawable
    PROVE  Inv(mode)' /\ NoLoan
<1>1. world.asv \in Nat \ {0} BY BookAssumption DEF Inv
<1>2. market.seats[b].withdrawable \in Nat /\ account.collateral \in Nat
  BY SeatTyped DEF Inv, Traders
<1>3. PICK e \in Nat : e = MinOf(requested, account.collateral) BY <1>2 DEF MinOf
<1>4. e <= requested /\ e <= account.collateral BY <1>2, <1>3 DEF MinOf
<1>5. requested <= market.seats[b].withdrawable BY DEF Withdraw
<1>6. shares_to_amount(e, world.asv) \in Nat
  <2>1. e <= e /\ world.asv \in Nat BY <1>1
  <2> QED BY <2>1, AmountMonotone
<1>7. PICK d \in Nat : d = amount_to_asset_shares(shares_to_amount(e, world.asv), world.asv)
  BY <1>1, <1>6, SharesTyped
<1>8. d <= e BY <1>1, <1>7, ShareRoundTrip
<1>9. PICK k \in Nat : k = account.collateral - d BY <1>2, <1>4, <1>8
<1>10. PICK w \in Nat : w = IF withdraw_all THEN 0 ELSE market.seats[b].withdrawable - e
  BY <1>2, <1>4, <1>5
<1>11. market' = [market EXCEPT !.seats[b].withdrawable = w] BY <1>3, <1>10 DEF Withdraw
<1>12. account' = [account EXCEPT !.collateral = k] BY <1>3, <1>7, <1>9 DEF Withdraw
<1>13. UNCHANGED <<now, world, vault, loans, refs>> BY DEF Withdraw
<1>14. w - market.seats[b].withdrawable <= k - account.collateral
  BY <1>2, <1>4, <1>5, <1>8, <1>9, <1>10
<1> QED BY <1>11, <1>12, <1>13, <1>14, BalanceKeeps

\* cancel_order: the bid's shares are free again, and it is no longer listed.
LEMMA CancelOrderKeeps ==
    ASSUME NEW mode, Inv(mode), NEW bid \in market.bids, CancelOrder(bid)
    PROVE  Inv(mode)' /\ NoLoan
<1>1. market \in Markets /\ Book(market, loans, NIL, 0, mode) BY DEF Inv, Book
<1>2. bid \in BidOrder /\ bid.snapshot > 0 BY <1>1 DEF Markets, Book, OrdersOK
<1>3. market' = Released(market, bid) BY DEF CancelOrder
<1>4. /\ Book(market', loans, NIL, 0, mode)
      /\ \A t \in Traders : market'.seats[t].withdrawable + market'.seats[t].encumbered
                              = market.seats[t].withdrawable + market.seats[t].encumbered
  BY <1>1, <1>3, ReleaseKeepsBook DEF SeatSumsKept
<1>5. /\ market'.order_seq = market.order_seq /\ market'.nodes = market.nodes
      /\ market'.bids = market.bids \ {bid} /\ market'.loan_seq = market.loan_seq
  BY <1>1, <1>2, <1>3, ReleaseShape
<1>6. refs' = remove_user_order(refs, bid.trader, bid.seq) BY DEF CancelOrder
<1>7. refs' \in [Borrowers -> SUBSET (0..MaxOrders)] BY <1>6 DEF Inv, remove_user_order
<1>8. Listed(market', refs')
  <2>1. ASSUME NEW o \in market.bids, o # bid PROVE o.seq \in refs'[o.trader]
    <3>1. o.seq \in refs[o.trader] BY DEF Inv, Listed
    <3>2. o.seq # bid.seq BY <1>1, <2>1 DEF Book, OrdersOK
    <3>3. o.trader \in Borrowers BY <1>1 DEF Markets, BidOrder
    <3>4. refs \in [Borrowers -> SUBSET (0..MaxOrders)] BY DEF Inv
    <3> QED BY <1>6, <3>1, <3>2, <3>3, <3>4 DEF remove_user_order
  <2> QED BY <1>5, <2>1 DEF Listed
<1>9. Backed(market', account) BY <1>4, BackedSame DEF Inv
<1>10. UNCHANGED <<now, world, vault, loans, account>> BY DEF CancelOrder
<1> QED BY <1>4, <1>5, <1>7, <1>8, <1>9, <1>10, Stepped DEF Inv, NoLoan

\* update_order: the bid keeps its shares and is listed under its new sequence.
LEMMA UpdateOrderKeeps ==
    ASSUME NEW mode, Inv(mode), NEW bid \in market.bids, NEW new \in Bids[bid.trader],
           UpdateOrder(bid, new)
    PROVE  Inv(mode)' /\ NoLoan
<1>1. market \in Markets /\ Book(market, loans, NIL, 0, mode) BY DEF Inv, Book
<1>2. /\ bid \in BidOrder /\ bid.snapshot > 0 /\ bid.snapshot <= world.asv
      /\ bid.trader \in Borrowers
  BY <1>1 DEF Markets, Book, OrdersOK, BidOrder
<1>3. new \in BidParams BY <1>2, BookAssumption DEF BidParams
<1>4. PICK s \in Nat : s = market.order_seq BY <1>1 DEF Markets
<1>5. s < MaxOrders /\ MaxOrders \in Nat BY <1>4, BookAssumption DEF UpdateOrder
<1>6. PICK u : u = update_user_bid(bid, new) OBVIOUS
<1>7. /\ u \in BidOrder /\ u.trader = bid.trader /\ u.snapshot = bid.snapshot
      /\ u.collateral = bid.collateral /\ u.seq = s
  BY <1>2, <1>3, <1>4, <1>6 DEF update_user_bid, BidOrder, BidParams
<1>8. OrderShares(u) = OrderShares(bid) BY <1>7 DEF OrderShares
<1>9. \A o \in market.bids \cup market.asks : o.seq # s
  <2>1. \A o \in market.bids \cup market.asks : o.seq < s /\ o.seq \in Nat
    BY <1>1, <1>4 DEF Book, OrdersOK, Markets, BidOrder, AskOrder
  <2> QED BY <2>1
<1>10. PICK f \in Nat : f = market.free + 1 BY <1>1 DEF Markets
<1>11. PICK B \in SUBSET BidOrder : B = market.bids \ {bid} BY <1>1 DEF Markets
<1>12. PICK d : d = [market EXCEPT !.bids = B, !.free = f] OBVIOUS
<1>13. /\ d \in Markets /\ d.asks = market.asks /\ d.bids = B /\ d.nodes = market.nodes
       /\ d.seats = market.seats /\ d.order_seq = market.order_seq
       /\ d.loan_seq = market.loan_seq /\ d.blocks = market.blocks /\ d.free = f
  BY <1>1, <1>12 DEF Markets
<1>14. PICK C \in SUBSET BidOrder : C = B \cup {u} BY <1>7
<1>15. PICK s2 \in Nat : s2 = s + 1 OBVIOUS
<1>16. /\ market' \in Markets /\ market'.asks = market.asks /\ market'.bids = C
       /\ market'.nodes = market.nodes /\ market'.seats = market.seats
       /\ market'.order_seq = s2 /\ market'.loan_seq = market.loan_seq
       /\ market'.blocks = market.blocks /\ market'.free = market.free
  <2>1. market' = [market EXCEPT !.bids = C, !.order_seq = s2]
    BY <1>1, <1>4, <1>6, <1>11, <1>14, <1>15 DEF UpdateOrder, Markets
  <2> QED BY <1>1, <2>1 DEF Markets
<1>17. Book(market', loans, NIL, 0, mode)
  <2>1. PICK b \in Borrowers : b = bid.trader BY <1>2
  <2>2. Book(market, loans, b, 0, mode) BY <1>1, Refocus
  <2>3. BidDropped(market, d, bid) BY <1>10, <1>11, <1>13 DEF BidDropped
  <2>4. PICK n \in Int : n = OrderShares(bid) BY <1>2, OrderSharesTyped
  <2>5. Book(d, loans, b, 0 + n, mode) BY <1>13, <2>1, <2>2, <2>3, <2>4, DropKeepsBook
  <2>6. Book(d, loans, b, n, mode)
    <3>1. 0 + n = n OBVIOUS
    <3> QED BY <2>5, <3>1, Zenon
  <2>7. PICK m2 \in Markets : m2 = market' BY <1>16
  <2>8. BidPut(d, m2, u)
    <3>1. f - 1 = market.free BY <1>1, <1>10 DEF Markets
    <3> QED BY <1>4, <1>13, <1>14, <1>15, <1>16, <2>7, <3>1 DEF BidPut
  <2>9. \A o \in d.bids \cup d.asks : o.seq # u.seq BY <1>7, <1>9, <1>11, <1>13
  <2>10. u.seq < m2.order_seq BY <1>7, <1>15, <1>16, <2>7
  <2>11. u.trader = b /\ u.snapshot > 0 /\ u.snapshot <= world.asv BY <1>2, <1>7, <2>1
  <2>12. Book(m2, loans, b, n - OrderShares(u), mode)
    BY <2>6, <2>8, <2>9, <2>10, <2>11, PutKeepsBook
  <2>13. n - OrderShares(u) = 0 BY <1>8, <2>4
  <2>14. Book(market', loans, b, 0, mode) BY <2>7, <2>12, <2>13, Zenon
  <2> QED BY <2>14, Refocus
<1>18. refs \in [Borrowers -> SUBSET (0..MaxOrders)] BY DEF Inv
<1>19. /\ refs' \in [Borrowers -> SUBSET (0..MaxOrders)]
       /\ refs'[bid.trader] = (refs[bid.trader] \ {bid.seq}) \cup {s}
       /\ \A b \in Borrowers : b # bid.trader => refs'[b] = refs[b]
  <2>1. s \in 0..MaxOrders BY <1>5
  <2>2. refs' = insert_user_order(remove_user_order(refs, bid.trader, bid.seq), bid.trader, s)
    BY <1>4 DEF UpdateOrder
  <2> QED BY <1>2, <1>18, <2>1, <2>2 DEF insert_user_order, remove_user_order
<1>20. Listed(market', refs')
  <2>1. u.seq \in refs'[u.trader] BY <1>7, <1>19
  <2>2. ASSUME NEW o \in B PROVE o.seq \in refs'[o.trader]
    <3>1. o \in market.bids /\ o # bid /\ o.trader \in Borrowers BY <1>11 DEF BidOrder
    <3>2. o.seq \in refs[o.trader] BY <3>1 DEF Inv, Listed
    <3>3. o.seq # bid.seq BY <1>1, <3>1 DEF Book, OrdersOK
    <3> QED BY <1>19, <3>1, <3>2, <3>3
  <2> QED BY <1>14, <1>16, <2>1, <2>2 DEF Listed
<1>21. Backed(market', account) BY <1>16, BackedSame DEF Inv
<1>22. market'.order_seq <= MaxOrders BY <1>5, <1>15, <1>16
<1>23. UNCHANGED <<now, world, vault, loans, account>> BY DEF UpdateOrder
<1> QED BY <1>16, <1>17, <1>19, <1>20, <1>21, <1>22, <1>23, Stepped DEF Inv, NoLoan

\* place_order: the walk and the residual leave the book in order, and a bid that
\* rests is listed.
LEMMA PlaceOrderKeeps ==
    ASSUME NEW mode, Inv(mode), NEW b \in Borrowers, NEW bid \in Bids[b],
           NEW with_vault \in BOOLEAN, PlaceOrder(b, bid, with_vault)
    PROVE  /\ Inv(mode)' /\ Honoured /\ loans' = loans
           /\ \E k \in Nat : /\ account'.liability = account.liability + k
                            /\ PoolGrows(market, market', k)
<1>1. /\ market \in Markets /\ Book(market, loans, NIL, 0, mode) /\ world \in Worlds
      /\ vault \in Lenders
  BY DEF Inv, Book
<1>2. bid \in BidParams BY BookAssumption DEF BidParams
<1>3. PICK a : a = match_borrower_bid(b, bid, with_vault) OBVIOUS
<1>4. PICK r : r = place_order(b, bid, with_vault) OBVIOUS
<1>5. PICK rested : rested = (a.principal > 0 /\ bid.mode = "REST") OBVIOUS
<1>a. PICK k : k = IF a.principal > 0 /\ bid.mode = "P2POOL_FALLBACK"
                  THEN marginfi_borrow_shares(a.principal) ELSE 0
  OBVIOUS
<1>6. MayPlace(b, bid) BY DEF PlaceOrder
<1>7. /\ a \in Accs /\ r \in Accs /\ Resting(r, Offered(with_vault), mode)
      /\ r.market.order_seq = market.order_seq + 1
      /\ \A t \in Traders :
            r.market.seats[t].withdrawable + r.market.seats[t].encumbered
              = market.seats[t].withdrawable + market.seats[t].encumbered
      /\ \A o \in r.market.bids :
            \/ rested /\ o.seq = market.order_seq /\ o.trader = b
            \/ \E old \in market.bids : old.seq = o.seq /\ old.trader = o.trader
      /\ \A l \in r.market.nodes \ market.nodes : l.lender # NIL => LoanHonoursTerms(l)
      /\ PoolGrows(market, r.market, k)
  BY <1>1, <1>2, <1>3, <1>4, <1>5, <1>6, <1>a, PlaceKeeps
<1>8. market' = r.market /\ vault' = r.vault /\ UNCHANGED <<now, world, loans>>
  BY <1>4 DEF PlaceOrder
<1>9. refs' = IF rested THEN insert_user_order(refs, b, market.order_seq) ELSE refs
  BY <1>3, <1>5 DEF PlaceOrder
<1>10. Book(market', loans, NIL, 0, mode) BY <1>7, <1>8, Zenon DEF Resting
<1>11. vault' \in Lenders BY <1>7, <1>8 DEF Accs
<1>12. PICK s \in Nat : s = market.order_seq BY <1>1 DEF Markets
<1>13. s < MaxOrders /\ MaxOrders \in Nat BY <1>12, BookAssumption DEF PlaceOrder
<1>14. market'.order_seq <= MaxOrders BY <1>7, <1>8, <1>12, <1>13
<1>15. refs \in [Borrowers -> SUBSET (0..MaxOrders)] BY DEF Inv
<1>16. /\ refs' \in [Borrowers -> SUBSET (0..MaxOrders)]
       /\ \A c \in Borrowers : refs[c] \subseteq refs'[c]
       /\ rested => s \in refs'[b]
  <2>1. s \in 0..MaxOrders BY <1>13
  <2>2. CASE rested
    <3>1. refs' = insert_user_order(refs, b, s) BY <1>9, <1>12, <2>2
    <3> QED BY <1>15, <2>1, <3>1 DEF insert_user_order
  <2>3. CASE ~rested BY <1>9, <1>15, <2>3
  <2> QED BY <2>2, <2>3
<1>17. Listed(market', refs')
  <2>1. ASSUME NEW o \in r.market.bids PROVE o.seq \in refs'[o.trader]
    <3>1. CASE rested /\ o.seq = market.order_seq /\ o.trader = b BY <1>12, <1>16, <3>1
    <3>2. CASE \E old \in market.bids : old.seq = o.seq /\ old.trader = o.trader
      <4>1. PICK old \in market.bids : old.seq = o.seq /\ old.trader = o.trader BY <3>2
      <4>2. old.seq \in refs[old.trader] /\ old.trader \in Borrowers
        BY <1>1 DEF Inv, Listed, Markets, BidOrder
      <4> QED BY <1>16, <4>1, <4>2
    <3> QED BY <1>7, <3>1, <3>2
  <2> QED BY <1>8, <2>1 DEF Listed
<1>18. /\ account' \in [collateral : Nat, liability : Nat]
       /\ account'.collateral = account.collateral
       /\ k \in Nat /\ account'.liability = account.liability + k
  <2>1. a.principal \in Nat /\ world.lsv \in Nat \ {0} BY <1>1, <1>7, BookAssumption DEF Accs
  <2>2. PICK n \in Nat : n = marginfi_borrow_shares(a.principal)
    BY <2>1, SharesTyped DEF marginfi_borrow_shares
  <2>3. account \in [collateral : Nat, liability : Nat] BY DEF Inv
  <2>4. k \in Nat BY <1>a, <2>2
  <2>5. PICK y \in Nat : y = account.liability + k BY <2>3, <2>4
  <2>6. account' = [account EXCEPT !.liability = y]
    <3>1. y = IF a.principal > 0 /\ bid.mode = "P2POOL_FALLBACK"
              THEN account.liability + marginfi_borrow_shares(a.principal)
              ELSE account.liability
      BY <1>a, <2>3, <2>5
    <3> QED BY <1>3, <3>1 DEF PlaceOrder
  <2> QED BY <2>3, <2>4, <2>5, <2>6
<1>19. Backed(market', account')
  <2>1. Backed(market, account) BY DEF Inv
  <2>2. PICK a2 : a2 = account' OBVIOUS
  <2>3. Backed(r.market, a2) BY <1>7, <1>18, <2>1, <2>2, BackedSame
  <2> QED BY <1>8, <2>2, <2>3, Zenon
<1>20. Inv(mode)'
  BY <1>8, <1>10, <1>11, <1>14, <1>16, <1>17, <1>18, <1>19, Stepped DEF Inv
<1> QED BY <1>7, <1>8, <1>18, <1>20, Zenon DEF Honoured

\* A market that sub-vault v may quote into: today's book with a block to spare.
Ready(mode, m) ==
    /\ Book(m, loans, NIL, 0, mode) /\ m.free >= 1
    /\ m.order_seq = market.order_seq /\ m.bids = market.bids /\ m.nodes = market.nodes
    /\ m.loan_seq = market.loan_seq /\ m.asks \subseteq market.asks
    /\ \A t \in Traders : /\ m.seats[t].withdrawable = market.seats[t].withdrawable
                          /\ m.seats[t].encumbered = market.seats[t].encumbered

\* The walk of a new ask over the bids, from the market where it rests.
AskWalked(mode, v, m, rest, r) ==
    /\ Book(rest, loans, NIL, 0, mode)
    /\ rest.order_seq = m.order_seq + 1 /\ rest.bids = m.bids /\ rest.nodes = m.nodes
    /\ rest.loan_seq = m.loan_seq
    /\ \A t \in Traders : /\ rest.seats[t].withdrawable = m.seats[t].withdrawable
                          /\ rest.seats[t].encumbered = m.seats[t].encumbered
    /\ r \in Accs /\ Resting(r, {VaultAsk(v, m.order_seq)}, mode) /\ Since(rest, r)

\* place_order_for_sub_vault and update_order_for_sub_vault end alike: the ask rests
\* and takes the bids it crosses, from a market that still has a free block.
LEMMA RestAndTakeWalks ==
    ASSUME NEW mode, Inv(mode), NEW v \in SubVaults, NEW m, Ready(mode, m),
           NEW rest, rest = rest_vault_ask(m, v), NEW r, r = rest_and_take(v, m)
    PROVE  AskWalked(mode, v, m, rest, r)
<1>1. world \in Worlds /\ vault \in Lenders BY DEF Inv
<1>2. Book(m, loans, NIL, 0, mode) /\ m.free >= 1 BY DEF Ready
<1>3. PICK ask : ask = VaultAsk(v, m.order_seq) OBVIOUS
<1>4. /\ Book(rest, loans, NIL, 0, mode) /\ ask \in AskOrder /\ ask.rate >= world.apr
      /\ rest.order_seq = m.order_seq + 1 /\ rest.bids = m.bids /\ rest.nodes = m.nodes
      /\ rest.loan_seq = m.loan_seq
      /\ \A t \in Traders : /\ rest.seats[t].withdrawable = m.seats[t].withdrawable
                            /\ rest.seats[t].encumbered = m.seats[t].encumbered
  <2>1. AskRested(mode, m, loans, v, rest) BY <1>1, <1>2, RestKeepsBook, Zenon
  <2> QED BY <1>3, <2>1, Zenon DEF AskRested
<1>5. PICK w : w = Walking(rest, 0, 0) OBVIOUS
<1>6. rest \in Markets BY <1>4 DEF Book
<1>7. w \in Accs /\ w.market = rest /\ w.vault = vault /\ w.aborted = FALSE
  BY <1>1, <1>5, <1>6 DEF Walking, Accs
<1>8. Resting(w, {ask}, mode) BY <1>4, <1>7, Zenon DEF Resting
<1>9. Since(rest, w) BY <1>7 DEF Since, FixedOnly
<1>10. r = take_resting_bids(ask, Cardinality(m.bids), w)
  BY <1>3, <1>5, Zenon DEF rest_and_take
<1>11. r \in Accs /\ Resting(r, {ask}, mode) /\ Since(rest, r)
  <2>1. ask \in {ask} OBVIOUS
  <2> QED BY <1>1, <1>4, <1>7, <1>8, <1>9, <1>10, <2>1, TakeKeeps
<1> QED BY <1>3, <1>4, <1>11, Zenon DEF AskWalked

\* An ask that rests and takes leaves the book in order.
LEMMA RestAndTakeKeeps ==
    ASSUME NEW mode, Inv(mode), NEW v \in SubVaults, NEW m, Ready(mode, m),
           market.order_seq < MaxOrders, RestAndTake(v, m),
           UNCHANGED <<now, world, loans, refs, account>>
    PROVE  Inv(mode)' /\ Honoured /\ FixedLoans
<1>1. world \in Worlds /\ vault \in Lenders BY DEF Inv
<1>2. PICK rest : rest = rest_vault_ask(m, v) OBVIOUS
<1>3. PICK r : r = rest_and_take(v, m) OBVIOUS
<1>4. /\ rest.order_seq = market.order_seq + 1 /\ rest.bids = market.bids
      /\ rest.nodes = market.nodes /\ rest.loan_seq = market.loan_seq
      /\ \A t \in Traders : /\ rest.seats[t].withdrawable = market.seats[t].withdrawable
                            /\ rest.seats[t].encumbered = market.seats[t].encumbered
      /\ r \in Accs /\ Resting(r, {VaultAsk(v, m.order_seq)}, mode) /\ Since(rest, r)
  <2>1. AskWalked(mode, v, m, rest, r) BY <1>2, <1>3, RestAndTakeWalks
  <2> QED BY <2>1 DEF AskWalked, Ready
<1>12. market' = r.market /\ vault' = r.vault BY <1>3 DEF RestAndTake
<1>13. Book(market', loans, NIL, 0, mode) BY <1>4, <1>12, Zenon DEF Resting
<1>14. vault' \in Lenders BY <1>4, <1>12 DEF Accs
<1>15. market'.order_seq <= MaxOrders
  <2>1. market.order_seq \in Nat /\ MaxOrders \in Nat BY BookAssumption DEF Inv, Book, Markets
  <2> QED BY <1>4, <1>12, <2>1 DEF Since
<1>16. Listed(market', refs)
  <2>1. ASSUME NEW o \in r.market.bids PROVE o.seq \in refs[o.trader]
    <3>1. PICK old \in market.bids : old.seq = o.seq /\ old.trader = o.trader
      BY <1>4 DEF Since
    <3>2. old.seq \in refs[old.trader] BY DEF Inv, Listed
    <3> QED BY <3>1, <3>2
  <2> QED BY <1>12, <2>1 DEF Listed
<1>17. Backed(market', account)
  <2>1. \A t \in Traders : r.market.seats[t].withdrawable + r.market.seats[t].encumbered
                             = market.seats[t].withdrawable + market.seats[t].encumbered
    BY <1>4 DEF Since
  <2>2. Backed(r.market, account) BY <2>1, BackedSame DEF Inv
  <2> QED BY <1>12, <2>2, Zenon
<1>18. Inv(mode)' BY <1>13, <1>14, <1>15, <1>16, <1>17, Stepped DEF Inv
<1>19. Honoured BY <1>4, <1>12, Zenon DEF Since, Honoured
<1>20. FixedLoans
  <2>1. rest.nodes = market.nodes /\ rest.loan_seq = market.loan_seq BY <1>4
  <2>2. FixedOnly(market, r.market) BY <1>4, <2>1, Zenon DEF Since, FixedOnly
  <2>3. account' = account /\ loans' = loans OBVIOUS
  <2> QED BY <1>12, <2>2, <2>3, Zenon DEF FixedLoans
<1> QED BY <1>18, <1>19, <1>20

\* place_order_for_sub_vault: room for the ask, and for the seat it may claim first.
LEMMA FirstQuoteReady ==
    ASSUME NEW mode, Inv(mode), NEW v \in SubVaults
    PROVE  Ready(mode, FirstQuote(v))
<1>1. market \in Markets /\ Book(market, loans, NIL, 0, mode) BY DEF Inv, Book
<1>2. v \in Traders BY DEF Traders
<1>4. CASE market.seats[v].claimed
  <2>1. PICK g : g = expand_market_to_free_blocks(market, 1) OBVIOUS
  <2>2. /\ g.bids = market.bids /\ g.nodes = market.nodes /\ g.seats = market.seats
        /\ g.order_seq = market.order_seq /\ g.loan_seq = market.loan_seq /\ g.free >= 1
        /\ g.asks = market.asks
    BY <1>1, <2>1, GrowShape
  <2>3. Book(g, loans, NIL, 0, mode) BY <1>1, <2>1, GrowKeepsBook
  <2>4. FirstQuote(v) = g BY <1>4, <2>1, Zenon DEF FirstQuote
  <2> QED BY <2>2, <2>3, <2>4 DEF Ready
<1>5. CASE ~market.seats[v].claimed
  <2>1. PICK g : g = expand_market_to_free_blocks(market, 2) OBVIOUS
  <2>2. /\ g \in Markets /\ g.bids = market.bids /\ g.nodes = market.nodes
        /\ g.seats = market.seats /\ g.order_seq = market.order_seq
        /\ g.loan_seq = market.loan_seq /\ g.free >= 2 /\ g.free \in Nat
        /\ g.asks = market.asks
    BY <1>1, <2>1, GrowShape DEF Markets
  <2>3. Book(g, loans, NIL, 0, mode) BY <1>1, <2>1, GrowKeepsBook
  <2>4. PICK c : c = claim_seat(g, v) OBVIOUS
  <2>5. g.free >= 1 BY <2>2
  <2>6. /\ c.bids = g.bids /\ c.nodes = g.nodes /\ c.order_seq = g.order_seq
        /\ c.free = g.free - 1 /\ c.loan_seq = g.loan_seq /\ c.asks = g.asks
        /\ \A t \in Traders : /\ c.seats[t].withdrawable = g.seats[t].withdrawable
                              /\ c.seats[t].encumbered = g.seats[t].encumbered
    BY <1>2, <2>2, <2>4, <2>5, ClaimShape
  <2>7. ~g.seats[v].claimed BY <1>5, <2>2
  <2>8. Book(c, loans, NIL, 0, mode) BY <1>2, <2>3, <2>4, <2>5, <2>7, ClaimKeepsBook
  <2>9. c.free >= 1 BY <2>2, <2>6
  <2>10. /\ c.bids = market.bids /\ c.nodes = market.nodes /\ c.order_seq = market.order_seq
         /\ c.loan_seq = market.loan_seq /\ c.asks \subseteq market.asks
         /\ \A t \in Traders : /\ c.seats[t].withdrawable = market.seats[t].withdrawable
                               /\ c.seats[t].encumbered = market.seats[t].encumbered
    BY <2>2, <2>6
  <2>11. FirstQuote(v) = c BY <1>5, <2>1, <2>4, Zenon DEF FirstQuote
  <2> QED BY <2>8, <2>9, <2>10, <2>11 DEF Ready
<1> QED BY <1>4, <1>5

\* place_order_for_sub_vault.
LEMMA PlaceAskKeeps ==
    ASSUME NEW mode, Inv(mode), NEW v \in SubVaults, PlaceOrderForSubVault(v)
    PROVE  Inv(mode)' /\ Honoured /\ FixedLoans
<1>1. Ready(mode, FirstQuote(v)) BY FirstQuoteReady
<1>2. /\ market.order_seq < MaxOrders /\ RestAndTake(v, FirstQuote(v))
      /\ UNCHANGED <<now, world, loans, refs, account>>
  BY Zenon DEF PlaceOrderForSubVault
<1> QED BY <1>1, <1>2, RestAndTakeKeeps

\* update_order_for_sub_vault: the old ask leaves before the repriced one rests.
LEMMA RequoteReady ==
    ASSUME NEW mode, Inv(mode), NEW ask \in market.asks
    PROVE  ask.trader \in SubVaults /\ Ready(mode, Requote(ask))
<1>1. market \in Markets /\ Book(market, loans, NIL, 0, mode) BY DEF Inv, Book
<1>3. PICK v \in SubVaults : v = ask.trader BY <1>1 DEF Markets, AskOrder
<1>4. PICK g : g = expand_market_to_free_blocks(market, 1) OBVIOUS
<1>5. /\ g \in Markets /\ g.asks = market.asks /\ g.bids = market.bids
      /\ g.nodes = market.nodes /\ g.seats = market.seats
      /\ g.order_seq = market.order_seq /\ g.loan_seq = market.loan_seq /\ g.free \in Nat
  BY <1>1, <1>4, GrowShape DEF Markets
<1>6. Book(g, loans, NIL, 0, mode) BY <1>1, <1>4, GrowKeepsBook
<1>7. PICK c : c = cancel_vault_ask(g, ask) OBVIOUS
<1>8. /\ Book(c, loans, NIL, 0, mode) /\ c.order_seq = g.order_seq /\ c.bids = g.bids
      /\ c.nodes = g.nodes /\ c.loan_seq = g.loan_seq /\ c.free = g.free + 1
      /\ \A t \in Traders : /\ c.seats[t].withdrawable = g.seats[t].withdrawable
                            /\ c.seats[t].encumbered = g.seats[t].encumbered
  <2>1. ask \in g.asks BY <1>5
  <2>2. PICK L : L = loans OBVIOUS
  <2>3. Book(g, L, NIL, 0, mode) BY <1>6, <2>2, Zenon
  <2>4. AskCancelled(mode, g, L, c) BY <1>7, <2>1, <2>3, CancelKeepsBook
  <2> QED BY <2>2, <2>4, Zenon DEF AskCancelled
<1>9. c.free >= 1 BY <1>5, <1>8
<1>10. /\ c.bids = market.bids /\ c.nodes = market.nodes /\ c.order_seq = market.order_seq
       /\ c.loan_seq = market.loan_seq
       /\ \A t \in Traders : /\ c.seats[t].withdrawable = market.seats[t].withdrawable
                             /\ c.seats[t].encumbered = market.seats[t].encumbered
  BY <1>5, <1>8
<1>a. c.asks \subseteq market.asks
  BY <1>5, <1>7 DEF cancel_vault_ask, release_address, Markets
<1>11. Requote(ask) = c BY <1>4, <1>7, Zenon DEF Requote
<1> QED BY <1>3, <1>8, <1>9, <1>10, <1>a, <1>11 DEF Ready

\* update_order_for_sub_vault.
LEMMA UpdateAskKeeps ==
    ASSUME NEW mode, Inv(mode), NEW ask \in market.asks, UpdateOrderForSubVault(ask)
    PROVE  Inv(mode)' /\ Honoured /\ FixedLoans
<1>1. ask.trader \in SubVaults /\ Ready(mode, Requote(ask)) BY RequoteReady
<1>2. /\ market.order_seq < MaxOrders /\ RestAndTake(ask.trader, Requote(ask))
      /\ UNCHANGED <<now, world, loans, refs, account>>
  BY Zenon DEF UpdateOrderForSubVault
<1> QED BY <1>1, <1>2, RestAndTakeKeeps

\* cancel_order_for_sub_vault and admin_cancel_sub_vault_order.
LEMMA CancelAskKeeps ==
    ASSUME NEW mode, Inv(mode), NEW ask \in market.asks, CancelOrderForSubVault(ask)
    PROVE  Inv(mode)' /\ NoLoan
<1>1. Book(market, loans, NIL, 0, mode) BY DEF Inv
<1>2. market' = cancel_vault_ask(market, ask) BY DEF CancelOrderForSubVault
<1>3. /\ Book(market', loans, NIL, 0, mode) /\ market'.order_seq = market.order_seq
      /\ market'.bids = market.bids /\ market'.nodes = market.nodes
      /\ market'.loan_seq = market.loan_seq
      /\ \A t \in Traders : /\ market'.seats[t].withdrawable = market.seats[t].withdrawable
                            /\ market'.seats[t].encumbered = market.seats[t].encumbered
  BY <1>1, <1>2, CancelKeepsBook DEF AskCancelled
<1>4. Backed(market', account) BY <1>3, BackedSame DEF Inv
<1>5. Listed(market', refs) BY <1>3 DEF Inv, Listed
<1>6. UNCHANGED <<now, world, vault, loans, refs, account>> BY DEF CancelOrderForSubVault
<1> QED BY <1>3, <1>4, <1>5, <1>6, Stepped DEF Inv, NoLoan

\* The crank starts from a book in order.
LEMMA CrankStarts ==
    ASSUME NEW mode, Inv(mode)
    PROVE  Walking(market, 0, 0) \in Cranks(mode)
<1>1. market \in Markets /\ Book(market, loans, NIL, 0, mode) /\ vault \in Lenders BY DEF Inv, Book
<1>2. PICK w : w = Walking(market, 0, 0) OBVIOUS
<1>3. w \in Accs /\ w.market = market /\ w.vault = vault /\ w.aborted = FALSE
  BY <1>1, <1>2 DEF Walking, Accs
<1>4. Resting(w, market.asks, mode) BY <1>1, <1>3, Zenon DEF Resting
<1>5. Since(market, w) BY <1>3 DEF Since, FixedOnly
<1> QED BY <1>2, <1>3, <1>4, <1>5, Zenon DEF Cranks

\* match_crank.
LEMMA MatchCrankKeeps ==
    ASSUME NEW mode, Inv(mode), NEW k \in Budgets, MatchCrank(k)
    PROVE  Inv(mode)' /\ Honoured /\ FixedLoans
<1>1. world \in Worlds BY DEF Inv
<1>2. PICK r : r = match_crank(MaxOf(k, 1)) OBVIOUS
<1>3. r \in Cranks(mode) BY <1>1, <1>2, CrankStarts, CrankKeeps
<1>4. r \in Accs /\ Resting(r, market.asks, mode) /\ Since(market, r) BY <1>3 DEF Cranks
<1>5. /\ market' = r.market /\ vault' = r.vault
      /\ UNCHANGED <<now, world, loans, refs, account>>
  BY <1>2, Zenon DEF MatchCrank
<1>6. Book(market', loans, NIL, 0, mode) BY <1>4, <1>5, Zenon DEF Resting
<1>7. vault' \in Lenders BY <1>4, <1>5 DEF Accs
<1>8. market'.order_seq <= MaxOrders BY <1>4, <1>5 DEF Since, Inv
<1>9. Listed(market', refs)
  <2>1. ASSUME NEW o \in r.market.bids PROVE o.seq \in refs[o.trader]
    <3>1. PICK old \in market.bids : old.seq = o.seq /\ old.trader = o.trader
      BY <1>4 DEF Since
    <3>2. old.seq \in refs[old.trader] BY DEF Inv, Listed
    <3> QED BY <3>1, <3>2
  <2> QED BY <1>5, <2>1 DEF Listed
<1>10. Backed(market', account)
  <2>1. \A t \in Traders : r.market.seats[t].withdrawable + r.market.seats[t].encumbered
                             = market.seats[t].withdrawable + market.seats[t].encumbered
    BY <1>4 DEF Since
  <2>2. Backed(r.market, account) BY <2>1, BackedSame DEF Inv
  <2> QED BY <1>5, <2>2, Zenon
<1>11. Inv(mode)' BY <1>5, <1>6, <1>7, <1>8, <1>9, <1>10, Stepped DEF Inv
<1>12. Honoured BY <1>4, <1>5, Zenon DEF Since, Honoured
<1>13. FixedLoans BY <1>4, <1>5, Zenon DEF Since, FixedLoans
<1> QED BY <1>11, <1>12, <1>13

\* process_matched_loan.
LEMMA ProcessKeeps ==
    ASSUME NEW mode, Inv(mode), NEW node \in market.nodes, ProcessMatchedLoan(node)
    PROVE  /\ Inv(mode)' /\ account'.liability = account.liability
           /\ market'.nodes = market.nodes \ {node} /\ market'.loan_seq = market.loan_seq
           /\ \E x \in Nat : loans' = loans \cup {[node EXCEPT !.matures = x]}
<1>1. Book(market, loans, NIL, 0, mode) /\ now \in Nat BY DEF Inv
<1>2. node.matures \in Nat /\ node.term \in Nat BY <1>1 DEF Book, Markets, MatchedLoan
<1>3. PICK x \in Nat : x = IF node.matures = 0 THEN now + node.term ELSE node.matures
  BY <1>1, <1>2
<1>4. market' = release_address([market EXCEPT !.nodes = @ \ {node}])
  BY DEF ProcessMatchedLoan
<1>5. loans' = loans \cup {[node EXCEPT !.matures = x]} BY <1>3 DEF ProcessMatchedLoan
<1>6. PICK L2 : L2 = loans' OBVIOUS
<1>7. /\ Book(market', L2, NIL, 0, mode) /\ market'.order_seq = market.order_seq
      /\ market'.bids = market.bids
      /\ market'.nodes = market.nodes \ {node} /\ market'.seats = market.seats
      /\ market'.loan_seq = market.loan_seq
  <2>1. Promoted(market, loans, node, x, market', L2)
    BY <1>4, <1>5, <1>6, Zenon DEF Promoted
  <2>2. LoanPromoted(mode, market, node, market', L2)
    BY <1>1, <2>1, PromoteKeepsBook, Zenon
  <2> QED BY <2>2, Zenon DEF LoanPromoted
<1>8. Backed(market', account) BY <1>7, BackedSame DEF Inv
<1>9. Listed(market', refs) BY <1>7 DEF Inv, Listed
<1>10. UNCHANGED <<now, world, vault, refs, account>> BY DEF ProcessMatchedLoan
<1>11. Inv(mode)' BY <1>6, <1>7, <1>8, <1>9, <1>10, Stepped DEF Inv
<1> QED BY <1>5, <1>7, <1>10, <1>11

\* repay of a fixed loan.
LEMMA RepayKeeps ==
    ASSUME NEW mode, Inv(mode), NEW l \in loans, Repay(l)
    PROVE  /\ Inv(mode)' /\ account'.liability = account.liability
           /\ market'.nodes = market.nodes /\ market'.loan_seq = market.loan_seq
           /\ l.lender # NIL /\ loans' = loans \ {l}
<1>1. Book(market, loans, NIL, 0, mode) /\ vault \in Lenders BY DEF Inv
<1>2. l.lender \in SubVaults /\ l.principal \in Nat /\ l.lender # NIL
  BY <1>1 DEF Book, LoansOK, MatchedLoan, Repay
<1>3. market' = [market EXCEPT !.seats = UncountLoan(@, l)] BY DEF Repay
<1>4. PICK L2 : L2 = loans' OBVIOUS
<1>5. L2 = loans \ {l} BY <1>4 DEF Repay
<1>6. /\ Book(market', L2, NIL, 0, mode) /\ market'.order_seq = market.order_seq
      /\ market'.bids = market.bids /\ market'.nodes = market.nodes
      /\ market'.loan_seq = market.loan_seq
      /\ \A t \in Traders : market'.seats[t].withdrawable + market'.seats[t].encumbered
                              = market.seats[t].withdrawable + market.seats[t].encumbered
  <2>1. PICK m, L, m2 : m = market /\ L = loans /\ m2 = market' OBVIOUS
  <2>2. Book(m, L, NIL, 0, mode) /\ l \in L /\ Repaid(m, L, l, m2, L2)
    BY <1>1, <1>3, <1>5, <2>1, Zenon DEF Repaid
  <2>3. /\ Book(m2, L2, NIL, 0, mode) /\ m2.order_seq = m.order_seq /\ m2.bids = m.bids
        /\ m2.nodes = m.nodes /\ m2.loan_seq = m.loan_seq
        /\ \A t \in Traders : m2.seats[t].withdrawable + m2.seats[t].encumbered
                                = m.seats[t].withdrawable + m.seats[t].encumbered
    BY <1>2, <2>2, RepayKeepsBook
  <2> QED BY <2>1, <2>3, Zenon
<1>7. vault' \in Lenders
  <2>1. vault[l.lender].idle \in Nat BY <1>1, <1>2 DEF Lenders
  <2>2. PICK k \in Nat : k = vault[l.lender].idle + l.principal BY <1>2, <2>1
  <2>3. vault' = [vault EXCEPT ![l.lender].idle = k] BY <2>2 DEF Repay
  <2> QED BY <1>1, <1>2, <2>3 DEF Lenders
<1>8. Backed(market', account) BY <1>6, BackedSame DEF Inv
<1>9. Listed(market', refs) BY <1>6 DEF Inv, Listed
<1>10. UNCHANGED <<now, world, refs, account>> BY DEF Repay
<1>11. Inv(mode)' BY <1>4, <1>6, <1>7, <1>8, <1>9, <1>10, Stepped DEF Inv
<1> QED BY <1>2, <1>4, <1>5, <1>6, <1>10, <1>11

\* The clock, the banks and the vault's side move without touching the market.
LEMMA EnvironmentKeeps ==
    ASSUME NEW mode, Inv(mode), Environment
    PROVE  Inv(mode)' /\ market' = market /\ loans' = loans /\ account' = account
<1>1. ClockTicks BY DEF Environment, BankMoves, SunsetSubVault, UpdateSubVault, VaultFlow
<1>2. vault \in Lenders /\ world \in Worlds /\ now \in 0..MaxTime BY DEF Inv
<1>3. now' \in 0..MaxTime BY <1>1, <1>2, BookAssumption DEF ClockTicks
<1>4. world' \in Worlds
  BY <1>2 DEF Environment, BankMoves, SunsetSubVault, UpdateSubVault, VaultFlow
<1>5. vault' \in Lenders
  <2>1. CASE \E w \in Worlds : BankMoves(w) BY <1>2, <2>1 DEF BankMoves
  <2>2. CASE \E v \in SubVaults : SunsetSubVault(v) BY <1>2, <2>2 DEF SunsetSubVault, Lenders
  <2>3. CASE \E v \in SubVaults, policy \in Policies : UpdateSubVault(v, policy)
    BY <1>2, <2>3 DEF UpdateSubVault, Lenders
  <2>4. CASE \E v \in SubVaults, level \in IdleLevels : VaultFlow(v, level)
    <3>1. PICK v \in SubVaults, level \in IdleLevels : VaultFlow(v, level) BY <2>4
    <3>2. level \in Nat BY BookAssumption
    <3> QED BY <1>2, <3>1, <3>2 DEF VaultFlow, Lenders
  <2> QED BY <2>1, <2>2, <2>3, <2>4 DEF Environment
<1>6. UNCHANGED <<market, loans, refs, account>> BY <1>1 DEF ClockTicks
<1>7. world.asv \in Nat /\ world'.asv \in Nat /\ world'.asv >= world.asv
  <2>1. world.asv \in Nat /\ world'.asv \in Nat BY <1>2, <1>4, BookAssumption
  <2>2. CASE \E w \in Worlds : BankMoves(w) BY <2>1, <2>2 DEF BankMoves
  <2>3. CASE world' = world BY <2>1, <2>3
  <2> QED BY <2>2, <2>3 DEF Environment, SunsetSubVault, UpdateSubVault, VaultFlow
<1>8. Book(market, loans, NIL, 0, mode) BY DEF Inv
<1>9. OrdersOK(market)'
  <2>1. \A bid \in market.bids : bid.snapshot > 0 /\ bid.snapshot <= world'.asv
    <3>1. ASSUME NEW bid \in market.bids PROVE bid.snapshot > 0 /\ bid.snapshot <= world'.asv
      <4>1. bid.snapshot \in Nat /\ bid.snapshot > 0 /\ bid.snapshot <= world.asv
        BY <1>8 DEF Book, Markets, OrdersOK, BidOrder
      <4> QED BY <1>7, <4>1
    <3> QED BY <3>1
  <2>2. OrdersOK(market) BY <1>8 DEF Book
  <2> QED BY <1>6, <2>1, <2>2 DEF OrdersOK
<1>10. LoansOK(market, loans)'
  <2>1. ASSUME NEW l \in market.nodes \cup loans
        PROVE  l.seq < market.loan_seq /\ l.snapshot > 0 /\ l.snapshot <= world'.asv
    <3>1. /\ l.snapshot \in Nat /\ l.snapshot > 0 /\ l.snapshot <= world.asv
          /\ l.seq < market.loan_seq
      BY <1>8 DEF Book, Markets, LoansOK, MatchedLoan
    <3> QED BY <1>7, <3>1
  <2>2. LoansOK(market, loans) BY <1>8 DEF Book
  <2> QED BY <1>6, <2>1, <2>2 DEF LoansOK
<1>11. Book(market, loans, NIL, 0, mode)'
  <2>1. /\ CountsOK(market, loans, mode)' /\ BlocksOK(market)'
        /\ EncumberedOK(market, loans, NIL, 0, mode)' /\ (market \in Markets)'
    BY <1>6, <1>8 DEF Book
  <2> QED BY <1>9, <1>10, <2>1 DEF Book
<1>12. Listed(market, refs)' /\ Backed(market, account)' BY <1>6 DEF Inv
<1> QED BY <1>3, <1>4, <1>5, <1>6, <1>11, <1>12 DEF Inv

-----------------------------------------------------------------------------
(* The initial state *)

\* The same amount for each member of a part, nothing for the others.
LEMMA SumPart ==
    ASSUME NEW S, IsFiniteSet(S), NEW F, F \subseteq S, NEW n \in Nat, NEW f,
           \A x \in S : f[x] = IF x \in F THEN n ELSE 0
    PROVE  Sum(S, f) = Cardinality(F) * n
<1>1. IsFiniteSet(F) BY FS_Subset
<1>2. IsFiniteSet(1..n) /\ Cardinality(1..n) = n
  <2>1. IsFiniteSet(1..n) /\ Cardinality(1..n) = IF 1 > n THEN 0 ELSE n - 1 + 1
    BY FS_Interval
  <2> QED BY <2>1
<1>3. \A x \in S : 1..f[x] = IF x \in F THEN 1..n ELSE {} OBVIOUS
<1>4. Units(S, f) = F \X (1..n)
  <2>1. ASSUME NEW u \in Units(S, f) PROVE u \in F \X (1..n)
    <3>1. PICK x \in S : u \in {x} \X (1..f[x]) BY DEF Units
    <3>2. x \in F BY <1>3, <3>1
    <3> QED BY <1>3, <3>1, <3>2
  <2>2. ASSUME NEW u \in F \X (1..n) PROVE u \in Units(S, f)
    <3>1. PICK x \in F, i \in 1..n : u = <<x, i>> OBVIOUS
    <3>2. x \in S /\ 1..f[x] = 1..n BY <1>3
    <3>3. u \in {x} \X (1..f[x]) BY <3>1, <3>2
    <3> QED BY <3>2, <3>3 DEF Units
  <2> QED BY <2>1, <2>2
<1>5. Cardinality(F \X (1..n)) = Cardinality(F) * Cardinality(1..n)
  BY <1>1, <1>2, FS_Product
<1> QED BY <1>2, <1>4, <1>5, Zenon DEF Sum

\* No sub-vault rests an ask, or one does.
LEMMA QuotingCases ==
    /\ IsFiniteSet(Quoting) /\ Cardinality(Quoting) \in Nat
    /\ \/ Quoting = {} /\ Cardinality(Quoting) = 0
       \/ \E q \in SubVaults : Quoting = {q} /\ Cardinality(Quoting) = 1
<1>1. IsFiniteSet(Quoting) BY BookAssumption, FS_Subset
<1>2. Cardinality(Quoting) \in Nat BY <1>1, FS_CardinalityType
<1>3. Cardinality(Quoting) = 0 \/ Cardinality(Quoting) = 1 BY <1>2, BookAssumption
<1>4. CASE Cardinality(Quoting) = 0
  <2>1. Quoting = {} BY <1>1, <1>4, FS_EmptySet
  <2> QED BY <1>1, <1>2, <1>4, <2>1
<1>5. CASE Cardinality(Quoting) = 1
  <2>1. PICK q : Quoting = {q} BY <1>1, <1>5, FS_Singleton
  <2>2. q \in SubVaults BY <2>1, BookAssumption
  <2> QED BY <1>1, <1>2, <1>5, <2>1, <2>2
<1> QED BY <1>3, <1>4, <1>5

\* The asks that rest at first, one of each quoting sub-vault.
LEMMA InitAsks ==
    ASSUME NEW A, A = {InitAsk(v) : v \in Quoting}
    PROVE  /\ A \subseteq AskOrder /\ IsFiniteSet(A) /\ Cardinality(A) = Cardinality(Quoting)
           /\ \A o \in A : o.seq = 0 /\ Cardinality(Quoting) = 1
           /\ \A o1, o2 \in A : o1 = o2
           /\ \A v \in SubVaults :
                Cardinality(By(A, v)) = IF v \in Quoting THEN 1 ELSE 0
<1>1. IsFiniteSet({}) /\ Cardinality({}) = 0 BY FS_EmptySet, Zenon
<1>2. CASE Quoting = {} /\ Cardinality(Quoting) = 0
  <2>1. A = {} BY <1>2
  <2>2. \A v \in SubVaults : By(A, v) = {} BY <2>1 DEF By
  <2>3. \A v \in SubVaults : Cardinality(By(A, v)) = 0 BY <1>1, <2>2
  <2>4. IsFiniteSet(A) /\ Cardinality(A) = 0 BY <1>1, <2>1, Zenon
  <2> QED BY <1>2, <2>1, <2>3, <2>4
<1>3. ASSUME NEW q \in SubVaults, Quoting = {q}, Cardinality(Quoting) = 1
      PROVE  /\ A \subseteq AskOrder /\ IsFiniteSet(A) /\ Cardinality(A) = Cardinality(Quoting)
             /\ \A o \in A : o.seq = 0 /\ Cardinality(Quoting) = 1
             /\ \A o1, o2 \in A : o1 = o2
             /\ \A v \in SubVaults :
                  Cardinality(By(A, v)) = IF v \in Quoting THEN 1 ELSE 0
  <2>1. PICK a : a = InitAsk(q) OBVIOUS
  <2>2. A = {a} BY <1>3, <2>1
  <2>3. InitWorld.apr \in Nat /\ InitPolicy[q].spread \in Nat /\ InitPolicy[q].max_term \in Nat
    <3>1. InitPolicy[q] \in Policies BY BookAssumption
    <3> QED BY <3>1, PolicyTyped, BookAssumption
  <2>4. a \in AskOrder /\ a.seq = 0 /\ a.trader = q BY <2>1, <2>3 DEF InitAsk, AskOrder
  <2>5. IsFiniteSet({a}) /\ Cardinality({a}) = 1 BY FS_Singleton, Zenon
  <2>6. ASSUME NEW v \in SubVaults
        PROVE  Cardinality(By(A, v)) = IF v \in Quoting THEN 1 ELSE 0
    <3>1. CASE v = q
      <4>1. By(A, v) = {a} BY <2>2, <2>4, <3>1 DEF By
      <4> QED BY <1>3, <2>5, <3>1, <4>1
    <3>2. CASE v # q
      <4>1. By(A, v) = {} BY <2>2, <2>4, <3>2 DEF By
      <4> QED BY <1>1, <1>3, <3>2, <4>1
    <3> QED BY <3>1, <3>2
  <2> QED BY <1>3, <2>2, <2>4, <2>5, <2>6
<1> QED BY <1>2, <1>3, QuotingCases

\* The seats that are claimed at first.
LEMMA InitClaimed ==
    /\ IsFiniteSet(Funded \cup Quoting) /\ Cardinality(Funded) \in Nat
    /\ Cardinality(Funded \cup Quoting) = Cardinality(Funded) + Cardinality(Quoting)
<1>1. IsFiniteSet(Funded) BY BookAssumption, FS_Subset
<1>2. Cardinality(Funded) \in Nat BY <1>1, FS_CardinalityType
<1>3. CASE Quoting = {} /\ Cardinality(Quoting) = 0
  <2>1. Funded \cup Quoting = Funded BY <1>3
  <2> QED BY <1>1, <1>2, <1>3, <2>1
<1>4. ASSUME NEW q \in SubVaults, Quoting = {q}, Cardinality(Quoting) = 1
      PROVE  /\ IsFiniteSet(Funded \cup Quoting)
             /\ Cardinality(Funded \cup Quoting) = Cardinality(Funded) + Cardinality(Quoting)
  <2>1. q \notin Funded BY BookAssumption
  <2>2. /\ IsFiniteSet(Funded \cup {q})
        /\ Cardinality(Funded \cup {q}) = Cardinality(Funded) + 1
    BY <1>1, <2>1, CardAdd
  <2> QED BY <1>4, <2>2, Zenon
<1> QED BY <1>2, <1>3, <1>4, QuotingCases

\* The invariant holds at first.
LEMMA InitKeeps ==
    ASSUME NEW mode, Init
    PROVE  Inv(mode)
<1>1. PICK N \in Nat : N = Cardinality(Quoting) BY QuotingCases
<1>2. PICK F \in Nat : F = Cardinality(Funded) BY InitClaimed
<1>3. PICK A : A = {InitAsk(v) : v \in Quoting} OBVIOUS
<1>4. /\ A \subseteq AskOrder /\ IsFiniteSet(A) /\ Cardinality(A) = N
      /\ \A o \in A : o.seq = 0 /\ N = 1
      /\ \A o1, o2 \in A : o1 = o2
      /\ \A v \in SubVaults : Cardinality(By(A, v)) = IF v \in Quoting THEN 1 ELSE 0
  BY <1>1, <1>3, InitAsks
<1>5. PICK n \in Nat : n = InitShares
  <2>1. InitDeposit \in Nat /\ InitWorld.asv \in Nat \ {0} BY BookAssumption
  <2> QED BY <2>1, SharesTyped DEF InitShares
<1>6. PICK S : S = [t \in Traders |-> InitSeat(t)] OBVIOUS
<1>7. /\ S \in [Traders -> Seat]
      /\ \A t \in Traders :
           /\ S[t].claimed <=> t \in Funded \cup Quoting
           /\ S[t].withdrawable = IF t \in Funded THEN n ELSE 0
           /\ S[t].encumbered = 0 /\ S[t].open_borrow = 0
           /\ S[t].open_lend = IF t \in Quoting THEN 1 ELSE 0
  <2>1. ASSUME NEW t \in Traders
        PROVE  /\ InitSeat(t) \in Seat
               /\ InitSeat(t).claimed <=> t \in Funded \cup Quoting
               /\ InitSeat(t).withdrawable = IF t \in Funded THEN n ELSE 0
               /\ InitSeat(t).encumbered = 0 /\ InitSeat(t).open_borrow = 0
               /\ InitSeat(t).open_lend = IF t \in Quoting THEN 1 ELSE 0
    <3>1. PICK w \in Nat : w = IF t \in Funded THEN n ELSE 0 OBVIOUS
    <3>2. PICK k \in Nat : k = IF t \in Quoting THEN 1 ELSE 0 OBVIOUS
    <3>3. InitSeat(t) = [ claimed |-> t \in Funded \cup Quoting, withdrawable |-> w,
                          encumbered |-> 0, open_borrow |-> 0, open_lend |-> k ]
      BY <1>5, <3>1, <3>2, Zenon DEF InitSeat
    <3>4. InitSeat(t) \in Seat BY <3>3 DEF Seat
    <3>5. /\ InitSeat(t).withdrawable = w /\ InitSeat(t).open_lend = k
          /\ InitSeat(t).encumbered = 0 /\ InitSeat(t).open_borrow = 0
      BY <3>3
    <3>6. InitSeat(t).claimed <=> t \in Funded \cup Quoting
      <4>1. PICK G : G = Funded \cup Quoting OBVIOUS
      <4>2. PICK s : s = [ claimed |-> t \in G, withdrawable |-> w, encumbered |-> 0,
                           open_borrow |-> 0, open_lend |-> k ]
        OBVIOUS
      <4>3. s.claimed <=> t \in G BY <4>2
      <4>4. InitSeat(t) = s BY <3>3, <4>1, <4>2, Zenon
      <4> QED BY <4>1, <4>3, <4>4, Zenon
    <3> QED BY <3>1, <3>2, <3>4, <3>5, <3>6, Zenon
  <2> QED BY <1>6, <2>1
<1>8. PICK k \in Nat : k = F + 2 * N OBVIOUS
<1>9. market = [ asks |-> A, bids |-> {}, nodes |-> {}, seats |-> S, order_seq |-> N,
                 loan_seq |-> 0, free |-> 0, blocks |-> k ]
  BY <1>1, <1>2, <1>3, <1>6, <1>8 DEF Init
<1>10. /\ market \in Markets /\ market.asks = A /\ market.bids = {} /\ market.nodes = {}
       /\ market.seats = S /\ market.order_seq = N /\ market.loan_seq = 0
       /\ market.free = 0 /\ market.blocks = k
  BY <1>4, <1>7, <1>9 DEF Markets
<1>11. IsFiniteSet({}) /\ Cardinality({}) = 0 BY FS_EmptySet, Zenon
<1>12. loans = {} /\ market.nodes \cup loans = {} BY <1>10 DEF Init
<1>13. OrdersOK(market) BY <1>4, <1>10, <1>11 DEF OrdersOK
<1>14. LoansOK(market, loans) BY <1>10, <1>11, <1>12 DEF LoansOK
<1>15. \A t : LoansBy(market.nodes \cup loans, t) = {} /\ LentBy(market.nodes \cup loans, t) = {}
  BY <1>12 DEF LoansBy, LentBy
<1>16. CountsOK(market, loans, mode)
  <2>1. \A b \in Borrowers :
          market.seats[b].open_borrow = Cardinality(LoansBy(market.nodes \cup loans, b))
    BY <1>7, <1>10, <1>11, <1>15 DEF Traders
  <2>2. ASSUME NEW v \in SubVaults
        PROVE  market.seats[v].open_lend =
          Cardinality(By(market.asks, v)) + Cardinality(LentBy(market.nodes \cup loans, v))
    <3>1. Cardinality(LentBy(market.nodes \cup loans, v)) = 0 BY <1>11, <1>15
    <3>2. Cardinality(By(market.asks, v)) = IF v \in Quoting THEN 1 ELSE 0 BY <1>4, <1>10
    <3>3. market.seats[v].open_lend = IF v \in Quoting THEN 1 ELSE 0
      BY <1>7, <1>10 DEF Traders
    <3> QED BY <3>1, <3>2, <3>3
  <2> QED BY <2>1, <2>2 DEF CountsOK
<1>17. BlocksOK(market)
  <2>1. Claimed(market) = Funded \cup Quoting
    BY <1>7, <1>10, BookAssumption DEF Claimed, Traders
  <2>2. Cardinality(Claimed(market)) = F + N BY <1>1, <1>2, <2>1, InitClaimed, Zenon
  <2> QED BY <1>4, <1>8, <1>10, <1>11, <2>2 DEF BlocksOK
<1>18. EncumberedOK(market, loans, NIL, 0, mode)
  <2> SUFFICES ASSUME NEW c \in Traders
               PROVE  /\ Due(market, loans, c) + At(c, NIL, 0) <= market.seats[c].encumbered
                      /\ market.seats[c].encumbered
                           <= Due(market, loans, c) + At(c, NIL, 0) + market.loan_seq
    BY DEF EncumberedOK
  <2>1. By(market.bids, c) = {} BY <1>10 DEF By
  <2>2. Sum({}, BidShares) = 0 /\ Sum({}, ShareOf) = 0 BY SumZero
  <2>3. Due(market, loans, c) = 0 + 0 BY <1>15, <2>1, <2>2, Zenon DEF Due
  <2> QED BY <1>7, <1>10, <2>3 DEF At
<1>19. Book(market, loans, NIL, 0, mode)
  BY <1>10, <1>13, <1>14, <1>16, <1>17, <1>18 DEF Book
<1>20. account = [collateral |-> F * n, liability |-> 0] BY <1>2, <1>5 DEF Init
<1>21. F * n \in Nat OBVIOUS
<1>22. Backed(market, account)
  <2>1. \A b \in Borrowers : Held(market)[b] = IF b \in Funded THEN n ELSE 0
    BY <1>7, <1>10 DEF Held, Traders
  <2>2. IsFiniteSet(Borrowers) /\ Funded \subseteq Borrowers BY BookAssumption
  <2>3. Sum(Borrowers, Held(market)) = Cardinality(Funded) * n BY <2>1, <2>2, SumPart
  <2>4. Sum(Borrowers, Held(market)) = F * n BY <1>2, <2>3, Zenon
  <2> QED BY <1>20, <1>21, <2>4 DEF Backed
<1>23. vault \in Lenders
  <2>1. \A v \in SubVaults : InitIdle[v] \in Nat /\ InitPolicy[v] \in Policies
    BY BookAssumption
  <2> QED BY <2>1 DEF Init, Lenders
<1>24. now \in 0..MaxTime /\ world \in Worlds BY BookAssumption DEF Init
<1>25. refs \in [Borrowers -> SUBSET (0..MaxOrders)] BY DEF Init
<1>26. market.order_seq <= MaxOrders BY <1>1, <1>10, BookAssumption
<1>27. Listed(market, refs) BY <1>10 DEF Listed
<1>28. account \in [collateral : Nat, liability : Nat] BY <1>20, <1>21
<1> QED BY <1>19, <1>22, <1>23, <1>24, <1>25, <1>26, <1>27, <1>28 DEF Inv

-----------------------------------------------------------------------------
(* Every step *)

\* What a step does to loans and debts: it queues loans, of which one may borrow from
\* the pool what the account then owes more, promotes one, or closes a fixed one.
Booked ==
    \/ /\ loans' = loans
       /\ \E k \in Nat : /\ account'.liability = account.liability + k
                         /\ PoolGrows(market, market', k)
    \/ /\ account'.liability = account.liability /\ market'.loan_seq = market.loan_seq
       /\ \E node \in market.nodes, x \in Nat :
             /\ market'.nodes = market.nodes \ {node}
             /\ loans' = loans \cup {[node EXCEPT !.matures = x]}
    \/ /\ account'.liability = account.liability /\ market'.loan_seq = market.loan_seq
       /\ market'.nodes = market.nodes
       /\ \E l \in loans : l.lender # NIL /\ loans' = loans \ {l}

Kept(mode) == Inv(mode)' /\ Honoured /\ Booked

\* No debt moves where no loan does, or where fixed loans are queued.
LEMMA Unowed ==
    ASSUME NEW mode, Inv(mode)
    PROVE  /\ NoLoan => Honoured /\ Booked
           /\ FixedLoans => Booked
<1>1. account.liability + 0 = account.liability BY DEF Inv
<1>2. NoLoan => FixedLoans BY Zenon DEF NoLoan, FixedLoans, FixedOnly
<1>3. FixedLoans => Booked
  <2> SUFFICES ASSUME FixedLoans PROVE Booked OBVIOUS
  <2>1. PoolGrows(market, market', 0) BY Zenon DEF FixedLoans, FixedOnly, PoolGrows
  <2> QED BY <1>1, <2>1 DEF Booked, FixedLoans
<1>4. NoLoan => Honoured BY DEF NoLoan, Honoured
<1> QED BY <1>2, <1>3, <1>4

\* A step keeps the invariant, and a fixed loan that it queues honours the terms of
\* its lender: only a taking bid, a taking ask and the crank queue loans.
LEMMA StepKeeps ==
    ASSUME NEW mode, Inv(mode), Next
    PROVE  Kept(mode)
<1>1. ASSUME NEW b \in Borrowers, ClaimSeat(b) PROVE Kept(mode)
  BY <1>1, ClaimSeatKeeps, Unowed DEF Kept
<1>2. ASSUME NEW b \in Borrowers, NEW atoms \in DepositAtoms, Deposit(b, atoms) PROVE Kept(mode)
  BY <1>2, DepositKeeps, Unowed DEF Kept
<1>3. ASSUME NEW b \in Borrowers, NEW atoms \in DepositAtoms,
             Withdraw(b, amount_to_asset_shares(atoms, world.asv), FALSE)
      PROVE  Kept(mode)
  <2>1. atoms \in Nat /\ world.asv \in Nat \ {0} BY BookAssumption DEF Inv
  <2>2. PICK n \in Nat : n = amount_to_asset_shares(atoms, world.asv) BY <2>1, SharesTyped
  <2>3. Withdraw(b, n, FALSE) BY <1>3, <2>2, Zenon
  <2> QED BY <2>3, WithdrawKeeps, Unowed DEF Kept
<1>4. ASSUME NEW b \in Borrowers, Withdraw(b, market.seats[b].withdrawable, TRUE) PROVE Kept(mode)
  <2>1. market.seats[b].withdrawable \in Nat BY SeatTyped DEF Inv, Traders
  <2>2. PICK n \in Nat : n = market.seats[b].withdrawable BY <2>1
  <2>3. Withdraw(b, n, TRUE) BY <1>4, <2>2, Zenon
  <2> QED BY <2>2, <2>3, WithdrawKeeps, Unowed DEF Kept
<1>5. ASSUME NEW b \in Borrowers, NEW bid \in Bids[b], NEW with_vault \in BOOLEAN,
             PlaceOrder(b, bid, with_vault)
      PROVE  Kept(mode)
  BY <1>5, PlaceOrderKeeps DEF Kept, Booked
<1>6. ASSUME NEW bid \in market.bids, CancelOrder(bid) PROVE Kept(mode)
  BY <1>6, CancelOrderKeeps, Unowed DEF Kept
<1>7. ASSUME NEW bid \in market.bids, NEW new \in Bids[bid.trader], UpdateOrder(bid, new)
      PROVE  Kept(mode)
  BY <1>7, UpdateOrderKeeps, Unowed DEF Kept
<1>8. ASSUME NEW v \in SubVaults, PlaceOrderForSubVault(v) PROVE Kept(mode)
  BY <1>8, PlaceAskKeeps, Unowed DEF Kept
<1>9. ASSUME NEW ask \in market.asks, UpdateOrderForSubVault(ask) PROVE Kept(mode)
  BY <1>9, UpdateAskKeeps, Unowed DEF Kept
<1>10. ASSUME NEW ask \in market.asks, CancelOrderForSubVault(ask) PROVE Kept(mode)
  BY <1>10, CancelAskKeeps, Unowed DEF Kept
<1>11. ASSUME NEW node \in market.nodes, ProcessMatchedLoan(node) PROVE Kept(mode)
  <2>1. /\ Inv(mode)' /\ account'.liability = account.liability
        /\ market'.nodes = market.nodes \ {node} /\ market'.loan_seq = market.loan_seq
        /\ \E x \in Nat : loans' = loans \cup {[node EXCEPT !.matures = x]}
    BY <1>11, ProcessKeeps
  <2>2. Honoured BY <2>1 DEF Honoured
  <2>3. Booked BY <2>1, Zenon DEF Booked
  <2> QED BY <2>1, <2>2, <2>3 DEF Kept
<1>12. ASSUME NEW k \in Budgets, MatchCrank(k) PROVE Kept(mode)
  BY <1>12, MatchCrankKeeps, Unowed DEF Kept
<1>13. ASSUME NEW l \in loans, Repay(l) PROVE Kept(mode)
  <2>1. /\ Inv(mode)' /\ account'.liability = account.liability
        /\ market'.nodes = market.nodes /\ market'.loan_seq = market.loan_seq
        /\ l.lender # NIL /\ loans' = loans \ {l}
    BY <1>13, RepayKeeps
  <2>2. Honoured BY <2>1 DEF Honoured
  <2>3. Booked BY <2>1, Zenon DEF Booked
  <2> QED BY <2>1, <2>2, <2>3 DEF Kept
<1>14. CASE Environment
  BY <1>14, EnvironmentKeeps, Unowed DEF Kept, NoLoan
<1>15. CASE BookNext
  BY <1>1, <1>2, <1>3, <1>4, <1>5, <1>6, <1>7, <1>8, <1>9, <1>10, <1>11, <1>15
     DEF BookNext, Queued
<1> QED BY <1>12, <1>13, <1>14, <1>15 DEF Next, Crank

\* Stuttering keeps it too.
LEMMA StutterKeeps ==
    ASSUME NEW mode, Inv(mode), UNCHANGED vars
    PROVE  Inv(mode)' /\ market' = market
<1>1. /\ now' = now /\ world' = world /\ vault' = vault /\ market' = market
      /\ loans' = loans /\ refs' = refs /\ account' = account
  BY DEF vars
<1> QED BY <1>1 DEF Inv, Book, OrdersOK, LoansOK

\* What the invariant says about types.
LEMMA Typed ==
    ASSUME NEW mode, Inv(mode)
    PROVE  TypeOK
<1>1. market \in Markets /\ Book(market, loans, NIL, 0, mode) BY DEF Inv, Book
<1>2. market.seats \in [Traders -> ClaimedSeat]
  <2>1. \A t \in Traders : market.seats[t] \in ClaimedSeat BY <1>1, SeatTyped
  <2>2. market.seats \in [Traders -> Seat] BY <1>1 DEF Markets
  <2> QED BY <2>1, <2>2
<1>3. /\ market.asks \subseteq AskOrder /\ market.bids \subseteq BidOrder
      /\ market.nodes \subseteq MatchedLoan
      /\ {market.order_seq, market.loan_seq, market.free, market.blocks} \subseteq Nat
  BY <1>1 DEF Markets
<1>4. loans \subseteq MatchedLoan BY <1>1 DEF Book, LoansOK
<1>5. vault \in [SubVaults -> [idle : Nat, sunset : BOOLEAN, policy : Policies]]
  BY DEF Inv, Lenders
<1> QED BY <1>2, <1>3, <1>4, <1>5 DEF Inv, TypeOK

\* What it says about blocks.
LEMMA BlocksHold ==
    ASSUME NEW mode, Inv(mode)
    PROVE  BlocksAccounted
<1>1. Book(market, loans, NIL, 0, mode) BY DEF Inv
<1>2. /\ Cardinality(market.bids) \in Nat /\ Cardinality(market.asks) \in Nat
      /\ Cardinality(market.nodes) \in Nat /\ Cardinality(Claimed(market)) \in Nat
  BY <1>1, BookSets, Zenon
<1>3. market.blocks = market.free + Cardinality(Claimed(market)) + Cardinality(market.asks)
                        + Cardinality(market.bids) + Cardinality(market.nodes)
  BY <1>1 DEF Book, BlocksOK
<1>4. market.free \in Nat BY <1>1 DEF Book, Markets
<1>5. market.blocks - market.free =
        Cardinality(Claimed(market)) + Cardinality(market.asks)
          + Cardinality(market.bids) + Cardinality(market.nodes)
  BY <1>2, <1>3, <1>4
<1> QED BY <1>5, Zenon DEF BlocksAccounted, Claimed, Queued

\* The walk of an ask aborts only at its own rate.
LEMMA AskWalkCompletes ==
    ASSUME NEW mode, Inv(mode), NEW v \in SubVaults, NEW m, Ready(mode, m),
           rest_and_take(v, m).aborted
    PROVE  ~RateFits(VaultAsk(v, market.order_seq))
<1>1. PICK rest, r : rest = rest_vault_ask(m, v) /\ r = rest_and_take(v, m) OBVIOUS
<1>2. Resting(r, {VaultAsk(v, m.order_seq)}, mode)
  BY <1>1, RestAndTakeWalks DEF AskWalked
<1>3. Overpriced({VaultAsk(v, m.order_seq)}) # {} BY <1>1, <1>2, Zenon DEF Resting
<1>4. m.order_seq = market.order_seq BY DEF Ready
<1> QED BY <1>3, <1>4, Zenon DEF Overpriced

\* No walk that starts from it aborts but at an overpriced ask.
LEMMA WalksHold ==
    ASSUME NEW mode, Inv(mode)
    PROVE  WalksComplete
<1>1. world \in Worlds /\ vault \in Lenders /\ Book(market, loans, NIL, 0, mode) BY DEF Inv
<1>2. ASSUME NEW b \in Borrowers, NEW bid \in Bids[b], NEW with_vault \in BOOLEAN,
             MayPlace(b, bid), place_order(b, bid, with_vault).aborted
      PROVE  with_vault /\ Overpriced(market.asks) # {}
  <2>1. bid \in BidParams BY BookAssumption DEF BidParams
  <2>2. PICK a : a = match_borrower_bid(b, bid, with_vault) OBVIOUS
  <2>3. PICK r : r = place_order(b, bid, with_vault) OBVIOUS
  <2>4. PICK rested : rested = (a.principal > 0 /\ bid.mode = "REST") OBVIOUS
  <2>5. PICK k : k = IF a.principal > 0 /\ bid.mode = "P2POOL_FALLBACK"
                     THEN marginfi_borrow_shares(a.principal) ELSE 0
    OBVIOUS
  <2>6. Resting(r, Offered(with_vault), mode)
    BY <1>1, <1>2, <2>1, <2>2, <2>3, <2>4, <2>5, PlaceKeeps
  <2>7. Overpriced(Offered(with_vault)) # {} BY <1>2, <2>3, <2>6, Zenon DEF Resting
  <2> QED BY <2>7 DEF Offered, Overpriced
<1>3. ASSUME NEW k \in Budgets, match_crank(k).aborted PROVE Overpriced(market.asks) # {}
  <2>1. PICK r : r = match_crank(k) OBVIOUS
  <2>2. r \in Cranks(mode) BY <1>1, <2>1, CrankStarts, CrankKeeps
  <2>3. Resting(r, market.asks, mode) BY <2>2 DEF Cranks
  <2> QED BY <1>3, <2>1, <2>3, Zenon DEF Resting
<1>4. ASSUME NEW v \in SubVaults, rest_and_take(v, FirstQuote(v)).aborted
      PROVE  ~RateFits(VaultAsk(v, market.order_seq))
  BY <1>4, FirstQuoteReady, AskWalkCompletes
<1>5. ASSUME NEW ask \in market.asks, rest_and_take(ask.trader, Requote(ask)).aborted
      PROVE  ~RateFits(VaultAsk(ask.trader, market.order_seq))
  BY <1>5, RequoteReady, AskWalkCompletes
<1> QED BY <1>2, <1>3, <1>4, <1>5, Zenon DEF WalksComplete

-----------------------------------------------------------------------------
(* The collateral that a smaller fill asks *)

\* A factor on both sides of an inequality.
LEMMA FactorOut ==
    ASSUME NEW d \in Nat, NEW x \in Int, NEW y \in Int
    PROVE  /\ d > 0 /\ d * x < d * y => x < y
           /\ x <= y => d * x <= d * y
           /\ d > 0 /\ x < y => d * x < d * y
<1>1. d > 0 /\ y <= x => d * y <= d * x BY SMT
<1>2. x <= y => d * x <= d * y BY SMT
<1>3. d > 0 /\ x + 1 <= y => d * (x + 1) <= d * y BY SMT
<1>4. d * (x + 1) = d * x + d /\ d * x \in Int /\ d * y \in Int BY SMT
<1> QED BY <1>1, <1>2, <1>3, <1>4

Req(x, cap) == required_collateral_at_ltv_cap(x, world.debt_price, world.coll_price, cap)

\* The requirement is the debt's value over the cap, rounded up from a quotient that
\* was rounded down.
LEMMA RequiredBounds ==
    ASSUME world \in Worlds, NEW cap \in 1..BPS_PER_UNIT
    PROVE  \E d \in Nat \ {0} : \A x \in Nat :
              /\ Req(x, cap) \in Nat
              /\ x * world.debt_price < d * (Req(x, cap) + 1)
              /\ x > 0 => d * (Req(x, cap) - 1) < x * world.debt_price
<1>1. PICK S, B : S = SCALE /\ B = BPS_PER_UNIT OBVIOUS
<1>2. S \in Nat \ {0} /\ B \in Nat \ {0} BY <1>1, ScaleAssumption
<1>3. PICK p, q : p = world.debt_price /\ q = world.coll_price OBVIOUS
<1>4. p \in Nat \ {0} /\ q \in Nat \ {0} BY <1>3, BookAssumption
<1>5. PICK d : d = mul_scale(q, to_scaled(cap) \div B) OBVIOUS
<1>6. d \in Nat \ {0}
  <2>1. d > 0 BY <1>1, <1>3, <1>5, PriceAssumption
  <2>2. cap \in Nat BY <1>1, <1>2
  <2>3. cap * S \in Nat BY <1>2, <2>2
  <2>4. (cap * S) \div B \in Nat BY <1>2, <2>3, DivFloor
  <2>5. q * ((cap * S) \div B) \in Nat BY <1>4, <2>4
  <2>6. d = (q * ((cap * S) \div B)) \div S BY <1>1, <1>5 DEF mul_scale, to_scaled
  <2> QED BY <1>2, <2>1, <2>5, <2>6, DivFloor
<1>7. ASSUME NEW x \in Nat
      PROVE  /\ Req(x, cap) \in Nat
             /\ x * p < d * (Req(x, cap) + 1)
             /\ x > 0 => d * (Req(x, cap) - 1) < x * p
  <2>1. PICK n \in Nat : n = x * p BY <1>4
  <2>2. PICK y : y = (n * S) \div d OBVIOUS
  <2>3. n * S \in Nat BY <1>2
  <2>4. y \in Nat /\ d * y <= n * S /\ n * S < d * y + d BY <1>6, <2>2, <2>3, DivFloor
  <2>5. PICK r : r = from_scaled_ceil(y) OBVIOUS
  <2>6. r = Req(x, cap)
    <3>1. mul_scale(to_scaled(x), p) = n
      <4>1. (x * S) * p = n * S BY <1>2, <1>4, <2>1
      <4>2. (n * S) \div S = n BY <1>2
      <4> QED BY <1>1, <4>1, <4>2 DEF mul_scale, to_scaled
    <3>2. mul_scale(n, S) = n
      <4>2. (n * S) \div S = n BY <1>2
      <4> QED BY <1>1, <4>2 DEF mul_scale
    <3>3. div_scale(n, d) = y BY <1>1, <2>2 DEF div_scale
    <3>4. Req(x, cap) = from_scaled_ceil(div_scale(
              mul_scale(mul_scale(to_scaled(x), p), S), mul_scale(q, to_scaled(cap) \div B)))
      BY <1>1, <1>3, Zenon DEF Req, required_collateral_at_ltv_cap,
                               get_required_quote_collateral_to_back_debt
    <3> QED BY <1>5, <2>5, <3>1, <3>2, <3>3, <3>4, Zenon
  <2>7. r \in Nat /\ y <= S * r /\ S * r < y + S
    <3>1. y = S * (y \div S) + (y % S) /\ y \div S \in Nat /\ y % S \in 0..(S - 1)
      BY <1>2, <2>4
    <3>2. r = IF y % S # 0 THEN (y \div S) + 1 ELSE y \div S
      BY <1>1, <2>5 DEF from_scaled_ceil
    <3>3. S * ((y \div S) + 1) = S * (y \div S) + S /\ S * (y \div S) \in Nat BY <1>2, <3>1
    <3> QED BY <1>2, <2>4, <3>1, <3>2, <3>3
  <2>8. n < d * (r + 1)
    <3>1. d * y <= d * (S * r) BY <1>2, <1>6, <2>4, <2>7, FactorOut
    <3>2. d <= d * S /\ d * S \in Nat /\ d * (S * r) \in Nat BY <1>2, <1>6, <2>7
    <3>3. n * S < d * (S * r) + d * S
      <4>1. PICK e, f, g : e = d * y /\ f = d * (S * r) /\ g = n * S OBVIOUS
      <4>2. e \in Int /\ f \in Int /\ g \in Int BY <1>6, <2>3, <2>4, <3>2, <4>1
      <4>3. g < e + d /\ e <= f BY <2>4, <3>1, <4>1
      <4>4. g < f + d * S BY <1>6, <3>2, <4>2, <4>3
      <4> QED BY <4>1, <4>4
    <3>4. d * (S * r) + d * S = S * (d * (r + 1)) /\ n * S = S * n BY <1>2, <1>6, <2>7
    <3>5. S * n < S * (d * (r + 1)) BY <3>3, <3>4
    <3>6. d * (r + 1) \in Int BY <1>6, <2>7
    <3> QED BY <1>2, <3>5, <3>6, FactorOut
  <2>9. ASSUME x > 0 PROVE d * (r - 1) < n
    <3>1. S * (r - 1) < y
      <4>1. S * (r - 1) = S * r - S BY <1>2, <2>7
      <4> QED BY <1>2, <2>4, <2>7, <4>1
    <3>2. S * (r - 1) \in Int BY <1>2, <2>7
    <3>3. d * (S * (r - 1)) < d * y BY <1>6, <2>4, <3>1, <3>2, FactorOut
    <3>4. d * (S * (r - 1)) = S * (d * (r - 1)) /\ n * S = S * n BY <1>2, <1>6, <2>7
    <3>5. S * (d * (r - 1)) < S * n
      <4>1. d * y \in Int /\ S * n \in Int /\ S * (d * (r - 1)) \in Int BY <1>2, <1>6, <2>4, <2>7
      <4> QED BY <2>4, <3>3, <3>4, <4>1
    <3>6. d * (r - 1) \in Int BY <1>6, <2>7
    <3> QED BY <1>2, <3>5, <3>6, FactorOut
  <2> QED BY <2>1, <2>6, <2>7, <2>8, <2>9
<1> QED BY <1>3, <1>6, <1>7

\* If x atoms of debt ask more than the share x / P of C atoms of collateral, y <= x
\* atoms ask more than their share but for two atoms.
LEMMA SmallerAsks ==
    ASSUME world \in Worlds, NEW cap \in 1..BPS_PER_UNIT, NEW P \in Nat \ {0}, NEW C \in Nat,
           NEW x \in Nat, NEW y \in 1..x, x * C < Req(x, cap) * P
    PROVE  Req(y, cap) \in Nat /\ y * C < (Req(y, cap) + 2) * P
<1>1. PICK d \in Nat \ {0} : \A z \in Nat :
              /\ Req(z, cap) \in Nat
              /\ z * world.debt_price < d * (Req(z, cap) + 1)
              /\ z > 0 => d * (Req(z, cap) - 1) < z * world.debt_price
  BY RequiredBounds
<1>2. PICK p : p = world.debt_price OBVIOUS
<1>3. p \in Nat BY <1>2, BookAssumption
<1>4. y \in Nat \ {0} /\ y <= x /\ x > 0 OBVIOUS
<1>5. PICK r, s : r = Req(x, cap) /\ s = Req(y, cap) OBVIOUS
<1>6. r \in Nat /\ s \in Nat /\ y * p < d * (s + 1) /\ d * (r - 1) < x * p
  BY <1>1, <1>2, <1>4, <1>5
<1>7. y * (d * (r - 1)) < y * (x * p)
  <2>1. d * (r - 1) \in Int /\ x * p \in Int BY <1>3, <1>6
  <2> QED BY <1>4, <1>6, <2>1, FactorOut
<1>8. x * (y * p) < x * (d * (s + 1))
  <2>1. d * (s + 1) \in Int /\ y * p \in Int BY <1>3, <1>4, <1>6
  <2> QED BY <1>4, <1>6, <2>1, FactorOut
<1>9. d * (y * (r - 1)) < d * (x * (s + 1))
  <2>1. y * (d * (r - 1)) = d * (y * (r - 1)) BY <1>4, <1>6
  <2>2. x * (d * (s + 1)) = d * (x * (s + 1)) BY <1>4, <1>6
  <2>3. y * (x * p) = x * (y * p) /\ x * (y * p) \in Int BY <1>3, <1>4
  <2>4. d * (y * (r - 1)) \in Int /\ d * (x * (s + 1)) \in Int BY <1>4, <1>6
  <2> QED BY <1>7, <1>8, <2>1, <2>2, <2>3, <2>4
<1>10. y * (r - 1) < x * (s + 1)
  <2>1. y * (r - 1) \in Int /\ x * (s + 1) \in Int BY <1>4, <1>6
  <2> QED BY <1>9, <2>1, FactorOut
<1>11. y * r < x * (s + 2)
  <2>1. y * (r - 1) = y * r - y /\ y * r \in Int BY <1>4, <1>6
  <2>2. x * (s + 2) = x * (s + 1) + x /\ x * (s + 1) \in Int BY <1>4, <1>6
  <2> QED BY <1>4, <1>10, <2>1, <2>2
<1>12. P * (y * r) < P * (x * (s + 2))
  <2>1. y * r \in Int /\ x * (s + 2) \in Int BY <1>4, <1>6
  <2> QED BY <1>11, <2>1, FactorOut
<1>13. y * (x * C) < y * (r * P)
  <2>1. x * C \in Int /\ r * P \in Int BY <1>6
  <2> QED BY <1>4, <1>5, <2>1, FactorOut
<1>14. x * (y * C) < x * ((s + 2) * P)
  <2>1. y * (x * C) = x * (y * C) BY <1>4
  <2>2. y * (r * P) = P * (y * r) BY <1>4, <1>6
  <2>3. P * (x * (s + 2)) = x * ((s + 2) * P) BY <1>4, <1>6
  <2>4. x * (y * C) \in Int /\ P * (y * r) \in Int /\ x * ((s + 2) * P) \in Int BY <1>4, <1>6
  <2> QED BY <1>12, <1>13, <2>1, <2>2, <2>3, <2>4
<1>15. y * C < (s + 2) * P
  <2>1. y * C \in Int /\ (s + 2) * P \in Int BY <1>4, <1>6
  <2> QED BY <1>4, <1>14, <2>1, FactorOut
<1> QED BY <1>5, <1>6, <1>15

-----------------------------------------------------------------------------
(* What a walk leaves uncrossed *)

\* No fill of up to x atoms of an order of P atoms of debt over C of collateral comes
\* within the rounding of what the cap asks.
Short(P, C, x, cap) ==
    cap = 0 \/ \A y \in 1..x : Req(y, cap) \in Nat /\ y * C < (Req(y, cap) + 2) * P

\* A fill that the LTV gate refused leaves the order short.
LEMMA RefusedShort ==
    ASSUME world \in Worlds, NEW cap \in 0..BPS_PER_UNIT, NEW P \in Nat \ {0}, NEW C \in Nat,
           NEW x \in Nat, NEW c \in Nat, ~MeetsCap(x, c, cap), x * C < (c + 1) * P
    PROVE  Short(P, C, x, cap)
<1>1. CASE cap = 0 BY <1>1 DEF Short
<1>2. CASE cap # 0 /\ x = 0 BY <1>2 DEF Short
<1>3. CASE cap # 0 /\ x > 0
  <2>1. cap \in 1..BPS_PER_UNIT BY <1>3, ScaleAssumption
  <2>2. Req(x, cap) \in Nat BY <2>1, RequiredBounds
  <2>3. ~(c >= Req(x, cap)) BY <2>1, ScaleAssumption DEF MeetsCap, Req
  <2>4. c + 1 <= Req(x, cap) BY <2>2, <2>3
  <2>5. P * (c + 1) <= P * Req(x, cap) BY <2>2, <2>4, FactorOut
  <2>6. x * C < Req(x, cap) * P
    <3>1. P * (c + 1) = (c + 1) * P /\ P * Req(x, cap) = Req(x, cap) * P BY <2>2
    <3>2. x * C \in Int /\ (c + 1) * P \in Int /\ Req(x, cap) * P \in Int BY <2>2
    <3> QED BY <2>5, <3>1, <3>2
  <2>7. \A y \in 1..x : Req(y, cap) \in Nat /\ y * C < (Req(y, cap) + 2) * P
    BY <2>1, <2>6, SmallerAsks
  <2> QED BY <2>7 DEF Short
<1> QED BY <1>1, <1>2, <1>3

\* The share of an order's collateral, rounded down.
LEMMA ShareBounds ==
    ASSUME NEW p \in Nat \ {0}, NEW k \in Nat, NEW y \in 0..p, NEW c,
           c = MatchedCollateral(y, p, k, k, p)
    PROVE  c \in Nat /\ c * p <= y * k /\ y * k < (c + 1) * p
<1>1. CASE y = p
  <2>1. c = k BY <1>1 DEF MatchedCollateral
  <2> QED BY <1>1, <2>1
<1>2. CASE y # p
  <2>1. c = (y * k) \div p BY <1>2 DEF MatchedCollateral, mul_div
  <2>2. y * k \in Nat OBVIOUS
  <2>3. c \in Nat /\ p * c <= y * k /\ y * k < p * c + p BY <2>1, <2>2, DivFloor
  <2>4. p * c = c * p /\ (c + 1) * p = c * p + p BY <2>3
  <2> QED BY <2>3, <2>4
<1> QED BY <1>1, <1>2

\* What is left of a short order, p atoms over k, after n fills that each took its
\* share but for less than an atom, is not crossed with n + 2 atoms to spare.
LEMMA ShortUncrossed ==
    ASSUME NEW cap \in Nat, NEW P \in Nat \ {0}, NEW C \in Nat, NEW x \in Nat,
           Short(P, C, x, cap), NEW p \in Nat \ {0}, NEW k \in Nat, NEW n \in Nat,
           NEW s \in Nat, s >= n + 2,
           k * P <= p * C + n * P, NEW y \in 1..x, y <= p
    PROVE  ~MeetsCap(y, MatchedCollateral(y, p, k, k, p) - s, cap)
<1>1. CASE cap = 0 BY <1>1 DEF MeetsCap
<1>2. CASE cap # 0
  <2>1. PICK c, r : c = MatchedCollateral(y, p, k, k, p) /\ r = Req(y, cap) OBVIOUS
  <2>2. r \in Nat /\ y * C < (r + 2) * P BY <1>2, <2>1 DEF Short
  <2>3. y \in Nat \ {0} /\ y \in 0..p OBVIOUS
  <2>4. c \in Nat /\ c * p <= y * k BY <2>1, <2>3, ShareBounds
  <2>5. P * (c * p) <= P * (y * k)
    <3>1. c * p \in Int /\ y * k \in Int BY <2>3, <2>4
    <3> QED BY <2>4, <3>1, FactorOut
  <2>6. y * (k * P) <= y * (p * C + n * P)
    <3>1. k * P \in Int /\ p * C + n * P \in Int OBVIOUS
    <3> QED BY <2>3, <3>1, FactorOut
  <2>7. y * (n * P) <= p * (n * P)
    <3>1. n * P \in Nat OBVIOUS
    <3>2. (n * P) * y <= (n * P) * p BY <2>3, <3>1, FactorOut
    <3> QED BY <2>3, <3>1, <3>2
  <2>8. p * (c * P) <= p * (y * C + n * P)
    <3>1. P * (c * p) = p * (c * P) BY <2>4
    <3>2. P * (y * k) = y * (k * P) BY <2>3
    <3>3. y * (p * C + n * P) = p * (y * C) + y * (n * P) BY <2>3
    <3>4. p * (y * C + n * P) = p * (y * C) + p * (n * P) BY <2>3
    <3>5. p * (c * P) \in Int /\ y * (k * P) \in Int BY <2>3, <2>4
    <3>6. p * (y * C) \in Int /\ y * (n * P) \in Int /\ p * (n * P) \in Int BY <2>3
    <3> QED BY <2>5, <2>6, <2>7, <3>1, <3>2, <3>3, <3>4, <3>5, <3>6
  <2>9. c * P <= y * C + n * P
    <3>1. c * P \in Int /\ y * C + n * P \in Int BY <2>3, <2>4
    <3>2. ~(y * C + n * P < c * P)
      <4>1. y * C + n * P < c * P => p * (y * C + n * P) < p * (c * P) BY <3>1, FactorOut
      <4>2. p * (y * C + n * P) \in Int /\ p * (c * P) \in Int BY <3>1
      <4> QED BY <2>8, <4>1, <4>2
    <3> QED BY <3>1, <3>2
  <2>10. P * c < P * (r + 2 + n)
    <3>1. P * (r + 2 + n) = (r + 2) * P + n * P /\ P * c = c * P BY <2>2, <2>4
    <3>2. /\ c * P \in Int /\ y * C \in Int /\ n * P \in Int /\ (r + 2) * P \in Int
      BY <2>2, <2>3, <2>4
    <3> QED BY <2>2, <2>9, <3>1, <3>2
  <2>11. c < r + 2 + n BY <2>2, <2>4, <2>10, FactorOut
  <2>12. ~(c - s >= r) BY <2>2, <2>4, <2>11
  <2> QED BY <2>1, <2>12 DEF MeetsCap, Req
<1> QED BY <1>1, <1>2

-----------------------------------------------------------------------------
(* The asks that a taking bid has met *)

\* Of an order of P over C, p over k is left: the LTV gate refuses a fill of it from
\* idle atoms, by more than rounding once n > 0 fills were made.
Refused(P, C, p, k, idle, n, cap) ==
    /\ Short(P, C, MinOf(p, idle), cap)
    /\ n = 0 => ~MeetsCap(MinOf(p, idle), MatchedCollateral(MinOf(p, idle), p, k, C, P), cap)

\* A gate keeps the taking bid and an ask that it has met apart.
AskMet(b, bid, a, ask) ==
    \/ ask.rate < world.apr \/ bid.rate < ask.rate \/ ~(bid.term <= ask.term)
    \/ ~(ask.term <= a.vault[ask.trader].policy.max_term) \/ Curator[ask.trader] = b
    \/ a.principal = 0 \/ sub_vault_idle(a.vault[ask.trader]) = 0
    \/ Refused(bid.principal, bid.collateral, a.principal, a.collateral,
               sub_vault_idle(a.vault[ask.trader]), a.fills,
               effective_origination_cap_bps(a.vault[ask.trader].policy.max_ltv, bid.buffer))

\* What a taking bid has left covers it in proportion, but for less than an atom per fill.
Left(bid, n0, a) ==
    /\ bid.collateral * a.principal <= a.collateral * bid.principal
    /\ a.collateral * bid.principal <= a.principal * bid.collateral + a.fills * bid.principal
    /\ a.market.loan_seq = n0 + a.fills
    /\ a.fills = 0 => a.principal = bid.principal /\ a.collateral = bid.collateral

\* Fills only use up the bid and the sub-vaults' idle atoms.
Later(a, r) ==
    /\ r.principal <= a.principal
    /\ \A v \in SubVaults : /\ r.vault[v].policy = a.vault[v].policy
                            /\ sub_vault_idle(r.vault[v]) <= sub_vault_idle(a.vault[v])
    /\ r.fills = 0 => /\ a.fills = 0 /\ r.principal = a.principal
                      /\ r.collateral = a.collateral /\ r.vault = a.vault

\* What is short for more is short for less.
LEMMA ShortLess ==
    ASSUME NEW P, NEW C, NEW x \in Nat, NEW y \in Nat, NEW cap, y <= x, Short(P, C, x, cap)
    PROVE  Short(P, C, y, cap)
  BY DEF Short

\* The idle atoms of every sub-vault are a number.
LEMMA IdleOf ==
    ASSUME NEW a \in Accs, NEW v \in SubVaults
    PROVE  /\ sub_vault_idle(a.vault[v]) \in Nat
           /\ a.vault[v] \in [idle : Nat, sunset : BOOLEAN, policy : Policies]
           /\ a.vault[v].policy.max_ltv \in 0..BPS_PER_UNIT
<1>1. a.vault[v] \in [idle : Nat, sunset : BOOLEAN, policy : Policies] BY DEF Accs, Lenders
<1>2. a.vault[v].policy \in Policies BY <1>1
<1>3. a.vault[v].policy \in
         [ spread : Nat, max_term : Nat \ {0}, max_ltv : 1..(BPS_PER_UNIT - 1) ]
  BY <1>2, BookAssumption
<1>4. a.vault[v].policy.max_ltv \in 1..(BPS_PER_UNIT - 1) BY <1>3
<1> QED BY <1>1, <1>4, IdleTyped, ScaleAssumption

\* A cap is one that the program divides by.
LEMMA CapTyped ==
    ASSUME NEW n \in 0..BPS_PER_UNIT, NEW k \in Nat
    PROVE  effective_origination_cap_bps(n, k) \in 0..BPS_PER_UNIT
  BY ScaleAssumption DEF effective_origination_cap_bps, SatSub

\* An ask that was kept apart stays apart.
LEMMA AskMetStays ==
    ASSUME NEW b, NEW bid, NEW a \in Accs, NEW r \in Accs, NEW ask \in AskOrder,
           Later(a, r), AskMet(b, bid, a, ask)
    PROVE  AskMet(b, bid, r, ask)
<1>1. PICK v : v = ask.trader OBVIOUS
<1>2. v \in SubVaults BY <1>1 DEF AskOrder
<1>3. PICK i, j : i = sub_vault_idle(a.vault[v]) /\ j = sub_vault_idle(r.vault[v]) OBVIOUS
<1>4. i \in Nat /\ j \in Nat /\ j <= i /\ r.vault[v].policy = a.vault[v].policy
  BY <1>2, <1>3, IdleOf DEF Later
<1>5. a.principal \in Nat /\ r.principal \in Nat /\ r.principal <= a.principal
  BY DEF Accs, Later
<1>6. CASE a.principal = 0 BY <1>5, <1>6 DEF AskMet
<1>7. CASE i = 0 BY <1>1, <1>3, <1>4, <1>7 DEF AskMet
<1>8. PICK cap : cap = effective_origination_cap_bps(a.vault[v].policy.max_ltv, bid.buffer)
  OBVIOUS
<1>9. ASSUME Refused(bid.principal, bid.collateral, a.principal, a.collateral, i, a.fills, cap)
      PROVE  Refused(bid.principal, bid.collateral, r.principal, r.collateral, j, r.fills, cap)
  <2>1. PICK x, y : x = MinOf(a.principal, i) /\ y = MinOf(r.principal, j) OBVIOUS
  <2>2. x \in Nat /\ y \in Nat /\ y <= x BY <1>4, <1>5, <2>1 DEF MinOf
  <2>3. Short(bid.principal, bid.collateral, x, cap) BY <1>9, <2>1 DEF Refused
  <2>4. Short(bid.principal, bid.collateral, y, cap) BY <2>2, <2>3, ShortLess
  <2>5. r.fills = 0 => /\ a.fills = 0 /\ r.principal = a.principal
                       /\ r.collateral = a.collateral /\ j = i
    BY <1>3, Zenon DEF Later
  <2> QED BY <1>9, <2>1, <2>4, <2>5, Zenon DEF Refused
<1> QED BY <1>1, <1>3, <1>4, <1>6, <1>7, <1>8, <1>9, Zenon DEF AskMet

\* What one ask leaves: it is met, the bid and the idle atoms only shrink, and the
\* walk ends only at a rate that the bid does not reach.
LEMMA AskMeets ==
    ASSUME NEW b \in Borrowers, NEW bid \in BidParams, NEW snapshot \in Nat \ {0},
           snapshot <= world.asv, NEW n0 \in Nat,
           NEW acc \in Accs, NEW ask \in AskOrder, NEW r,
           world \in Worlds, bid.principal > 0, r = match_ask(b, bid, snapshot, acc, ask),
           Left(bid, n0, acc), acc.stop => bid.rate < ask.rate
    PROVE  /\ AskMet(b, bid, r, ask) /\ Left(bid, n0, r) /\ Later(acc, r)
           /\ r.stop => bid.rate < ask.rate
<1>1. PICK v : v = ask.trader OBVIOUS
<1>2. v \in SubVaults BY <1>1 DEF AskOrder
<1>3. PICK i : i = sub_vault_idle(acc.vault[v]) OBVIOUS
<1>4. /\ i \in Nat /\ acc.vault[v] \in [idle : Nat, sunset : BOOLEAN, policy : Policies]
      /\ acc.vault[v].policy.max_ltv \in 0..BPS_PER_UNIT
  BY <1>2, <1>3, IdleOf
<1>5. PICK P, C, p, k, n : /\ P = bid.principal /\ C = bid.collateral
                           /\ p = acc.principal /\ k = acc.collateral /\ n = acc.fills
  OBVIOUS
<1>6. /\ P \in Nat \ {0} /\ C \in Nat /\ p \in Nat /\ k \in Nat /\ n \in Nat
      /\ bid.buffer \in Nat /\ bid.rate \in Nat /\ bid.term \in Nat
  BY <1>5 DEF BidParams, Accs
<1>7. /\ C * p <= k * P /\ k * P <= p * C + n * P /\ acc.market.loan_seq = n0 + n
      /\ n = 0 => p = P /\ k = C
  BY <1>5, Zenon DEF Left
<1>8. PICK fill : fill = MinOf(p, i) OBVIOUS
<1>9. fill \in Nat /\ fill <= p /\ fill <= i /\ (fill = p \/ fill = i)
  BY <1>4, <1>6, <1>8 DEF MinOf
<1>10. PICK c : c = MatchedCollateral(fill, p, k, C, P) OBVIOUS
<1>11. /\ c \in Nat /\ c <= k /\ C * (p - fill) <= (k - c) * P /\ (fill = p => c = k)
  BY <1>6, <1>7, <1>9, <1>10, CollateralSplit
<1>12. fill * C < (c + 1) * P
  <2>1. CASE fill = p
    <3>1. C * p = fill * C /\ (c + 1) * P = k * P + P /\ k * P \in Nat /\ fill * C \in Nat
      BY <1>6, <1>11, <2>1
    <3> QED BY <1>6, <1>7, <3>1
  <2>2. CASE fill # p
    <3>1. c = (fill * C) \div P BY <1>10, <2>2 DEF MatchedCollateral, mul_div
    <3>2. fill * C \in Nat BY <1>6, <1>9
    <3>3. fill * C < P * c + P BY <1>6, <3>1, <3>2, DivFloor
    <3>4. P * c + P = (c + 1) * P BY <1>6, <1>11
    <3> QED BY <3>3, <3>4
  <2> QED BY <2>1, <2>2
<1>13. PICK cap : cap = effective_origination_cap_bps(acc.vault[v].policy.max_ltv, bid.buffer)
  OBVIOUS
<1>14. cap \in 0..BPS_PER_UNIT BY <1>4, <1>6, <1>13, CapTyped
<1>15. Later(acc, acc)
  <2>1. acc.principal <= acc.principal BY <1>5, <1>6
  <2>2. \A u \in SubVaults : sub_vault_idle(acc.vault[u]) <= sub_vault_idle(acc.vault[u])
    <3>1. \A u \in SubVaults : sub_vault_idle(acc.vault[u]) \in Nat BY IdleOf
    <3> QED BY <3>1
  <2> QED BY <2>1, <2>2 DEF Later
<1>16. CASE r = acc /\ AskSkipped(b, bid, acc, ask)
  <2>1. AskMet(b, bid, acc, ask)
    <3>1. CASE ~MeetsCap(fill, c, cap)
      <4>1. Short(P, C, fill, cap) BY <1>6, <1>9, <1>11, <1>12, <1>14, <3>1, RefusedShort
      <4>2. Refused(P, C, p, k, i, n, cap) BY <1>8, <1>10, <3>1, <4>1, Zenon DEF Refused
      <4> QED BY <1>1, <1>3, <1>5, <1>13, <4>2, Zenon DEF AskMet
    <3>2. CASE ~(fill > 0)
      <4>1. p = 0 \/ i = 0 BY <1>9, <3>2
      <4> QED BY <1>1, <1>3, <1>5, <4>1 DEF AskMet
    <3>3. CASE MeetsCap(fill, c, cap) /\ fill > 0
      <4>1. \/ acc.stop \/ acc.principal = 0 \/ ask.rate < world.apr
            \/ ~(bid.term <= ask.term) \/ ~(ask.term <= acc.vault[ask.trader].policy.max_term)
            \/ Curator[ask.trader] = b
        BY <1>1, <1>3, <1>5, <1>8, <1>10, <1>13, <1>16, <3>3, Zenon DEF AskSkipped
      <4> QED BY <4>1, Zenon DEF AskMet
    <3> QED BY <3>1, <3>2, <3>3
  <2> QED BY <1>15, <1>16, <2>1
<1>17. CASE r = [acc EXCEPT !.stop = TRUE] /\ bid.rate < ask.rate
  <2>1. /\ r.market = acc.market /\ r.vault = acc.vault /\ r.principal = acc.principal
        /\ r.collateral = acc.collateral /\ r.fills = acc.fills
    BY <1>17 DEF Accs
  <2>2. Later(acc, r) BY <1>15, <2>1, Zenon DEF Later
  <2>3. Left(bid, n0, r) BY <2>1, Zenon DEF Left
  <2> QED BY <1>17, <2>2, <2>3 DEF AskMet
<1>18. CASE \E f, d : /\ AskFilled(b, bid, snapshot, acc, ask, f, d)
                      /\ r = Fill([acc EXCEPT !.principal = @ - f, !.collateral = SatSub(@, d)],
                                  ask, f, Taker(b, d, bid, snapshot, 0))
  <2>1. /\ fill > 0
        /\ r = Fill([acc EXCEPT !.principal = @ - fill, !.collateral = SatSub(@, c)],
                    ask, fill, Taker(b, c, bid, snapshot, 0))
    BY <1>1, <1>3, <1>5, <1>8, <1>10, <1>18, Zenon DEF AskFilled
  <2>2. PICK p2, k2 : p2 = p - fill /\ k2 = k - c OBVIOUS
  <2>3. p2 \in Nat /\ k2 \in Nat /\ k2 = SatSub(k, c) /\ p2 <= p
    BY <1>6, <1>9, <1>11, <2>2 DEF SatSub
  <2>4. PICK base : base = [acc EXCEPT !.principal = p2, !.collateral = k2] OBVIOUS
  <2>5. /\ base \in Accs /\ base.market = acc.market /\ base.vault = acc.vault
        /\ base.principal = p2 /\ base.collateral = k2 /\ base.fills = n
        /\ base.stop = acc.stop
    BY <1>5, <2>3, <2>4 DEF Accs
  <2>6. PICK taker : taker = Taker(b, c, bid, snapshot, 0) OBVIOUS
  <2>7. taker \in Takers BY <1>6, <1>11, <2>6 DEF Taker, Takers
  <2>8. r = Fill(base, ask, fill, taker) BY <1>5, <2>1, <2>2, <2>3, <2>4, <2>6, Zenon
  <2>9. fill <= base.vault[ask.trader].idle
    <3>1. i <= acc.vault[v].idle BY <1>3, <1>4, IdleTyped
    <3>2. acc.vault[v].idle \in Nat BY <1>4
    <3>3. fill <= acc.vault[v].idle BY <1>4, <1>9, <3>1, <3>2
    <3> QED BY <1>1, <2>5, <3>3
  <2>10. /\ r \in Accs /\ r.principal = p2 /\ r.collateral = k2 /\ r.stop = acc.stop
         /\ r.fills = n + 1 /\ r.market.loan_seq = acc.market.loan_seq + 1
         /\ r.vault = [acc.vault EXCEPT ![v].idle = @ - fill]
    <3>1. /\ r \in Accs /\ r.principal = base.principal /\ r.collateral = base.collateral
          /\ r.stop = base.stop /\ r.fills = base.fills + 1
          /\ r.market.loan_seq = base.market.loan_seq + 1
          /\ r.vault = [base.vault EXCEPT ![ask.trader].idle = @ - fill]
      BY <1>9, <2>5, <2>7, <2>8, <2>9, FillShape
    <3> QED BY <1>1, <2>5, <3>1, Zenon
  <2>11. Left(bid, n0, r)
    <3>1. C * p2 <= k2 * P BY <1>11, <2>2
    <3>2. k2 * P <= p2 * C + (n + 1) * P
      <4>1. k2 * P = k * P - c * P /\ p2 * C = p * C - fill * C /\ (n + 1) * P = n * P + P
        BY <1>6, <1>9, <1>11, <2>2
      <4>2. (c + 1) * P = c * P + P BY <1>6, <1>11
      <4>3. /\ k * P \in Int /\ c * P \in Int /\ p * C \in Int /\ fill * C \in Int /\ n * P \in Int
        BY <1>6, <1>9, <1>11
      <4> QED BY <1>6, <1>7, <1>12, <4>1, <4>2, <4>3
    <3>3. r.market.loan_seq = n0 + r.fills BY <1>6, <1>7, <2>10
    <3>4. r.fills # 0 BY <1>6, <2>10
    <3> QED BY <1>5, <2>10, <3>1, <3>2, <3>3, <3>4 DEF Left
  <2>12. /\ \A u \in SubVaults : r.vault[u].policy = acc.vault[u].policy
         /\ r.vault[v].sunset = acc.vault[v].sunset
         /\ r.vault[v].idle = acc.vault[v].idle - fill
         /\ \A u \in SubVaults \ {v} : r.vault[u] = acc.vault[u]
    BY <1>2, <2>10 DEF Accs, Lenders
  <2>13. sub_vault_idle(r.vault[v]) = i - fill
    <3>1. acc.vault[v].idle \in Nat BY <1>4
    <3> QED BY <1>3, <1>9, <2>1, <2>12, <3>1
            DEF sub_vault_idle, SatSub, MARGINFI_ROUNDING_RESERVE_ATOMS
  <2>14. Later(acc, r)
    <3>1. \A u \in SubVaults : sub_vault_idle(r.vault[u]) <= sub_vault_idle(acc.vault[u])
      <4>1. \A u \in SubVaults : sub_vault_idle(acc.vault[u]) \in Nat BY IdleOf
      <4>2. i - fill <= i BY <1>4, <1>9
      <4> QED BY <1>3, <2>12, <2>13, <4>1, <4>2
    <3>2. r.fills # 0 BY <1>6, <2>10
    <3> QED BY <1>5, <2>3, <2>10, <2>12, <3>1, <3>2 DEF Later
  <2>15. AskMet(b, bid, r, ask)
    <3>1. p2 = 0 \/ i - fill = 0 BY <1>4, <1>6, <1>9, <2>2
    <3> QED BY <1>1, <2>10, <2>13, <3>1 DEF AskMet
  <2>16. r.stop => bid.rate < ask.rate BY <2>10
  <2> QED BY <2>11, <2>14, <2>15, <2>16
<1>19. AskResult(b, bid, snapshot, acc, ask, r) BY AskCases
<1> QED BY <1>16, <1>17, <1>18, <1>19, Zenon DEF AskResult

\* match_order has met every ask when it ends.
LEMMA MatchOrderMeets ==
    ASSUME NEW b \in Borrowers, NEW bid \in BidParams, NEW snapshot \in Nat \ {0},
           snapshot <= world.asv,
           NEW acc \in Accs, NEW n0 \in Nat, NEW r, world \in Worlds, bid.principal > 0,
           Ranked(acc.market.asks), Left(bid, n0, acc), ~acc.stop,
           r = WalkAsks(b, bid, snapshot, acc)
    PROVE  Left(bid, n0, r) /\ \A ask \in acc.market.asks : AskMet(b, bid, r, ask)
<1>1. PICK S : S = acc.market.asks OBVIOUS
<1>2. S \subseteq AskOrder /\ IsFiniteSet(S) BY <1>1 DEF Accs, Markets, Ranked
<1>3. PICK it : IsAskWalk(it, S, b, bid, snapshot, acc) BY <1>1, AskWalk
<1>4. it \in [SUBSET S -> Accs] /\ r = it[S] /\ it[{}] = acc BY <1>3 DEF IsAskWalk
<1> DEFINE T == {s \in SUBSET S : /\ Left(bid, n0, it[s])
                                  /\ \A ask \in s : AskMet(b, bid, it[s], ask)
                                  /\ it[s].stop => \E ask \in s : bid.rate < ask.rate}
<1>5. {} \in T BY <1>4
<1>6. ASSUME NEW s \in SUBSET S, s # {} PROVE \E x \in s : (s \ {x} \in T => s \in T)
  <2>1. PICK ask \in s : /\ IsLast(ask, s, FALSE)
                         /\ it[s] = match_ask(b, bid, snapshot, it[s \ {ask}], ask)
    BY <1>3, <1>6 DEF IsAskWalk
  <2> SUFFICES ASSUME s \ {ask} \in T PROVE s \in T BY <2>1
  <2>2. PICK a, a2 : a = it[s \ {ask}] /\ a2 = it[s] OBVIOUS
  <2>3. a \in Accs /\ a2 \in Accs /\ ask \in AskOrder BY <1>2, <1>4, <2>1, <2>2
  <2>4. /\ Left(bid, n0, a) /\ \A o \in s \ {ask} : AskMet(b, bid, a, o)
        /\ a.stop => \E o \in s \ {ask} : bid.rate < o.rate
    BY <2>2
  <2>5. a.stop => bid.rate < ask.rate
    <3> SUFFICES ASSUME a.stop PROVE bid.rate < ask.rate OBVIOUS
    <3>1. PICK o \in s \ {ask} : bid.rate < o.rate BY <2>4
    <3>2. Better(o, ask, FALSE) BY <2>1 DEF IsLast
    <3>3. o.rate <= ask.rate /\ o.rate \in Nat /\ ask.rate \in Nat
      BY <1>2, <2>3, <3>2 DEF Better, AskOrder
    <3>4. bid.rate \in Nat BY DEF BidParams
    <3> QED BY <3>1, <3>3, <3>4
  <2>6. a2 = match_ask(b, bid, snapshot, a, ask) BY <2>1, <2>2, Zenon
  <2>7. /\ AskMet(b, bid, a2, ask) /\ Left(bid, n0, a2) /\ Later(a, a2)
        /\ a2.stop => bid.rate < ask.rate
    BY <2>3, <2>4, <2>5, <2>6, AskMeets
  <2>8. \A o \in s \ {ask} : AskMet(b, bid, a2, o)
    BY <1>2, <2>3, <2>4, <2>7, AskMetStays
  <2>9. \A o \in s : AskMet(b, bid, a2, o) BY <2>7, <2>8
  <2> QED BY <2>1, <2>2, <2>7, <2>9
<1>7. S \in T
  <2> HIDE DEF T
  <2>1. \A s \in SUBSET S : s \in T BY <1>2, <1>5, <1>6, SubsetInduction, Zenon
  <2> QED BY <2>1
<1> QED BY <1>1, <1>4, <1>7

-----------------------------------------------------------------------------
(* The bids that a taking ask has met *)

\* A gate keeps the taking ask and a resting bid apart.
BidMet(ask, a, bid) ==
    \/ bid.rate < ask.rate \/ ~(bid.term <= ask.term) \/ bid.trader = Curator[ask.trader]
    \/ sub_vault_idle(a.vault[ask.trader]) = 0
    \/ Refused(bid.principal, bid.collateral, bid.principal, bid.collateral,
               sub_vault_idle(a.vault[ask.trader]), a.fills,
               effective_origination_cap_bps(a.vault[ask.trader].policy.max_ltv, bid.buffer))

\* Fills only use up the idle atoms of sub-vault v.
Drained(a, r, v) ==
    /\ r.vault[v].policy = a.vault[v].policy
    /\ sub_vault_idle(r.vault[v]) <= sub_vault_idle(a.vault[v])
    /\ r.fills = 0 => a.fills = 0 /\ r.vault[v] = a.vault[v]

\* A bid that was kept apart stays apart.
LEMMA BidMetStays ==
    ASSUME NEW a \in Accs, NEW r \in Accs, NEW ask \in AskOrder, NEW bid \in BidOrder,
           Drained(a, r, ask.trader), BidMet(ask, a, bid)
    PROVE  BidMet(ask, r, bid)
<1>1. PICK v : v = ask.trader OBVIOUS
<1>2. v \in SubVaults BY <1>1 DEF AskOrder
<1>3. PICK i, j : i = sub_vault_idle(a.vault[v]) /\ j = sub_vault_idle(r.vault[v]) OBVIOUS
<1>4. i \in Nat /\ j \in Nat /\ j <= i /\ r.vault[v].policy = a.vault[v].policy
  BY <1>1, <1>2, <1>3, IdleOf DEF Drained
<1>5. PICK P, C : P = bid.principal /\ C = bid.collateral OBVIOUS
<1>6. P \in Nat BY <1>5 DEF BidOrder
<1>7. CASE i = 0 BY <1>1, <1>3, <1>4, <1>7 DEF BidMet
<1>8. PICK cap : cap = effective_origination_cap_bps(a.vault[v].policy.max_ltv, bid.buffer)
  OBVIOUS
<1>9. ASSUME Refused(P, C, P, C, i, a.fills, cap) PROVE Refused(P, C, P, C, j, r.fills, cap)
  <2>1. PICK x, y : x = MinOf(P, i) /\ y = MinOf(P, j) OBVIOUS
  <2>2. x \in Nat /\ y \in Nat /\ y <= x BY <1>4, <1>6, <2>1 DEF MinOf
  <2>3. Short(P, C, x, cap) BY <1>9, <2>1 DEF Refused
  <2>4. Short(P, C, y, cap) BY <2>2, <2>3, ShortLess
  <2>5. r.fills = 0 => a.fills = 0 /\ j = i BY <1>1, <1>3, Zenon DEF Drained
  <2> QED BY <1>9, <2>1, <2>4, <2>5, Zenon DEF Refused
<1> QED BY <1>1, <1>3, <1>4, <1>5, <1>7, <1>8, <1>9, Zenon DEF BidMet

\* Nothing is drained where nothing is filled.
LEMMA DrainedSame ==
    ASSUME NEW a \in Accs, NEW r, NEW v \in SubVaults, r.vault = a.vault, r.fills = a.fills
    PROVE  Drained(a, r, v)
<1>1. sub_vault_idle(a.vault[v]) \in Nat BY IdleOf
<1> QED BY <1>1 DEF Drained

\* What one bid leaves: it is gone, or it is met.
BidMeet(n0, ask, acc, bid, r) ==
    /\ Drained(acc, r, ask.trader)
    /\ r.market.loan_seq = n0 + r.fills /\ r.fills <= acc.fills + 1
    /\ \A o \in r.market.bids : o \in acc.market.bids \ {bid} \/ BidMet(ask, r, o)
    /\ r.stop => bid.rate < ask.rate \/ sub_vault_idle(r.vault[ask.trader]) = 0

\* One bid under a taking ask whose budget lasts.
LEMMA BidMeets ==
    ASSUME NEW ask \in AskOrder, NEW max_fills \in Nat, NEW acc \in Accs, NEW bid \in BidOrder,
           NEW n0 \in Nat, NEW r,
           bid.snapshot > 0, world \in Worlds, acc.fills < max_fills,
           acc.market.loan_seq = n0 + acc.fills,
           acc.stop => bid.rate < ask.rate \/ sub_vault_idle(acc.vault[ask.trader]) = 0,
           r = match_bid(ask, max_fills, acc, bid)
    PROVE  BidMeet(n0, ask, acc, bid, r)
<1>1. PICK v : v = ask.trader OBVIOUS
<1>2. v \in SubVaults BY <1>1 DEF AskOrder
<1>3. PICK i : i = sub_vault_idle(acc.vault[v]) OBVIOUS
<1>4. /\ i \in Nat /\ acc.vault[v] \in [idle : Nat, sunset : BOOLEAN, policy : Policies]
      /\ acc.vault[v].policy.max_ltv \in 0..BPS_PER_UNIT
  BY <1>2, <1>3, IdleOf
<1>5. PICK P, C, n : P = bid.principal /\ C = bid.collateral /\ n = acc.fills OBVIOUS
<1>6. /\ P \in Nat \ {0} /\ C \in Nat /\ n \in Nat /\ bid.buffer \in Nat
      /\ bid.rate \in Nat /\ bid.term \in Nat /\ bid.trader \in Borrowers
  BY <1>5 DEF BidOrder, Accs
<1>7. PICK fill : fill = MinOf(P, i) OBVIOUS
<1>8. fill \in 0..P /\ fill \in Nat /\ fill <= i /\ (fill = P \/ fill = i)
  BY <1>4, <1>6, <1>7 DEF MinOf
<1>9. PICK c : c = MatchedCollateral(fill, P, C, C, P) OBVIOUS
<1>10. c \in Nat /\ fill * C < (c + 1) * P BY <1>6, <1>8, <1>9, ShareBounds
<1>11. c <= C
  <2>1. C * P <= C * P /\ fill <= P BY <1>6, <1>8
  <2> QED BY <1>6, <1>8, <1>9, <2>1, CollateralSplit
<1>12. PICK cap : cap = effective_origination_cap_bps(acc.vault[v].policy.max_ltv, bid.buffer)
  OBVIOUS
<1>13. cap \in 0..BPS_PER_UNIT BY <1>4, <1>6, <1>12, CapTyped
<1>14. Drained(acc, acc, v) BY <1>2, DrainedSame
<1>15. acc.fills <= acc.fills + 1 BY <1>5, <1>6
<1>16. CASE r = acc /\ BidSkipped(ask, max_fills, acc, bid)
  <2>1. BidMet(ask, acc, bid)
    <3>1. CASE ~MeetsCap(fill, c, cap)
      <4>1. Short(P, C, fill, cap) BY <1>6, <1>8, <1>10, <1>13, <3>1, RefusedShort
      <4>2. Refused(P, C, P, C, i, n, cap) BY <1>7, <1>9, <3>1, <4>1, Zenon DEF Refused
      <4> QED BY <1>1, <1>3, <1>5, <1>12, <4>2, Zenon DEF BidMet
    <3>2. CASE MeetsCap(fill, c, cap)
      <4>1. ~(acc.fills >= max_fills) BY <1>5, <1>6
      <4>2. acc.stop \/ bid.trader = Curator[ask.trader] \/ ~(bid.term <= ask.term)
        BY <1>1, <1>3, <1>5, <1>7, <1>9, <1>12, <1>16, <3>2, <4>1, Zenon DEF BidSkipped
      <4> QED BY <4>2, Zenon DEF BidMet
    <3> QED BY <3>1, <3>2
  <2> QED BY <1>1, <1>14, <1>15, <1>16, <2>1 DEF BidMeet
<1>17. CASE /\ r = [acc EXCEPT !.stop = TRUE]
            /\ \/ bid.rate < ask.rate
               \/ MinOf(bid.principal, sub_vault_idle(acc.vault[ask.trader])) = 0
  <2>1. r.market = acc.market /\ r.vault = acc.vault /\ r.fills = acc.fills
    BY <1>17 DEF Accs
  <2>2. Drained(acc, r, v) BY <1>2, <2>1, DrainedSame
  <2>3. bid.rate < ask.rate \/ sub_vault_idle(r.vault[ask.trader]) = 0
    <3>1. MinOf(P, i) = 0 => i = 0 BY <1>4, <1>6 DEF MinOf
    <3> QED BY <1>1, <1>3, <1>5, <1>17, <2>1, <3>1
  <2>4. BidMet(ask, r, bid) BY <2>3 DEF BidMet
  <2> QED BY <1>1, <1>15, <2>1, <2>2, <2>3, <2>4 DEF BidMeet
<1>18. CASE r = PruneBid(acc, bid)
  <2>1. PICK m \in Markets : m = acc.market BY DEF Accs
  <2>2. PICK m2 : m2 = Released(m, bid) OBVIOUS
  <2>3. m2.loan_seq = m.loan_seq /\ m2.bids = m.bids \ {bid} BY <2>2, ReleaseShape
  <2>4. r.market = m2 /\ r.vault = acc.vault /\ r.fills = acc.fills /\ r.stop = acc.stop
    BY <1>18, <2>1, <2>2 DEF PruneBid, Accs
  <2>5. Drained(acc, r, v) BY <1>2, <2>4, DrainedSame
  <2> QED BY <1>1, <1>15, <2>1, <2>3, <2>4, <2>5 DEF BidMeet
<1>19. ASSUME NEW f, NEW d, NEW q, Taken(acc, ask, bid, f, d, q, r)
       PROVE  BidMeet(n0, ask, acc, bid, r)
  <2>1. /\ f = fill /\ d = c /\ fill # 0
        /\ q = Fill(acc, ask, fill, Taker(bid.trader, c, bid, bid.snapshot, 0))
        /\ r = [q EXCEPT !.market = ConsumeBid(q.market, bid, fill, c)]
    BY <1>1, <1>3, <1>5, <1>7, <1>9, <1>19, Zenon DEF Taken, BidFilled
  <2>2. PICK taker : taker = Taker(bid.trader, c, bid, bid.snapshot, 0) OBVIOUS
  <2>3. taker \in Takers
    <3>1. bid.snapshot \in Nat BY DEF BidOrder
    <3> QED BY <1>6, <1>10, <2>2, <3>1 DEF Taker, Takers
  <2>4. fill <= acc.vault[ask.trader].idle
    <3>1. i <= acc.vault[v].idle BY <1>3, <1>4, IdleTyped
    <3>2. acc.vault[v].idle \in Nat BY <1>4
    <3> QED BY <1>1, <1>4, <1>8, <3>1, <3>2
  <2>5. q = Fill(acc, ask, fill, taker) BY <2>1, <2>2
  <2>6. /\ q \in Accs /\ q.market.bids = acc.market.bids /\ q.stop = acc.stop
        /\ q.fills = n + 1 /\ q.market.loan_seq = acc.market.loan_seq + 1
        /\ q.vault = [acc.vault EXCEPT ![ask.trader].idle = @ - fill]
    BY <1>5, <1>8, <2>3, <2>4, <2>5, FillShape
  <2>7. PICK mq \in Markets : mq = q.market BY <2>6 DEF Accs
  <2>8. PICK m2 : m2 = ConsumeBid(mq, bid, fill, c) OBVIOUS
  <2>9. Consumed(mq, m2, bid, fill, c)
    <3>1. fill <= bid.principal /\ c <= bid.collateral BY <1>5, <1>8, <1>11
    <3> QED BY <1>8, <1>10, <2>8, <3>1, ConsumeShape
  <2>10. r = [q EXCEPT !.market = m2] BY <2>1, <2>7, <2>8
  <2>11. r.market = m2 /\ r.vault = q.vault /\ r.fills = n + 1 /\ r.stop = acc.stop
    BY <2>6, <2>10 DEF Accs
  <2>12. r.vault[v].idle = acc.vault[v].idle - fill /\ r.vault[v].sunset = acc.vault[v].sunset
         /\ r.vault[v].policy = acc.vault[v].policy
    BY <1>1, <1>2, <2>6, <2>11 DEF Accs, Lenders
  <2>13. sub_vault_idle(r.vault[v]) = i - fill
    <3>1. acc.vault[v].idle \in Nat BY <1>4
    <3> QED BY <1>3, <1>8, <2>1, <2>12, <3>1
            DEF sub_vault_idle, SatSub, MARGINFI_ROUNDING_RESERVE_ATOMS
  <2>14. Drained(acc, r, v)
    <3>1. i - fill <= i /\ n + 1 # 0 BY <1>4, <1>6, <1>8
    <3> QED BY <1>3, <2>11, <2>12, <2>13, <3>1 DEF Drained
  <2>15. r.market.loan_seq = n0 + r.fills
    BY <1>5, <1>6, <2>6, <2>7, <2>9, <2>11 DEF Consumed
  <2>16. \A o \in r.market.bids : o \in acc.market.bids \ {bid} \/ BidMet(ask, r, o)
    <3>1. CASE fill = P BY <1>5, <2>6, <2>7, <2>9, <2>11, <3>1 DEF Consumed
    <3>2. CASE fill # P
      <4>1. sub_vault_idle(r.vault[ask.trader]) = 0 BY <1>1, <1>4, <1>8, <2>13, <3>2
      <4> QED BY <4>1 DEF BidMet
    <3> QED BY <3>1, <3>2
  <2>17. r.stop => bid.rate < ask.rate \/ sub_vault_idle(r.vault[ask.trader]) = 0
    <3>1. i = 0 => i - fill = 0 BY <1>4, <1>8
    <3> QED BY <1>1, <1>3, <2>11, <2>13, <3>1
  <2>18. r.fills <= acc.fills + 1 BY <1>5, <1>6, <2>11
  <2> QED BY <1>1, <2>14, <2>15, <2>16, <2>17, <2>18 DEF BidMeet
<1>20. BidResult(ask, max_fills, acc, bid, r) BY BidCases
<1> QED BY <1>16, <1>17, <1>18, <1>19, <1>20, Zenon DEF BidResult

\* The fills of a walk that has met every bid left.
BidsMet(n0, ask, r) ==
    r.market.loan_seq = n0 + r.fills /\ \A bid \in r.market.bids : BidMet(ask, r, bid)

\* take_resting_bids with a fill for every bid has met every bid that is left when it
\* ends.
LEMMA TakeMeets ==
    ASSUME NEW mode, NEW A, NEW ask \in AskOrder, NEW acc \in Accs, NEW n0 \in Nat, NEW r,
           world \in Worlds, ask.rate >= world.apr, Resting(acc, A, mode),
           acc.fills = 0, acc.market.loan_seq = n0,
           r = take_resting_bids(ask, Cardinality(acc.market.bids), acc)
    PROVE  BidsMet(n0, ask, r)
<1>1. PICK m \in Markets : m = acc.market BY DEF Accs
<1>2. Book(m, loans, NIL, 0, mode) BY <1>1 DEF Resting
<1>3. PICK n \in Nat : n = Cardinality(m.bids) BY <1>2, BookSets
<1>4. PICK m1 : m1 = expand_market_to_free_blocks(m, n) OBVIOUS
<1>5. m1 \in Markets /\ m1.bids = m.bids /\ m1.loan_seq = m.loan_seq
  BY <1>4, GrowShape
<1>6. Book(m1, loans, NIL, 0, mode) BY <1>2, <1>4, GrowKeepsBook
<1>7. PICK a1 : a1 = [acc EXCEPT !.market = m1] OBVIOUS
<1>8. a1 \in Accs /\ a1.market = m1 /\ a1.vault = acc.vault /\ a1.fills = acc.fills
  BY <1>5, <1>7 DEF Accs
<1>9. r = match_resting_bids(ask, n, a1)
  BY <1>1, <1>3, <1>4, <1>7, Zenon DEF take_resting_bids
<1>10. PICK S : S = m1.bids OBVIOUS
<1>11. BidSet(S) BY <1>6, <1>10, BookSets
<1>12. Ranked(S) BY <1>6, <1>10, <1>11 DEF Ranked, BidSet, BidOrder, Book, OrdersOK
<1>13. PICK it : IsBidWalk(it, S, ask, n, a1)
  <2>1. Ranked(a1.market.bids) /\ BidSet(a1.market.bids) BY <1>8, <1>10, <1>11, <1>12
  <2> QED BY <1>8, <1>10, <2>1, BidWalk
<1>14. it \in [SUBSET S -> Accs] /\ r = it[S] /\ it[{}] = [a1 EXCEPT !.stop = FALSE]
  BY <1>9, <1>13 DEF IsBidWalk
<1>15. IsFiniteSet(S) /\ S \subseteq BidOrder BY <1>11 DEF BidSet
<1>16. \A s \in SUBSET S : IsFiniteSet(s) /\ Cardinality(s) \in Nat
           /\ Cardinality(s) <= Cardinality(S)
  BY <1>15, FS_Subset, FS_CardinalityType
<1>17. Cardinality(S) = n BY <1>3, <1>5, <1>10, Zenon
<1> DEFINE T == {s \in SUBSET S :
                    /\ it[s].market.loan_seq = n0 + it[s].fills
                    /\ it[s].fills <= Cardinality(s)
                    /\ \A o \in it[s].market.bids : o \in S \ s \/ BidMet(ask, it[s], o)
                    /\ it[s].stop => \/ sub_vault_idle(it[s].vault[ask.trader]) = 0
                                     \/ \E o \in s : o.rate < ask.rate}
<1>18. {} \in T
  <2>1. Cardinality({}) = 0 BY FS_EmptySet
  <2>2. PICK a2 : a2 = it[{}] OBVIOUS
  <2>3. a2.market = m1 /\ a2.fills = 0 /\ ~a2.stop BY <1>8, <1>14, <2>2 DEF Accs
  <2>4. a2.market.loan_seq = n0 + a2.fills BY <1>1, <1>5, <2>3
  <2> QED BY <1>10, <2>1, <2>2, <2>3, <2>4
<1>19. ASSUME NEW s \in SUBSET S, s # {} PROVE \E x \in s : (s \ {x} \in T => s \in T)
  <2>1. PICK bid \in s : /\ IsLast(bid, s, TRUE)
                         /\ it[s] = match_bid(ask, n, it[s \ {bid}], bid)
    BY <1>13, <1>19 DEF IsBidWalk
  <2> SUFFICES ASSUME s \ {bid} \in T PROVE s \in T BY <2>1
  <2>2. PICK a, a2 : a = it[s \ {bid}] /\ a2 = it[s] OBVIOUS
  <2>3. a \in Accs /\ a2 \in Accs BY <1>14, <2>2
  <2>4. /\ a.market.loan_seq = n0 + a.fills /\ a.fills <= Cardinality(s \ {bid})
        /\ \A o \in a.market.bids : o \in S \ (s \ {bid}) \/ BidMet(ask, a, o)
        /\ a.stop => \/ sub_vault_idle(a.vault[ask.trader]) = 0
                     \/ \E o \in s \ {bid} : o.rate < ask.rate
    BY <2>2
  <2>5. Cardinality(s) = Cardinality(s \ {bid}) + 1 /\ Cardinality(s \ {bid}) \in Nat
    BY <1>16, <2>1, CardRemove
  <2>6. a.fills \in Nat /\ a2.fills \in Nat BY <2>3 DEF Accs
  <2>7. a.fills < n BY <1>16, <1>17, <2>4, <2>5, <2>6
  <2>8. bid \in BidOrder /\ bid.snapshot > 0 BY <1>11, <2>1 DEF BidSet
  <2>9. a.stop => bid.rate < ask.rate \/ sub_vault_idle(a.vault[ask.trader]) = 0
    <3> SUFFICES ASSUME NEW o \in s \ {bid}, o.rate < ask.rate PROVE bid.rate < ask.rate
      BY <2>4
    <3>1. Better(o, bid, TRUE) BY <2>1 DEF IsLast
    <3>2. bid.rate <= o.rate /\ o.rate \in Nat /\ bid.rate \in Nat
      BY <1>15, <2>8, <3>1 DEF Better, BidOrder
    <3>3. ask.rate \in Nat BY DEF AskOrder
    <3> QED BY <3>2, <3>3
  <2>10. a2 = match_bid(ask, n, a, bid) BY <2>1, <2>2, Zenon
  <2>11. BidMeet(n0, ask, a, bid, a2)
    BY <2>3, <2>4, <2>7, <2>8, <2>9, <2>10, BidMeets
  <2>12. a2.market.loan_seq = n0 + a2.fills /\ a2.fills <= Cardinality(s)
    <3>1. a2.fills <= a.fills + 1 BY <2>11 DEF BidMeet
    <3>2. a2.fills <= Cardinality(s) BY <2>4, <2>5, <2>6, <3>1
    <3> QED BY <2>11, <3>2 DEF BidMeet
  <2>13. ASSUME NEW o \in a2.market.bids PROVE o \in S \ s \/ BidMet(ask, a2, o)
    <3>1. CASE BidMet(ask, a2, o) BY <3>1
    <3>2. CASE o \in a.market.bids \ {bid}
      <4>1. CASE o \in S \ (s \ {bid}) BY <3>2, <4>1
      <4>2. CASE BidMet(ask, a, o)
        <5>1. o \in BidOrder BY <2>3 DEF Accs, Markets
        <5>2. Drained(a, a2, ask.trader) BY <2>11 DEF BidMeet
        <5> QED BY <2>3, <4>2, <5>1, <5>2, BidMetStays
      <4> QED BY <2>4, <3>2, <4>1, <4>2
    <3> QED BY <2>11, <3>1, <3>2 DEF BidMeet
  <2>14. a2.stop => \/ sub_vault_idle(a2.vault[ask.trader]) = 0
                    \/ \E o \in s : o.rate < ask.rate
    BY <2>1, <2>11 DEF BidMeet
  <2> QED BY <2>2, <2>12, <2>13, <2>14
<1>20. S \in T
  <2> HIDE DEF T
  <2>1. \A s \in SUBSET S : s \in T BY <1>15, <1>18, <1>19, SubsetInduction, Zenon
  <2> QED BY <2>1
<1> QED BY <1>14, <1>20 DEF BidsMet

-----------------------------------------------------------------------------
(* What a taking instruction leaves uncrossed *)

\* The gates between an ask and a bid that is not expired, for the sub-vaults u.
CrossedIn(u, ask, bid, slack) ==
    LET fill == MinOf(bid.principal, sub_vault_idle(u[ask.trader]))
    IN  /\ ask.rate >= world.apr /\ ask.rate <= bid.rate /\ bid.term <= ask.term
        /\ bid.trader # Curator[ask.trader] /\ fill > 0
        /\ MeetsCap(fill, MatchedCollateral(fill, bid.principal, bid.collateral,
                                            bid.collateral, bid.principal) - slack,
                    effective_origination_cap_bps(u[ask.trader].policy.max_ltv, bid.buffer))

Slack(n) == IF n = 0 THEN 0 ELSE n + 2

\* A refused fill leaves no cross.
LEMMA RefusedUncrossed ==
    ASSUME world \in Worlds, NEW cap \in 0..BPS_PER_UNIT, NEW P \in Nat \ {0}, NEW C \in Nat,
           NEW p \in Nat \ {0}, NEW k \in Nat, NEW idle \in Nat, NEW n \in Nat, NEW y,
           y = MinOf(p, idle), y > 0,
           Refused(P, C, p, k, idle, n, cap), n = 0 => p = P /\ k = C,
           k * P <= p * C + n * P
    PROVE  ~MeetsCap(y, MatchedCollateral(y, p, k, k, p) - Slack(n), cap)
<1>1. y \in Nat /\ y \in 0..p /\ y \in 1..y /\ y <= p BY DEF MinOf
<1>2. cap \in Nat BY ScaleAssumption
<1>3. PICK c : c = MatchedCollateral(y, p, k, k, p) OBVIOUS
<1>4. c \in Nat BY <1>1, <1>3, ShareBounds
<1>5. CASE n = 0
  <2>1. ~MeetsCap(y, MatchedCollateral(y, p, k, C, P), cap) BY <1>5, Zenon DEF Refused
  <2>2. ~MeetsCap(y, c, cap) BY <1>3, <1>5, <2>1
  <2>3. c - Slack(n) = c BY <1>4, <1>5 DEF Slack
  <2> QED BY <1>3, <2>2, <2>3, Zenon
<1>6. CASE n # 0
  <2>1. Short(P, C, y, cap) BY Zenon DEF Refused
  <2>2. PICK s : s = Slack(n) OBVIOUS
  <2>3. s \in Nat /\ s >= n + 2 BY <1>6, <2>2 DEF Slack
  <2>4. ~MeetsCap(y, MatchedCollateral(y, p, k, k, p) - s, cap)
    BY <1>1, <1>2, <2>1, <2>3, ShortUncrossed
  <2> QED BY <2>2, <2>4, Zenon
<1> QED BY <1>5, <1>6

\* A bid that comes to rest crosses no ask that its walk has met.
LEMMA MetAskUncrossed ==
    ASSUME NEW b \in Borrowers, NEW bid \in BidParams, NEW a \in Accs, NEW ask \in AskOrder,
           NEW n0 \in Nat, NEW o, world \in Worlds, bid.principal > 0, a.principal > 0,
           Left(bid, n0, a), AskMet(b, bid, a, ask),
           ask.term <= a.vault[ask.trader].policy.max_term,
           o.trader = b, o.rate = bid.rate, o.term = bid.term, o.buffer = bid.buffer,
           o.principal = a.principal, o.collateral = a.collateral
    PROVE  ~CrossedIn(a.vault, ask, o, Slack(a.fills))
<1> SUFFICES ASSUME CrossedIn(a.vault, ask, o, Slack(a.fills)) PROVE FALSE OBVIOUS
<1>1. PICK v : v = ask.trader OBVIOUS
<1>2. v \in SubVaults BY <1>1 DEF AskOrder
<1>3. PICK i : i = sub_vault_idle(a.vault[v]) OBVIOUS
<1>4. PICK cap : cap = effective_origination_cap_bps(a.vault[v].policy.max_ltv, bid.buffer)
  OBVIOUS
<1>5. i \in Nat /\ cap \in 0..BPS_PER_UNIT
  BY <1>2, <1>3, <1>4, IdleOf, CapTyped DEF BidParams
<1>6. PICK P, C, p, k, n : /\ P = bid.principal /\ C = bid.collateral /\ p = a.principal
                           /\ k = a.collateral /\ n = a.fills
  OBVIOUS
<1>7. P \in Nat \ {0} /\ C \in Nat /\ p \in Nat \ {0} /\ k \in Nat /\ n \in Nat
  BY <1>6 DEF Accs, BidParams
<1>8. PICK y : y = MinOf(p, i) OBVIOUS
<1>9. /\ ask.rate >= world.apr /\ ask.rate <= bid.rate /\ bid.term <= ask.term
      /\ b # Curator[v] /\ y > 0
      /\ MeetsCap(y, MatchedCollateral(y, p, k, k, p) - Slack(n), cap)
  BY <1>1, <1>3, <1>4, <1>6, <1>8, Zenon DEF CrossedIn
<1>10. ask.rate \in Nat /\ bid.rate \in Nat /\ world.apr \in Nat
  BY BookAssumption DEF AskOrder, BidParams
<1>11. i # 0 /\ ~(ask.rate < world.apr) /\ ~(bid.rate < ask.rate)
  BY <1>5, <1>7, <1>8, <1>9, <1>10 DEF MinOf
<1>12. Refused(P, C, p, k, i, n, cap)
  <2>1. p # 0 BY <1>7
  <2> QED BY <1>1, <1>3, <1>4, <1>6, <1>9, <1>11, <2>1, Zenon DEF AskMet
<1>13. k * P <= p * C + n * P /\ (n = 0 => p = P /\ k = C) BY <1>6 DEF Left
<1>14. ~MeetsCap(y, MatchedCollateral(y, p, k, k, p) - Slack(n), cap)
  BY <1>5, <1>7, <1>8, <1>9, <1>12, <1>13, RefusedUncrossed
<1> QED BY <1>9, <1>14

\* An ask crosses no bid that it has met.
LEMMA MetBidUncrossed ==
    ASSUME NEW a \in Accs, NEW ask \in AskOrder, NEW bid \in BidOrder, world \in Worlds,
           BidMet(ask, a, bid)
    PROVE  ~CrossedIn(a.vault, ask, bid, Slack(a.fills))
<1> SUFFICES ASSUME CrossedIn(a.vault, ask, bid, Slack(a.fills)) PROVE FALSE OBVIOUS
<1>1. PICK v : v = ask.trader OBVIOUS
<1>2. v \in SubVaults BY <1>1 DEF AskOrder
<1>3. PICK i : i = sub_vault_idle(a.vault[v]) OBVIOUS
<1>4. PICK cap : cap = effective_origination_cap_bps(a.vault[v].policy.max_ltv, bid.buffer)
  OBVIOUS
<1>5. i \in Nat /\ cap \in 0..BPS_PER_UNIT
  BY <1>2, <1>3, <1>4, IdleOf, CapTyped DEF BidOrder
<1>6. PICK p, k, n : p = bid.principal /\ k = bid.collateral /\ n = a.fills OBVIOUS
<1>7. p \in Nat \ {0} /\ k \in Nat /\ n \in Nat BY <1>6 DEF Accs, BidOrder
<1>8. PICK y : y = MinOf(p, i) OBVIOUS
<1>9. /\ ask.rate <= bid.rate /\ bid.term <= ask.term /\ bid.trader # Curator[v] /\ y > 0
      /\ MeetsCap(y, MatchedCollateral(y, p, k, k, p) - Slack(n), cap)
  BY <1>1, <1>3, <1>4, <1>6, <1>8, Zenon DEF CrossedIn
<1>10. ask.rate \in Nat /\ bid.rate \in Nat BY DEF AskOrder, BidOrder
<1>11. i # 0 /\ ~(bid.rate < ask.rate) BY <1>5, <1>7, <1>8, <1>9, <1>10 DEF MinOf
<1>12. Refused(p, k, p, k, i, n, cap)
  BY <1>1, <1>3, <1>4, <1>6, <1>9, <1>11, Zenon DEF BidMet
<1>13. k * p <= p * k + n * p
  <2>1. n * p \in Nat /\ k * p = p * k /\ p * k \in Nat BY <1>7
  <2> QED BY <2>1
<1>14. ~MeetsCap(y, MatchedCollateral(y, p, k, k, p) - Slack(n), cap)
  BY <1>5, <1>7, <1>8, <1>9, <1>12, <1>13, RefusedUncrossed
<1> QED BY <1>9, <1>14

\* The walk of a placement has met every ask of the market when it ends.
LEMMA PlacedMeets ==
    ASSUME NEW mode, Inv(mode), NEW b \in Borrowers, NEW bid \in BidParams, NEW a,
           MayPlace(b, bid), a = match_borrower_bid(b, bid, TRUE)
    PROVE  Left(bid, market.loan_seq, a) /\ \A ask \in market.asks : AskMet(b, bid, a, ask)
<1>0. /\ market \in Markets /\ Book(market, loans, NIL, 0, mode) /\ world \in Worlds
      /\ vault \in Lenders
  BY DEF Inv, Book
<1>1. PICK v : v = world.asv OBVIOUS
<1>2. v \in Nat \ {0} /\ v <= world.asv BY <1>0, <1>1, BookAssumption
<1>3. /\ bid.collateral \in Nat /\ bid.principal \in Nat /\ bid.principal > 0
  BY DEF BidParams, MayPlace
<1>4. PICK n \in Nat : n = amount_to_asset_shares(bid.collateral, v) BY <1>2, <1>3, SharesTyped
<1>5. PICK N \in Nat : N = Cardinality(market.asks) + 1
  <2>1. Cardinality(market.asks) \in Nat BY <1>0, BookSets, Zenon
  <2> QED BY <2>1
<1>6. PICK g : g = expand_market_to_free_blocks(market, N) OBVIOUS
<1>7. /\ g \in Markets /\ g.asks = market.asks /\ g.seats = market.seats
      /\ g.loan_seq = market.loan_seq
  BY <1>0, <1>6, GrowShape
<1>8. PICK seats : seats = encumber_for_order(g.seats, b, n) OBVIOUS
<1>9. seats \in [Traders -> Seat]
  <2>1. g.seats \in [Traders -> Seat] BY <1>7 DEF Markets
  <2>2. n <= g.seats[b].withdrawable BY <1>1, <1>4, <1>7 DEF MayPlace
  <2> QED BY <1>8, <2>1, <2>2, EncumberShape
<1>10. PICK q \in Nat : q = g.order_seq + 1 BY <1>7 DEF Markets
<1>11. PICK p : p = [g EXCEPT !.seats = seats, !.order_seq = q] OBVIOUS
<1>12. p \in Markets /\ p.asks = market.asks /\ p.loan_seq = market.loan_seq
  BY <1>7, <1>9, <1>11 DEF Markets
<1>13. PICK w : w = Walking(p, bid.principal, bid.collateral) OBVIOUS
<1>14. /\ w \in Accs /\ w.market = p /\ w.principal = bid.principal
       /\ w.collateral = bid.collateral /\ w.fills = 0 /\ w.stop = FALSE
  BY <1>0, <1>3, <1>12, <1>13 DEF Walking, Accs
<1>15. a = WalkAsks(b, bid, v, w)
  BY <1>1, <1>4, <1>5, <1>6, <1>7, <1>8, <1>10, <1>11, <1>13
     DEF match_borrower_bid, WalkAsks
<1>16. PICK n0 \in Nat : n0 = market.loan_seq BY <1>0 DEF Markets
<1>17. Left(bid, n0, w)
  <2>1. bid.collateral * bid.principal = bid.principal * bid.collateral
        /\ bid.principal * bid.collateral \in Nat /\ 0 * bid.principal = 0
    BY <1>3
  <2> QED BY <1>12, <1>14, <1>16, <2>1 DEF Left
<1>18. Ranked(w.market.asks)
  BY <1>0, <1>12, <1>14 DEF Ranked, AskOrder, Markets, Book, OrdersOK
<1>19. Left(bid, n0, a) /\ \A ask \in w.market.asks : AskMet(b, bid, a, ask)
  BY <1>0, <1>2, <1>3, <1>14, <1>15, <1>17, <1>18, MatchOrderMeets
<1> QED BY <1>12, <1>14, <1>16, <1>19

\* The bid that a placement leaves is what its walk had left.
LEMMA RestedBid ==
    ASSUME NEW b \in Borrowers, NEW bid \in BidParams, NEW snapshot \in Nat, NEW seq \in Nat,
           NEW a \in Accs, NEW r, a.principal > 0, bid.mode = "REST",
           r = SettleResidual(a, b, bid, snapshot, seq)
    PROVE  /\ RestingBid(a, b, bid, snapshot, seq) \in r.market.bids
           /\ r.vault = a.vault /\ r.market.loan_seq = a.market.loan_seq
<1>1. PICK rest : rest = RestingBid(a, b, bid, snapshot, seq) OBVIOUS
<1>2. rest \in BidOrder BY <1>1 DEF RestingBid, BidOrder, Accs, BidParams
<1>3. PICK m \in Markets : m = a.market BY DEF Accs
<1>4. PICK B : B = m.bids \cup {rest} OBVIOUS
<1>5. B \in SUBSET BidOrder BY <1>2, <1>4 DEF Markets
<1>6. PICK m1 : m1 = [m EXCEPT !.bids = B] OBVIOUS
<1>7. m1 \in Markets /\ m1.bids = B /\ m1.loan_seq = m.loan_seq BY <1>5, <1>6 DEF Markets
<1>8. PICK base : base = [a EXCEPT !.market = m1] OBVIOUS
<1>9. base \in Accs /\ base.market = m1 /\ base.vault = a.vault BY <1>7, <1>8 DEF Accs
<1>10. r = get_free_address(base)
  <2>1. [a EXCEPT !.market.bids = @ \cup {rest}] = base
    BY <1>3, <1>4, <1>6, <1>8 DEF Accs
  <2>2. a.principal \in Nat BY DEF Accs
  <2>3. r = get_free_address([a EXCEPT !.market.bids = @ \cup {rest}])
    BY <1>1, <2>2 DEF SettleResidual
  <2> QED BY <2>1, <2>3, Zenon
<1>11. /\ r.market.bids = base.market.bids /\ r.market.loan_seq = base.market.loan_seq
       /\ r.vault = base.vault
  BY <1>9, <1>10, FreeShape
<1> QED BY <1>1, <1>3, <1>4, <1>7, <1>9, <1>11

-----------------------------------------------------------------------------
(* No step walks past a cross *)

Uncrossed == (NewBidRestsUncrossed \/ ~PlacesBid(TRUE)) /\ NewAskRestsUncrossed

\* A pair that is crossed after a step passes the gates for the sub-vaults it left.
LEMMA CrossedAfter ==
    ASSUME NEW ask, NEW bid, NEW s, NEW u, world' = world, vault' = u, Crossed(ask, bid, s)'
    PROVE  CrossedIn(u, ask, bid, s)
  BY DEF Crossed, CrossedIn, MeetsCap

\* A step that brings no ask leaves no new one crossed.
LEMMA NoNewAsk ==
    ASSUME market'.asks \subseteq market.asks
    PROVE  NewAskRestsUncrossed
  BY DEF NewAskRestsUncrossed

\* The atoms a step may leave to rounding, from the fills that its walk counted.
LEMMA RoundingIs ==
    ASSUME NEW n0 \in Nat, NEW n \in Nat, market.loan_seq = n0, market'.loan_seq = n0 + n
    PROVE  Rounding = Slack(n)
  BY DEF Rounding, FillsMade, Slack

\* place_order with the vault account: a bid that rests crosses no ask of the book.
LEMMA PlaceOrderUncrossed ==
    ASSUME NEW mode, Inv(mode), NEW b \in Borrowers, NEW bid \in Bids[b],
           PlaceOrder(b, bid, TRUE)
    PROVE  NewBidRestsUncrossed
<1>1. /\ market \in Markets /\ Book(market, loans, NIL, 0, mode) /\ world \in Worlds
      /\ vault \in Lenders
  BY DEF Inv, Book
<1>2. bid \in BidParams BY BookAssumption DEF BidParams
<1>3. PICK a : a = match_borrower_bid(b, bid, TRUE) OBVIOUS
<1>4. PICK r : r = place_order(b, bid, TRUE) OBVIOUS
<1>5. PICK rested : rested = (a.principal > 0 /\ bid.mode = "REST") OBVIOUS
<1>6. PICK k : k = IF a.principal > 0 /\ bid.mode = "P2POOL_FALLBACK"
                  THEN marginfi_borrow_shares(a.principal) ELSE 0
  OBVIOUS
<1>7. MayPlace(b, bid) /\ bid.principal > 0 BY DEF PlaceOrder, MayPlace
<1>8. /\ a \in Accs /\ r \in Accs /\ Resting(r, Offered(TRUE), mode) /\ r.market.asks = market.asks
      /\ \A o \in r.market.bids :
            \/ rested /\ o.seq = market.order_seq /\ o.trader = b
            \/ \E old \in market.bids : old.seq = o.seq /\ old.trader = o.trader
      /\ market.bids \subseteq r.market.bids
  <2>1. PICK w \in BOOLEAN : w = TRUE OBVIOUS
  <2>2. a = match_borrower_bid(b, bid, w) /\ r = place_order(b, bid, w)
    BY <1>3, <1>4, <2>1, Zenon
  <2>3. /\ a \in Accs /\ r \in Accs /\ Resting(r, Offered(w), mode)
        /\ r.market.asks = market.asks
        /\ \A o \in r.market.bids :
              \/ rested /\ o.seq = market.order_seq /\ o.trader = b
              \/ \E old \in market.bids : old.seq = o.seq /\ old.trader = o.trader
        /\ market.bids \subseteq r.market.bids
    BY <1>1, <1>2, <1>5, <1>6, <1>7, <2>2, PlaceKeeps
  <2> QED BY <2>1, <2>3, Zenon
<1>9. market' = r.market /\ vault' = r.vault /\ world' = world
  BY <1>4 DEF PlaceOrder
<1>10. PICK n0 \in Nat : n0 = market.loan_seq BY <1>1 DEF Markets
<1>11. Left(bid, n0, a) /\ \A ask \in market.asks : AskMet(b, bid, a, ask)
  BY <1>2, <1>3, <1>7, <1>10, PlacedMeets
<1>12. OrdersOK(r.market) BY <1>8 DEF Resting, Book
<1>14. NewBidRestsUncrossed
  <2> SUFFICES ASSUME NEW s \in {Rounding}, NEW o \in market'.bids \ market.bids,
                      NEW ask \in market'.asks, TermCurrent(ask)', Crossed(ask, o, s)'
               PROVE  FALSE
    BY DEF NewBidRestsUncrossed
  <2>1. ~\E old \in market.bids : old.seq = o.seq
    BY <1>8, <1>9, <1>12 DEF OrdersOK
  <2>2. rested /\ o.seq = market.order_seq /\ o \in r.market.bids BY <1>8, <1>9, <2>1
  <2>3. PICK q \in Nat : q = market.order_seq BY <1>1 DEF Markets
  <2>4. PICK v \in Nat : v = world.asv BY <1>1, BookAssumption
  <2>5. PICK rest : rest = RestingBid(a, b, bid, v, q) OBVIOUS
  <2>6. a.principal > 0 /\ bid.mode = "REST" BY <1>5, <2>2
  <2>7. r = SettleResidual(a, b, bid, v, q) BY <1>3, <1>4, <2>3, <2>4, Zenon DEF place_order
  <2>8. rest \in r.market.bids /\ r.vault = a.vault /\ r.market.loan_seq = a.market.loan_seq
    BY <1>2, <1>8, <2>5, <2>6, <2>7, RestedBid
  <2>9. /\ rest.trader = b /\ rest.seq = q /\ rest.rate = bid.rate /\ rest.term = bid.term
        /\ rest.buffer = bid.buffer
        /\ rest.principal = a.principal /\ rest.collateral = a.collateral
    BY <2>5 DEF RestingBid
  <2>10. o = rest BY <1>12, <2>2, <2>3, <2>8, <2>9 DEF OrdersOK
  <2>11. a.fills \in Nat /\ r.market.loan_seq = n0 + a.fills
    BY <1>8, <1>11, <2>8 DEF Accs, Left
  <2>12. s = Slack(a.fills) BY <1>9, <1>10, <2>11, RoundingIs
  <2>13. ask \in market.asks /\ ask \in AskOrder BY <1>1, <1>8, <1>9 DEF Markets
  <2>14. ask.term <= a.vault[ask.trader].policy.max_term BY <1>9, <2>8 DEF TermCurrent
  <2>15. ~CrossedIn(a.vault, ask, rest, Slack(a.fills))
    BY <1>1, <1>2, <1>7, <1>8, <1>11, <2>6, <2>9, <2>13, <2>14, MetAskUncrossed
  <2>16. CrossedIn(a.vault, ask, o, s)
    <3>1. PICK u : u = vault' OBVIOUS
    <3>2. CrossedIn(u, ask, o, s) BY <1>9, <3>1, CrossedAfter
    <3> QED BY <1>9, <2>8, <3>1, <3>2, Zenon
  <2> QED BY <2>10, <2>12, <2>15, <2>16, Zenon
<1> QED BY <1>14

\* place_order_for_sub_vault and update_order_for_sub_vault: the ask that rests
\* crosses no bid of the book.
LEMMA RestAndTakeUncrossed ==
    ASSUME NEW mode, Inv(mode), NEW v \in SubVaults, NEW m, Ready(mode, m),
           RestAndTake(v, m), world' = world
    PROVE  NewAskRestsUncrossed
<1>a. /\ Book(m, loans, NIL, 0, mode) /\ m.free >= 1 /\ m.bids = market.bids
      /\ m.loan_seq = market.loan_seq /\ m.asks \subseteq market.asks
  BY DEF Ready
<1>1. world \in Worlds /\ vault \in Lenders /\ m \in Markets BY <1>a DEF Inv, Book
<1>2. PICK rest : rest = rest_vault_ask(m, v) OBVIOUS
<1>3. PICK ask : ask = VaultAsk(v, m.order_seq) OBVIOUS
<1>4. /\ Book(rest, loans, NIL, 0, mode) /\ ask \in AskOrder /\ ask.rate >= world.apr
      /\ rest.bids = m.bids /\ rest.loan_seq = m.loan_seq
  <2>1. AskRested(mode, m, loans, v, rest) BY <1>a, <1>1, <1>2, RestKeepsBook, Zenon
  <2> QED BY <1>3, <2>1, Zenon DEF AskRested
<1>5. rest.asks = m.asks \cup {ask} BY <1>1, <1>2, <1>3 DEF rest_vault_ask, Markets
<1>6. PICK w : w = Walking(rest, 0, 0) OBVIOUS
<1>7. w \in Accs /\ w.market = rest /\ w.vault = vault /\ w.aborted = FALSE /\ w.fills = 0
  <2>1. rest \in Markets BY <1>4 DEF Book
  <2> QED BY <1>1, <1>6, <2>1 DEF Walking, Accs
<1>8. Resting(w, {ask}, mode) BY <1>4, <1>7, Zenon DEF Resting
<1>9. Since(rest, w) BY <1>7 DEF Since, FixedOnly
<1>10. PICK r : r = take_resting_bids(ask, Cardinality(m.bids), w) OBVIOUS
<1>11. r \in Accs /\ Resting(r, {ask}, mode) /\ Since(rest, r)
  <2>1. ask \in {ask} OBVIOUS
  <2> QED BY <1>1, <1>4, <1>7, <1>8, <1>9, <1>10, <2>1, TakeKeeps
<1>12. PICK n0 \in Nat : n0 = market.loan_seq BY DEF Inv, Book, Markets
<1>13. r.market.loan_seq = n0 + r.fills /\ \A bid \in r.market.bids : BidMet(ask, r, bid)
  <2>1. r = take_resting_bids(ask, Cardinality(w.market.bids), w) BY <1>4, <1>7, <1>10
  <2>2. w.market.loan_seq = n0 BY <1>a, <1>4, <1>7, <1>12
  <2>3. BidsMet(n0, ask, r) BY <1>1, <1>4, <1>7, <1>8, <2>1, <2>2, TakeMeets
  <2> QED BY <2>3 DEF BidsMet
<1>14. market' = r.market /\ vault' = r.vault
  BY <1>2, <1>3, <1>6, <1>10, Zenon DEF RestAndTake, rest_and_take
<1>15. market'.asks \ market.asks \subseteq {ask} BY <1>a, <1>5, <1>11, <1>14 DEF Since
<1>17. NewAskRestsUncrossed
  <2> SUFFICES ASSUME NEW s \in {Rounding}, NEW o \in market'.asks \ market.asks,
                      NEW bid \in market'.bids, Crossed(o, bid, s)'
               PROVE  FALSE
    BY DEF NewAskRestsUncrossed
  <2>1. o = ask BY <1>15
  <2>2. r.fills \in Nat BY <1>11 DEF Accs
  <2>3. s = Slack(r.fills) BY <1>12, <1>13, <1>14, <2>2, RoundingIs
  <2>4. bid \in r.market.bids /\ bid \in BidOrder BY <1>11, <1>14 DEF Accs, Markets
  <2>5. ~CrossedIn(r.vault, ask, bid, Slack(r.fills))
    BY <1>1, <1>4, <1>11, <1>13, <2>4, MetBidUncrossed
  <2>6. CrossedIn(r.vault, o, bid, s)
    <3>1. PICK u : u = vault' OBVIOUS
    <3>2. CrossedIn(u, o, bid, s) BY <3>1, CrossedAfter
    <3> QED BY <1>14, <3>1, <3>2, Zenon
  <2> QED BY <2>1, <2>3, <2>5, <2>6, Zenon
<1> QED BY <1>17

\* place_order_for_sub_vault.
LEMMA PlaceAskUncrossed ==
    ASSUME NEW mode, Inv(mode), NEW v \in SubVaults, PlaceOrderForSubVault(v)
    PROVE  NewAskRestsUncrossed
<1>1. Ready(mode, FirstQuote(v)) BY FirstQuoteReady
<1>2. RestAndTake(v, FirstQuote(v)) /\ world' = world BY DEF PlaceOrderForSubVault
<1> QED BY <1>1, <1>2, RestAndTakeUncrossed

\* update_order_for_sub_vault.
LEMMA UpdateAskUncrossed ==
    ASSUME NEW mode, Inv(mode), NEW ask \in market.asks, UpdateOrderForSubVault(ask)
    PROVE  NewAskRestsUncrossed
<1>1. ask.trader \in SubVaults /\ Ready(mode, Requote(ask)) BY RequoteReady
<1>2. RestAndTake(ask.trader, Requote(ask)) /\ world' = world BY DEF UpdateOrderForSubVault
<1> QED BY <1>1, <1>2, RestAndTakeUncrossed

\* Only the instructions of a curator bring an ask.
LEMMA StepBringsNoCrossedAsk ==
    ASSUME NEW mode, Inv(mode), Next
    PROVE  NewAskRestsUncrossed
<1>0. /\ market \in Markets /\ market.bids \subseteq BidOrder /\ world \in Worlds
      /\ vault \in Lenders /\ Book(market, loans, NIL, 0, mode)
  BY DEF Inv, Book, Markets
<1>1. ASSUME NEW b \in Borrowers, ClaimSeat(b) PROVE NewAskRestsUncrossed
  <2>1. market'.asks = market.asks
    BY <1>0, <1>1 DEF ClaimSeat, claim_seat, expand_market_to_free_blocks, Markets
  <2> QED BY <2>1, NoNewAsk
<1>2. ASSUME NEW b \in Borrowers, NEW atoms, Deposit(b, atoms) PROVE NewAskRestsUncrossed
  <2>1. market'.asks = market.asks BY <1>0, <1>2 DEF Deposit, Markets
  <2> QED BY <2>1, NoNewAsk
<1>3. ASSUME NEW b \in Borrowers, NEW n, NEW all, Withdraw(b, n, all)
      PROVE  NewAskRestsUncrossed
  <2>1. market'.asks = market.asks BY <1>0, <1>3 DEF Withdraw, Markets
  <2> QED BY <2>1, NoNewAsk
<1>4. ASSUME NEW b \in Borrowers, NEW bid \in Bids[b], NEW with_vault \in BOOLEAN,
             PlaceOrder(b, bid, with_vault)
      PROVE  NewAskRestsUncrossed
  <2>1. bid \in BidParams /\ MayPlace(b, bid) BY <1>4, BookAssumption DEF BidParams, PlaceOrder
  <2>2. PICK a, r : /\ a = match_borrower_bid(b, bid, with_vault)
                    /\ r = place_order(b, bid, with_vault)
    OBVIOUS
  <2>3. PICK rested, k : /\ rested = (a.principal > 0 /\ bid.mode = "REST")
                         /\ k = IF a.principal > 0 /\ bid.mode = "P2POOL_FALLBACK"
                                THEN marginfi_borrow_shares(a.principal) ELSE 0
    OBVIOUS
  <2>4. r.market.asks = market.asks BY <1>0, <2>1, <2>2, <2>3, PlaceKeeps
  <2>5. market' = r.market BY <1>4, <2>2, Zenon DEF PlaceOrder
  <2> QED BY <2>4, <2>5, NoNewAsk
<1>5. ASSUME NEW bid \in market.bids, CancelOrder(bid) PROVE NewAskRestsUncrossed
  <2>1. market' = Released(market, bid) BY <1>5 DEF CancelOrder
  <2>2. market'.asks = market.asks
    BY <1>0, <2>1 DEF Released, remove_order_from_tree_and_free, release_address, Markets
  <2> QED BY <2>2, NoNewAsk
<1>6. ASSUME NEW bid \in market.bids, NEW new \in Bids[bid.trader], UpdateOrder(bid, new)
      PROVE  NewAskRestsUncrossed
  <2>1. market'.asks = market.asks BY <1>0, <1>6 DEF UpdateOrder, Markets
  <2> QED BY <2>1, NoNewAsk
<1>7. ASSUME NEW v \in SubVaults, PlaceOrderForSubVault(v) PROVE NewAskRestsUncrossed
  BY <1>7, PlaceAskUncrossed
<1>8. ASSUME NEW ask \in market.asks, UpdateOrderForSubVault(ask) PROVE NewAskRestsUncrossed
  BY <1>8, UpdateAskUncrossed
<1>9. ASSUME NEW ask \in market.asks, CancelOrderForSubVault(ask) PROVE NewAskRestsUncrossed
  <2>1. market'.asks = market.asks \ {ask}
    BY <1>0, <1>9 DEF CancelOrderForSubVault, cancel_vault_ask, release_address, Markets
  <2> QED BY <2>1, NoNewAsk
<1>10. ASSUME NEW node \in market.nodes, ProcessMatchedLoan(node) PROVE NewAskRestsUncrossed
  <2>1. market'.asks = market.asks
    BY <1>0, <1>10 DEF ProcessMatchedLoan, release_address, Markets
  <2> QED BY <2>1, NoNewAsk
<1>11. ASSUME NEW k \in Budgets, MatchCrank(k) PROVE NewAskRestsUncrossed
  <2>1. PICK r : r = match_crank(MaxOf(k, 1)) OBVIOUS
  <2>2. r \in Cranks(mode) BY <1>0, <2>1, CrankStarts, CrankKeeps
  <2>3. r.market.asks = market.asks BY <2>2 DEF Cranks, Since
  <2>4. market' = r.market BY <1>11, <2>1, Zenon DEF MatchCrank
  <2> QED BY <2>3, <2>4, NoNewAsk
<1>12. ASSUME NEW l \in loans, Repay(l) PROVE NewAskRestsUncrossed
  <2>1. market'.asks = market.asks BY <1>0, <1>12 DEF Repay, Markets
  <2> QED BY <2>1, NoNewAsk
<1>13. CASE Environment
  <2>1. market' = market BY <1>13, EnvironmentKeeps
  <2> QED BY <2>1, NoNewAsk
<1>14. CASE BookNext
  BY <1>1, <1>2, <1>3, <1>4, <1>5, <1>6, <1>7, <1>8, <1>9, <1>10, <1>14, Zenon
     DEF BookNext, Queued
<1> QED BY <1>11, <1>12, <1>13, <1>14 DEF Next, Crank

\* Every step.
LEMMA StepUncrossed ==
    ASSUME NEW mode, Inv(mode), Next
    PROVE  Uncrossed
<1>1. NewAskRestsUncrossed BY StepBringsNoCrossedAsk
<1>2. ASSUME PlacesBid(TRUE) PROVE NewBidRestsUncrossed
  <2>1. PICK b \in Borrowers : \E bid \in Bids[b] : PlaceOrder(b, bid, TRUE)
    BY <1>2 DEF PlacesBid
  <2>2. PICK bid \in Bids[b] : PlaceOrder(b, bid, TRUE) BY <2>1
  <2> QED BY <2>2, PlaceOrderUncrossed
<1> QED BY <1>1, <1>2 DEF Uncrossed

-----------------------------------------------------------------------------
(* The theorems *)

\* Inv is inductive: it holds at first and every instruction keeps it.
THEOREM InductiveInvariant == Spec => []Inv("Exact")
<1>1. Init => Inv("Exact") BY InitKeeps
<1>2. Inv("Exact") /\ [Next]_vars => Inv("Exact")' BY StepKeeps, StutterKeeps DEF Kept
<1> QED BY <1>1, <1>2, PTL DEF Spec

\* Type correctness: no balance, count, idle amount or free list ever goes below
\* zero, although unencumber_for_order, sub_vault_idle and get_free_address subtract.
THEOREM TypeCorrect == Spec => []TypeOK
<1>1. Inv("Exact") => TypeOK BY Typed
<1> QED BY <1>1, InductiveInvariant, PTL

\* encumber_for_order and unencumber_for_order: what a seat holds encumbered is what
\* its bids and loans give back, and at most one rounded share unit per fill more.
THEOREM CollateralAccounted == Spec => []EncumbranceExact
<1>1. Inv("Exact") => EncumbranceExact
  <2> SUFFICES ASSUME Inv("Exact"), NEW b \in Borrowers
               PROVE  market.seats[b].encumbered
                        \in Promised(b)..(Promised(b) + market.loan_seq)
    BY DEF EncumbranceExact
  <2>1. Book(market, loans, NIL, 0, "Exact") /\ b \in Traders BY DEF Inv, Traders
  <2>2. /\ market.seats[b].encumbered \in Nat
        /\ Due(market, loans, b) \in Nat /\ market.loan_seq \in Nat
        /\ Due(market, loans, b) <= market.seats[b].encumbered
        /\ market.seats[b].encumbered <= Due(market, loans, b) + market.loan_seq
    BY <2>1, SeatTyped
  <2>3. BidSet(market.bids) /\ LoanSet(market.nodes \cup loans) BY <2>1, BookSets, Zenon
  <2>4. Sum(BidsOf(b), [bid \in BidsOf(b) |-> OrderShares(bid)])
          = Sum(By(market.bids, b), BidShares)
    <3>1. PICK S : S = By(market.bids, b) OBVIOUS
    <3>2. BidsOf(b) = S BY <3>1 DEF BidsOf, By
    <3>3. PICK f : f = [bid \in S |-> OrderShares(bid)] OBVIOUS
    <3>4. \A bid \in S : f[bid] = BidShares[bid]
      BY <2>3, <3>1, <3>3 DEF BidShares, BidSet, By
    <3>5. Sum(S, f) = Sum(S, BidShares) BY <3>4, SumSame
    <3> QED BY <3>1, <3>2, <3>3, <3>5, Zenon
  <2>5. Sum(LoansOf(b), [l \in LoansOf(b) |-> LoanShares(l)])
          = Sum(LoansBy(market.nodes \cup loans, b), ShareOf)
    <3>1. PICK S : S = LoansBy(market.nodes \cup loans, b) OBVIOUS
    <3>2. LoansOf(b) = S BY <3>1 DEF LoansOf, LoansBy, OpenLoans, Queued
    <3>3. PICK f : f = [l \in S |-> LoanShares(l)] OBVIOUS
    <3>4. \A l \in S : f[l] = ShareOf[l]
      BY <2>3, <3>1, <3>3 DEF ShareOf, LoanSet, LoansBy
    <3>5. Sum(S, f) = Sum(S, ShareOf) BY <3>4, SumSame
    <3> QED BY <3>1, <3>2, <3>3, <3>5, Zenon
  <2>6. Promised(b) = Due(market, loans, b) BY <2>4, <2>5, Zenon DEF Promised, Due
  <2> QED BY <2>2, <2>6
<1> QED BY <1>1, InductiveInvariant, PTL

\* All seats together never claim more shares than the market's marginfi account
\* holds: deposits credit what they bring, withdrawals burn no more than they take.
THEOREM CollateralBacked == Spec => []SeatsBacked
<1>1. Inv("Exact") => SeatsBacked
  BY DEF Inv, Backed, SeatsBacked, Held, SeatShares
<1> QED BY <1>1, InductiveInvariant, PTL

\* expand_market_to_free_blocks, get_free_address and release_address: every block is
\* free or holds one seat, order or queued loan.
THEOREM NoBlockLost == Spec => []BlocksAccounted
<1>1. Inv("Exact") => BlocksAccounted BY BlocksHold
<1> QED BY <1>1, InductiveInvariant, PTL

\* The blocks that place_order, match_crank and a quoting sub-vault reserve before they
\* walk are enough for any book, and no release inside a walk underflows: when one aborts
\* halfway, an ask that it walks fails require!(ask + floor <= u16::MAX).
THEOREM WalksRunShortOfNothing == Spec => []WalksComplete
<1>1. Inv("Exact") => WalksComplete BY WalksHold
<1> QED BY <1>1, InductiveInvariant, PTL

\* open_borrow_count is the number of the borrower's queued and promoted loans.
THEOREM BorrowsCounted == Spec => []BorrowCountExact
<1>1. Inv("Exact") => BorrowCountExact
  <2> SUFFICES ASSUME Inv("Exact"), NEW b \in Borrowers
               PROVE  market.seats[b].open_borrow = Cardinality(LoansOf(b))
    BY DEF BorrowCountExact
  <2>1. LoansOf(b) = LoansBy(market.nodes \cup loans, b)
    BY DEF LoansOf, LoansBy, OpenLoans, Queued
  <2>2. market.seats[b].open_borrow = Cardinality(LoansBy(market.nodes \cup loans, b))
    BY DEF Inv, Book, CountsOK
  <2> QED BY <2>1, <2>2, Zenon
<1> QED BY <1>1, InductiveInvariant, PTL

\* Every resting bid is listed on its owner's user account under its current
\* sequence, and no two orders share one: insert_user_order and remove_user_order
\* follow place_order, update_order and cancel_order.
THEOREM OrdersListed == Spec => []OrdersAddressable
<1>1. Inv("Exact") => OrdersAddressable
  BY DEF Inv, Listed, Book, OrdersOK, OrdersAddressable
<1> QED BY <1>1, InductiveInvariant, PTL

\* match_order and match_resting_bids never queue a loan outside its lender's policy,
\* however stale the two orders are.
THEOREM TermsHonoured == Spec => FillsHonourTerms
<1>1. Inv("Exact") /\ [Next]_vars => [Honoured]_vars BY StepKeeps DEF Kept
<1>2. Spec => [][Honoured]_vars
  BY <1>1, InductiveInvariant, PTL DEF Spec
<1> QED BY <1>2 DEF Honoured, FillsHonourTerms

\* match_order and match_resting_bids stop, skip and run dry only where no gate lets
\* a pair through: a bid that was placed with the vault account, and an ask that was
\* placed or repriced, crosses nothing on the other side of the book afterwards, whatever
\* the policies, prices and fills before it.  (Without the vault account place_order skips
\* every ask, and nothing of the kind holds.)
THEOREM NoCrossLeft == Spec => NeverWalksPastACross
<1>1. Inv("Exact") /\ [Next]_vars => [Uncrossed]_vars BY StepUncrossed
<1>2. Spec => [][Uncrossed]_vars
  BY <1>1, InductiveInvariant, PTL DEF Spec
<1> QED BY <1>2 DEF Uncrossed, NeverWalksPastACross

=============================================================================
