------------------------ MODULE LoanLifecycleProofs -------------------------
(***************************************************************************)
(* Proofs about LoanLifecycle for every value of its constants: every      *)
(* invariant and action property the runs check on small instances.        *)
(*                                                                         *)
(* The facts about a loan's body and about shares are LoanFixedLemmas;     *)
(* what is left of every step is linear.  The invariants are not inductive *)
(* one by one: closing a loan needs the encumbrance to cover it, which     *)
(* needs collateral to be split superadditively at the snapshot value; the *)
(* seat's backing needs the share value never to fall below the snapshot;  *)
(* accrual needs the terms stamped at the match.  IInv is their            *)
(* conjunction with those facts.                                           *)
(***************************************************************************)
EXTENDS LoanLifecycle, LoanFixedLemmas

-----------------------------------------------------------------------------
(* The inductive invariant *)

LoanInv == /\ TermsOK(loan)
           /\ loan.last_accrued <= now
           /\ Conserved(loan)
           /\ DebtPathIndependent
           /\ FeeSplitRespected
           /\ ClosedIffPaid

CollateralInv == /\ snapshot <= shareValue
                 /\ EncumbranceCoversLoan
                 /\ SeatBackedByAccount

IInv == TypeOK /\ LoanInv /\ CollateralInv

\* Accruing an open loan keeps every fact about its body.
LEMMA AccruedLoan ==
    ASSUME TypeOK, LoanInv, loan.state = "Active"
    PROVE  LET a == accrue_loan(loan, now)
           IN  /\ a \in Loans /\ TermsOK(a) /\ a.state = "Active"
               /\ a.last_accrued = now
               /\ a.outstanding_debt > 0
               /\ a.principal_retired = loan.principal_retired
               /\ Conserved(a)
               /\ OwedSide(a) = net + CumBorrower(a, now)
               /\ a.lender_claimable + a.accumulated_curator_fee
                     <= net + CumLenderGross(a, now)
               /\ a.accumulated_protocol_fee >= CumSpread(a, now)
               /\ CumLenderGross(a, now) \in Nat /\ CumSpread(a, now) \in Nat
               /\ CumBorrower(a, now) \in Nat
<1> DEFINE a == accrue_loan(loan, now)
           s == loan.last_accrued
<1>1. /\ loan \in Loans /\ TermsOK(loan) /\ now \in Nat /\ loan.last_accrued <= now
      /\ net \in Nat
  BY DEF TypeOK, LoanInv
<1>2. loan.outstanding_debt > 0
  BY <1>1, SMT DEF LoanInv, ClosedIffPaid, Loans
<1>3. /\ a \in Loans /\ TermsOK(a) /\ a.state = "Active" /\ a.last_accrued = now
      /\ a.outstanding_debt > 0 /\ a.principal_retired = loan.principal_retired
      /\ a.started_at = loan.started_at
      /\ a.principal_debt = loan.principal_debt
      /\ a.lender_rate = loan.lender_rate
      /\ a.borrower_rate = loan.borrower_rate
  BY <1>1, <1>2, AccrueFacts
<1>4. /\ a.outstanding_debt - loan.outstanding_debt
           = CumBorrower(loan, now) - CumBorrower(loan, s)
      /\ a.lender_claimable + a.accumulated_curator_fee
           - (loan.lender_claimable + loan.accumulated_curator_fee)
           = CumLenderGross(loan, now) - CumLenderGross(loan, s)
      /\ a.accumulated_protocol_fee - loan.accumulated_protocol_fee
           = CumSpread(loan, now) - CumSpread(loan, s)
  BY <1>1, <1>2, AccrueFacts
<1>5. /\ CumLenderGross(a, now) = CumLenderGross(loan, now)
      /\ CumSpread(a, now) = CumSpread(loan, now)
      /\ CumBorrower(a, now) = CumBorrower(loan, now)
  BY <1>3, CumSameTerms
<1>6. /\ CumLenderGross(loan, now) \in Nat /\ CumSpread(loan, now) \in Nat
      /\ CumLenderGross(loan, s) \in Nat /\ CumSpread(loan, s) \in Nat
      /\ CumBorrower(loan, now) = CumLenderGross(loan, now) + CumSpread(loan, now)
      /\ CumBorrower(loan, s) = CumLenderGross(loan, s) + CumSpread(loan, s)
  BY <1>1, CumFacts, SMT DEF CumBorrower, TermsOK, Loans
<1>7. /\ loan.lender_claimable + loan.accumulated_protocol_fee + loan.accumulated_curator_fee
            = loan.outstanding_debt + loan.principal_retired
      /\ loan.outstanding_debt + loan.principal_retired = net + CumBorrower(loan, s)
      /\ loan.lender_claimable + loan.accumulated_curator_fee
            <= net + CumLenderGross(loan, s)
      /\ loan.accumulated_protocol_fee >= CumSpread(loan, s)
  BY DEF LoanInv, Conserved, ClaimSide, OwedSide,
         DebtPathIndependent, FeeSplitRespected
<1> HIDE DEF a, s
<1>8. Conserved(a)
  <2>1. a.outstanding_debt - loan.outstanding_debt
          = (a.lender_claimable + a.accumulated_curator_fee
               - (loan.lender_claimable + loan.accumulated_curator_fee))
            + (a.accumulated_protocol_fee - loan.accumulated_protocol_fee)
    BY <1>4, <1>6, SMT
  <2>2. a.lender_claimable + a.accumulated_protocol_fee + a.accumulated_curator_fee
          = a.outstanding_debt + a.principal_retired
    BY <1>1, <1>3, <1>7, <2>1, SMT DEF Loans
  <2> QED BY <2>2 DEF Conserved, ClaimSide, OwedSide
<1>9. OwedSide(a) = net + CumBorrower(loan, now)
  BY <1>1, <1>3, <1>4, <1>6, <1>7, SMT DEF OwedSide, Loans
<1>10. /\ a.lender_claimable + a.accumulated_curator_fee
            <= net + CumLenderGross(loan, now)
       /\ a.accumulated_protocol_fee >= CumSpread(loan, now)
  BY <1>1, <1>3, <1>4, <1>6, <1>7, SMT DEF Loans
<1>11. CumBorrower(loan, now) \in Nat
  BY <1>6, SMT
<1> QED BY <1>3, <1>5, <1>6, <1>8, <1>9, <1>10, <1>11, Zenon DEF a

\* A payment, whoever makes it, keeps every fact about the body.
LEMMA PaymentKeepsLoan ==
    ASSUME TypeOK, LoanInv, loan.state = "Active",
           NEW n \in Nat, n <= accrue_loan(loan, now).outstanding_debt,
           NEW bad \in BOOLEAN,
           loan' \in { RepaidBody(accrue_loan(loan, now), n),
                       SettledBody(accrue_loan(loan, now), n, ProtocolBps),
                       LiquidatedBody(accrue_loan(loan, now), n, ProtocolBps, bad) },
           now' = now, net' = net
    PROVE  /\ LoanInv' /\ loan' \in Loans
           /\ PaysDown(accrue_loan(loan, now), loan', n)
<1> DEFINE a == accrue_loan(loan, now)
           b == loan'
<1>1. /\ a \in Loans /\ TermsOK(a) /\ a.state = "Active" /\ a.last_accrued = now
      /\ Conserved(a)
      /\ OwedSide(a) = net + CumBorrower(a, now)
      /\ a.lender_claimable + a.accumulated_curator_fee <= net + CumLenderGross(a, now)
      /\ a.accumulated_protocol_fee >= CumSpread(a, now)
      /\ CumLenderGross(a, now) \in Nat /\ CumSpread(a, now) \in Nat
      /\ CumBorrower(a, now) \in Nat
  BY AccruedLoan, Zenon
<1>2. ProtocolBps \in Nat
  BY LifecycleAssumption, ScaleAssumption, SMT
<1>3. PaysDown(a, b, n) /\ ((b.state = "Repaid") <=> (b.outstanding_debt = 0))
  BY <1>1, <1>2, BodiesPay
<1>4. net \in Nat /\ now \in Nat BY DEF TypeOK
<1> HIDE DEF a
<1>5. /\ CumLenderGross(b, now) = CumLenderGross(a, now)
      /\ CumSpread(b, now) = CumSpread(a, now)
      /\ CumBorrower(b, now) = CumBorrower(a, now)
  BY <1>3, CumSameTerms DEF PaysDown, SameTerms
<1>6. /\ b \in Loans /\ b.last_accrued = now /\ TermsOK(b)
  BY <1>1, <1>3 DEF PaysDown, SameTerms, TermsOK
<1>7. Conserved(b) /\ OwedSide(b) = OwedSide(a)
  BY <1>1, <1>3, SMT DEF PaysDown, Conserved, OwedSide, Loans
<1>8. /\ b.lender_claimable + b.accumulated_curator_fee <= net + CumLenderGross(b, now)
      /\ b.accumulated_protocol_fee >= CumSpread(b, now)
  BY <1>1, <1>3, <1>4, <1>5, <1>6, SMT DEF PaysDown, Loans
<1>9. LoanInv'
  <2>1. TermsOK(loan)' /\ (loan.last_accrued <= now)'
    BY <1>4, <1>6, SMT DEF TermsOK
  <2>2. Conserved(loan)'
    BY <1>7 DEF Conserved, ClaimSide, OwedSide
  <2>3. DebtPathIndependent'
    BY <1>1, <1>5, <1>6, <1>7
       DEF DebtPathIndependent, OwedSide, CumBorrower, CumLenderGross, CumSpread,
           cumulative_at, spread, Elapsed
  <2>4. FeeSplitRespected'
    BY <1>6, <1>8
       DEF FeeSplitRespected, CumLenderGross, CumSpread, cumulative_at, spread, Elapsed
  <2>5. ClosedIffPaid'
    BY <1>3 DEF ClosedIffPaid
  <2> QED BY <2>1, <2>2, <2>3, <2>4, <2>5 DEF LoanInv
<1> QED BY <1>3, <1>6, <1>9 DEF a

-----------------------------------------------------------------------------
(* The borrower's seat *)

\* Writing one field of a seat keeps it a seat.
LEMMA SeatUpdate ==
    ASSUME NEW s \in Seats, NEW x \in Nat
    PROVE  /\ [s EXCEPT !.collateral_encumbered = x] \in Seats
           /\ [s EXCEPT !.collateral_withdrawable = x] \in Seats
           /\ [s EXCEPT !.open_borrow_count = x] \in Seats
  BY SMT DEF Seats

\* Counting a borrow off leaves the collateral buckets alone.
LEMMA RetireBorrowTyped ==
    ASSUME NEW s \in Seats
    PROVE  /\ RetireBorrow(s) \in Seats
           /\ RetireBorrow(s).collateral_encumbered = s.collateral_encumbered
           /\ RetireBorrow(s).collateral_withdrawable = s.collateral_withdrawable
  BY SMT DEF RetireBorrow, SatSub, Seats

\* Share values are positive in every typed state.
LEMMA ShareValuesPositive ==
    ASSUME TypeOK
    PROVE  snapshot \in Nat \ {0} /\ shareValue \in Nat \ {0}
  BY LifecycleAssumption DEF TypeOK

\* Taking w of the c atoms that are locked frees at least the shares that leave
\* the account and leaves at least the shares the rest stands for.
LEMMA SeizureShares ==
    ASSUME TypeOK, snapshot <= shareValue, NEW c \in Nat, NEW w \in Nat, w <= c
    PROVE  /\ CollateralShares(c) \in Nat /\ CollateralShares(w) \in Nat
           /\ CollateralShares(c - w) \in Nat
           /\ CollateralShares(w) + CollateralShares(c - w) <= CollateralShares(c)
           /\ amount_to_asset_shares(w, shareValue) \in Nat
           /\ amount_to_asset_shares(w, shareValue) <= CollateralShares(w)
<1>1. snapshot \in Nat \ {0} /\ shareValue \in Nat \ {0}
  BY ShareValuesPositive
<1>2. c - w \in Nat /\ w + (c - w) = c
  BY SMT
<1>3. CollateralShares(w) + CollateralShares(c - w) <= CollateralShares(c)
  BY <1>1, <1>2, SharesSuperadditive DEF CollateralShares
<1> QED BY <1>1, <1>2, <1>3, SharesTyped, SharesAntitone DEF CollateralShares

\* The part of the invariant about the seat after shares have moved.
SeatFacts(st, acc, locked) ==
    /\ st \in Seats /\ acc \in Nat
    /\ st.collateral_encumbered >= locked
    /\ acc >= st.collateral_encumbered + st.collateral_withdrawable

\* repay: the released shares move inside the seat.
LEMMA ReleaseFacts ==
    ASSUME TypeOK, CollateralInv, NEW k \in Nat, k <= seat.collateral_encumbered
    PROVE  SeatFacts(RetireBorrow(release_loan_collateral(seat, k)), account, 0)
<1> DEFINE e == seat.collateral_encumbered - k
           x == seat.collateral_withdrawable + k
           r == [seat EXCEPT !.collateral_encumbered = e, !.collateral_withdrawable = x]
<1>1. seat \in Seats /\ account \in Nat
      /\ account >= seat.collateral_encumbered + seat.collateral_withdrawable
  BY DEF TypeOK, CollateralInv, SeatBackedByAccount
<1>2. e \in Nat /\ x \in Nat /\ account >= e + x
  BY <1>1, SMT DEF Seats
<1>3. release_loan_collateral(seat, k) = r
  BY <1>1, SMT DEF release_loan_collateral, Seats
<1>4. r \in Seats
  <2> HIDE DEF e, x
  <2> QED BY <1>1, <1>2, SeatUpdate, Zenon
<1>5. r.collateral_encumbered = e /\ r.collateral_withdrawable = x
  BY <1>1, SMT DEF Seats
<1> HIDE DEF r, e, x
<1> QED BY <1>1, <1>2, <1>3, <1>4, <1>5, RetireBorrowTyped, SMT DEF SeatFacts

\* liquidate_loan: w of the loan's atoms leave the account.
LEMMA LiquidatedSeatFacts ==
    ASSUME IInv, loan.state = "Active", NEW w \in Nat, w <= collateral,
           NEW full \in BOOLEAN,
           amount_to_asset_shares(w, shareValue) <= account
    PROVE  SeatFacts(LiquidatedSeat(w, full),
                     account - amount_to_asset_shares(w, shareValue),
                     IF full THEN 0 ELSE CollateralShares(collateral - w))
<1> DEFINE C  == CollateralShares(collateral)
           W  == CollateralShares(w)
           R  == CollateralShares(collateral - w)
           B  == amount_to_asset_shares(w, shareValue)
           E  == seat.collateral_encumbered
           X  == seat.collateral_withdrawable
<1>1. /\ seat \in Seats /\ account \in Nat /\ collateral \in Nat
      /\ E \in Nat /\ X \in Nat /\ E >= C /\ account >= E + X
  BY SMT DEF IInv, TypeOK, CollateralInv, EncumbranceCoversLoan, SeatBackedByAccount, Seats
<1>2. /\ C \in Nat /\ W \in Nat /\ R \in Nat /\ B \in Nat
      /\ W + R <= C /\ B <= W
  BY <1>1, SeizureShares DEF IInv, CollateralInv
<1>3. SatSub(collateral, w) = collateral - w
  BY <1>1, SMT DEF SatSub
<1>4. CASE full
  <2> DEFINE f == [seat EXCEPT !.collateral_encumbered = E - C]
             g == [f EXCEPT !.collateral_withdrawable = X + R]
  <2>1. E - C \in Nat /\ X + R \in Nat /\ SatSub(E, C) = E - C
    <3> HIDE DEF C, R, E, X
    <3> QED BY <1>1, <1>2, SMT DEF SatSub
  <2>2. f \in Seats /\ f.collateral_withdrawable = X /\ f.collateral_encumbered = E - C
    <3> HIDE DEF C
    <3> QED BY <1>1, <2>1, SMT DEF Seats
  <2>3. LiquidatedSeat(w, full) = RetireBorrow(g)
    BY <1>3, <1>4, <2>1, <2>2, Zenon DEF LiquidatedSeat
  <2>4. g \in Seats /\ g.collateral_encumbered = E - C /\ g.collateral_withdrawable = X + R
    <3> HIDE DEF f, R, C
    <3> QED BY <2>1, <2>2, SMT DEF Seats
  <2> HIDE DEF f, g, C, W, R, B, E, X
  <2>5. account - B \in Nat /\ account - B >= (E - C) + (X + R) /\ E - C >= 0
    BY <1>1, <1>2, <2>1, SMT
  <2> QED BY <1>4, <2>3, <2>4, <2>5, RetireBorrowTyped DEF SeatFacts, B
<1>5. CASE ~full
  <2> DEFINE f == [seat EXCEPT !.collateral_encumbered = E - W]
  <2>1. E - W \in Nat /\ SatSub(E, W) = E - W
    <3> HIDE DEF C, R, E, X, W
    <3> QED BY <1>1, <1>2, SMT DEF SatSub
  <2>2. f \in Seats /\ f.collateral_withdrawable = X /\ f.collateral_encumbered = E - W
    <3> HIDE DEF W
    <3> QED BY <1>1, <2>1, SMT DEF Seats
  <2>3. LiquidatedSeat(w, full) = f
    BY <1>5, <2>1, Zenon DEF LiquidatedSeat
  <2> HIDE DEF f, C, W, R, B, E, X
  <2>4. account - B \in Nat /\ account - B >= (E - W) + X /\ E - W >= R
    BY <1>1, <1>2, <2>1, SMT
  <2> QED BY <1>5, <2>2, <2>3, <2>4 DEF SeatFacts, B, R
<1> QED BY <1>4, <1>5

\* settle_matured_loan: the seat only ever loses what left the account.
LEMMA SettledSeatFacts ==
    ASSUME IInv, loan.state = "Active", NEW w \in Nat, w <= collateral,
           NEW full \in BOOLEAN,
           amount_to_asset_shares(w, shareValue) <= account
    PROVE  SeatFacts(SettledSeat(w, full),
                     account - amount_to_asset_shares(w, shareValue),
                     IF full THEN 0 ELSE CollateralShares(collateral - w))
<1> DEFINE C  == CollateralShares(collateral)
           W  == CollateralShares(w)
           R  == CollateralShares(collateral - w)
           B  == amount_to_asset_shares(w, shareValue)
           E  == seat.collateral_encumbered
           X  == seat.collateral_withdrawable
           f == [seat EXCEPT !.collateral_encumbered = E - W]
<1>1. /\ seat \in Seats /\ account \in Nat /\ collateral \in Nat
      /\ E \in Nat /\ X \in Nat /\ E >= C /\ account >= E + X
  BY SMT DEF IInv, TypeOK, CollateralInv, EncumbranceCoversLoan, SeatBackedByAccount, Seats
<1>2. /\ C \in Nat /\ W \in Nat /\ R \in Nat /\ B \in Nat
      /\ W + R <= C /\ B <= W
  BY <1>1, SeizureShares DEF IInv, CollateralInv
<1>3. /\ E - W \in Nat /\ SatSub(E, W) = E - W
      /\ account - B \in Nat /\ account - B >= (E - W) + X
      /\ E - W >= R /\ E >= R /\ account >= E + X
  <2> HIDE DEF C, R, E, X, W, B
  <2> QED BY <1>1, <1>2, SMT DEF SatSub
<1>4. f \in Seats /\ f.collateral_withdrawable = X /\ f.collateral_encumbered = E - W
  <2> HIDE DEF W
  <2> QED BY <1>1, <1>3, SMT DEF Seats
<1>5. CASE w = 0
  <2>1. SettledSeat(w, full) = seat BY <1>5 DEF SettledSeat
  <2>2. B = 0
    BY <1>5, SharesTyped, ShareValuesPositive DEF IInv
  <2>3. account - B = account /\ E >= 0
    <3> HIDE DEF B, E
    <3> QED BY <1>1, <2>2, SMT
  <2> HIDE DEF R
  <2> QED BY <1>1, <1>3, <2>1, <2>3 DEF SeatFacts, R
<1>6. CASE w # 0
  <2>1. SettledSeat(w, full) = IF full THEN RetireBorrow(f) ELSE f
    BY <1>3, <1>6, Zenon DEF SettledSeat
  <2> HIDE DEF f, C, W, R, B, E, X
  <2>2. E - W >= 0 BY <1>3, SMT
  <2> QED BY <1>3, <1>4, <2>1, <2>2, RetireBorrowTyped DEF SeatFacts, B, R
<1> QED BY <1>5, <1>6

-----------------------------------------------------------------------------
(* Initial states and steps *)

\* The state process_matched_loan leaves satisfies the invariant.
LEMMA InitInv == Init => IInv
<1> SUFFICES ASSUME Init PROVE IInv
  OBVIOUS
<1>1. PICK p \in Principals, r \in LenderRates, s \in Spreads, f \in CuratorFees :
        /\ net = net_principal(p, mul_div(p, OriginationBps, BPS_PER_UNIT))
        /\ net > 0
        /\ loan = new_from_matched_loan_with_lender(p, net, r, r + s, f, 0)
  BY DEF Init
<1>2. /\ p \in Nat /\ r \in Nat /\ s \in Nat /\ f \in Nat /\ f <= BPS_PER_UNIT
      /\ OriginationBps \in Nat
  BY LifecycleAssumption, ScaleAssumption, SMT
<1>3. net \in Nat
  <2>1. p * OriginationBps \in Nat BY <1>2, SMT
  <2>2. mul_div(p, OriginationBps, BPS_PER_UNIT) \in Nat
    BY <2>1, ScaleAssumption, DivFloor DEF mul_div
  <2> QED BY <1>1, <1>2, <2>2, SMT DEF net_principal
<1>4. loan = [ principal_debt           |-> p,
               outstanding_debt         |-> net,
               lender_claimable         |-> net,
               accumulated_protocol_fee |-> 0,
               accumulated_curator_fee  |-> 0,
               principal_retired        |-> 0,
               started_at               |-> 0,
               last_accrued             |-> 0,
               lender_rate              |-> r,
               borrower_rate            |-> r + s,
               curator_fee              |-> f,
               state                    |-> "Active" ]
  BY <1>1 DEF new_from_matched_loan_with_lender
<1>5. loan \in Loans /\ TermsOK(loan) /\ now = 0
  BY <1>2, <1>3, <1>4, SMT DEF Loans, LoanStates, TermsOK, Init
<1>6. CumLenderGross(loan, 0) = 0 /\ CumSpread(loan, 0) = 0 /\ CumBorrower(loan, 0) = 0
  <2>1. Elapsed(loan, 0) = 0 BY <1>4, SMT DEF Elapsed
  <2>2. ASSUME NEW x \in Nat PROVE cumulative_at(loan, x, 0) = 0
    <3>1. loan.principal_debt * (x * 0) = 0 BY <1>2, <1>4, SMT
    <3>2. BPS_PER_UNIT * SECONDS_PER_YEAR \in Nat \ {0}
      BY ScaleAssumption, YearAssumption, SMT
    <3>3. ASSUME NEW d \in Nat \ {0} PROVE 0 \div d = 0 BY SMT
    <3> QED BY <3>1, <3>2, <3>3 DEF cumulative_at, mul_div
  <2>3. loan.lender_rate \in Nat /\ spread(loan) \in Nat
    BY <1>2, <1>4, SMT DEF spread
  <2>4. CumLenderGross(loan, 0) = 0 /\ CumSpread(loan, 0) = 0
    BY <2>1, <2>2, <2>3 DEF CumLenderGross, CumSpread
  <2> QED BY <2>4, SMT DEF CumBorrower
<1>7. LoanInv
  <2>1. loan.last_accrued = 0 /\ loan.outstanding_debt = net /\ loan.lender_claimable = net
        /\ loan.accumulated_protocol_fee = 0 /\ loan.accumulated_curator_fee = 0
        /\ loan.principal_retired = 0 /\ loan.state = "Active"
    BY <1>4
  <2>2. Conserved(loan)
    BY <1>3, <2>1, SMT DEF Conserved, ClaimSide, OwedSide
  <2>3. DebtPathIndependent
    BY <1>3, <1>6, <2>1, SMT DEF DebtPathIndependent, OwedSide
  <2>4. FeeSplitRespected
    BY <1>3, <1>6, <2>1, SMT DEF FeeSplitRespected
  <2>5. ClosedIffPaid
    BY <1>1, <1>3, <2>1, SMT DEF ClosedIffPaid
  <2> QED BY <1>5, <2>1, <2>2, <2>3, <2>4, <2>5, SMT DEF LoanInv
<1>8. /\ collateral \in Nat /\ snapshot \in ShareValues /\ shareValue = snapshot
      /\ snapshot \in Nat \ {0}
  BY LifecycleAssumption DEF Init
<1>9. CollateralShares(collateral) \in Nat
  BY <1>8, SharesTyped DEF CollateralShares
<1>10. /\ seat = [ collateral_encumbered   |-> CollateralShares(collateral),
                   collateral_withdrawable |-> 0,
                   open_borrow_count       |-> 1 ]
       /\ account = CollateralShares(collateral)
  BY DEF Init, CollateralShares
<1>11. /\ seat \in Seats /\ account \in Nat
       /\ EncumbranceCoversLoan /\ SeatBackedByAccount /\ snapshot <= shareValue
  BY <1>8, <1>9, <1>10, SMT DEF Seats, EncumbranceCoversLoan, SeatBackedByAccount
<1>12. TypeOK
  BY <1>3, <1>5, <1>8, <1>11 DEF TypeOK
<1> QED BY <1>7, <1>11, <1>12 DEF IInv, CollateralInv

\* Time and growing share values keep the invariant.
LEMMA TickInv == IInv /\ Tick => IInv'
<1> SUFFICES ASSUME IInv, Tick PROVE IInv'
  OBVIOUS
<1>1. /\ now' \in Nat /\ now <= now' /\ shareValue' \in ShareValues
      /\ shareValue <= shareValue'
  BY LifecycleAssumption, SMT DEF IInv, TypeOK, Tick
<1>2. TypeOK'
  BY <1>1 DEF IInv, TypeOK, Tick
<1>3. LoanInv'
  <2>1. loan.last_accrued \in Nat /\ now \in Nat BY DEF IInv, TypeOK, Loans
  <2>2. loan.last_accrued <= now' BY <1>1, <2>1, SMT DEF IInv, LoanInv
  <2>3. loan' = loan /\ net' = net BY DEF Tick
  <2> QED BY <2>2, <2>3 DEF IInv, LoanInv, TermsOK, DebtPathIndependent,
                FeeSplitRespected, ClosedIffPaid, Conserved, ClaimSide, OwedSide,
                CumBorrower, CumLenderGross, CumSpread, cumulative_at, spread, Elapsed
<1>4. CollateralInv'
  <2>1. snapshot \in Nat /\ shareValue \in Nat /\ shareValue' \in Nat
    BY <1>1, LifecycleAssumption, ShareValuesPositive DEF IInv
  <2>2. snapshot <= shareValue' BY <1>1, <2>1, SMT DEF IInv, CollateralInv
  <2> QED BY <2>2 DEF IInv, CollateralInv, EncumbranceCoversLoan, SeatBackedByAccount,
                      CollateralShares, Tick
<1> QED BY <1>2, <1>3, <1>4 DEF IInv

\* From the body and the seat to the invariant.
LEMMA PutTogether ==
    ASSUME IInv, UNCHANGED <<now, net, snapshot, shareValue>>,
           loan' \in Loans, LoanInv', collateral' \in Nat,
           NEW locked \in Nat, SeatFacts(seat', account', locked),
           loan'.state = "Active" => locked >= CollateralShares(collateral')
    PROVE  IInv'
<1>1. TypeOK'
  BY DEF IInv, TypeOK, SeatFacts
<1>2. snapshot' <= shareValue' BY DEF IInv, CollateralInv
<1>3. SeatBackedByAccount' BY DEF SeatFacts, SeatBackedByAccount
<1>4. EncumbranceCoversLoan'
  <2> SUFFICES ASSUME loan'.state = "Active"
               PROVE  seat'.collateral_encumbered >= CollateralShares(collateral')
    BY DEF EncumbranceCoversLoan, CollateralShares
  <2>1. CollateralShares(collateral') \in Nat
    BY SharesTyped, ShareValuesPositive DEF CollateralShares, IInv
  <2>2. seat'.collateral_encumbered \in Nat BY DEF SeatFacts, Seats
  <2> QED BY <2>1, <2>2, SMT DEF SeatFacts
<1> QED BY <1>1, <1>2, <1>3, <1>4 DEF IInv, CollateralInv

\* repay keeps the invariant.
LEMMA RepayInv == ASSUME IInv, NEW n \in Amounts, Repay(n) PROVE IInv'
<1> DEFINE a == accrue_loan(loan, now)
           K == CollateralShares(collateral)
<1>1. /\ TypeOK /\ LoanInv /\ loan.state = "Active"
      /\ a \in Loans /\ n \in Nat /\ n <= a.outstanding_debt
  BY AccruedLoan, SMT DEF IInv, Repay, Amounts, Loans
<1>2. /\ loan' = RepaidBody(a, n)
      /\ UNCHANGED <<now, net, snapshot, shareValue>>
      /\ collateral' = collateral /\ account' = account
  BY DEF Repay
<1>3. LoanInv' /\ loan' \in Loans
  BY <1>1, <1>2, PaymentKeepsLoan
<1>4. collateral \in Nat /\ K \in Nat
  BY SharesTyped, ShareValuesPositive DEF IInv, TypeOK, CollateralShares
<1>5. CASE loan'.outstanding_debt = 0
  <2>1. seat' = RetireBorrow(release_loan_collateral(seat, K))
    BY <1>2, <1>5 DEF Repay
  <2>2. K <= seat.collateral_encumbered
    BY <1>1, <1>4, SMT DEF IInv, CollateralInv, EncumbranceCoversLoan, TypeOK, Seats
  <2>3. SeatFacts(seat', account', 0)
    BY <1>2, <1>4, <2>1, <2>2, ReleaseFacts DEF IInv
  <2>4. loan'.state = "Repaid" BY <1>3, <1>5 DEF LoanInv, ClosedIffPaid
  <2> QED BY <1>2, <1>3, <1>4, <2>3, <2>4, PutTogether
<1>6. CASE loan'.outstanding_debt # 0
  <2>1. seat' = seat BY <1>2, <1>6 DEF Repay
  <2>2. SeatFacts(seat', account', K)
    BY <1>1, <1>2, <2>1 DEF SeatFacts, IInv, TypeOK, CollateralInv,
                            EncumbranceCoversLoan, SeatBackedByAccount
  <2>3. K >= CollateralShares(collateral')
    <3>1. CollateralShares(collateral') = K BY <1>2
    <3> HIDE DEF K
    <3> QED BY <1>4, <3>1, SMT
  <2> QED BY <1>2, <1>3, <1>4, <2>2, <2>3, PutTogether
<1> QED BY <1>5, <1>6

\* What a keeper asks for is what the loan holds at most, and what leaves the
\* account is at most that.
LEMMA WithdrawnFacts ==
    ASSUME TypeOK, NEW z \in Nat, z <= collateral
    PROVE  /\ Withdrawn(z) \in Nat /\ Withdrawn(z) <= z /\ Withdrawn(z) <= collateral
           /\ SatSub(collateral, Withdrawn(z)) = collateral - Withdrawn(z)
           /\ collateral - Withdrawn(z) \in Nat
<1>1. Withdrawn(z) \in Nat /\ Withdrawn(z) <= z
  BY RoundTripLoses, ShareValuesPositive DEF Withdrawn
<1>2. collateral \in Nat BY DEF TypeOK
<1> QED BY <1>1, <1>2, SMT DEF SatSub

\* The liquidator seizes at most the loan's collateral.
LEMMA LiquidatorSeizes ==
    ASSUME TypeOK, NEW n \in Nat, NEW price \in Prices
    PROVE  LET value == get_required_quote_collateral_to_back_debt(
                            n, price[1], price[2], SCALE, SCALE)
               z == compute_collateral_split(value, collateral, KeeperBps).seizes
           IN  z \in Nat /\ z <= collateral
<1> DEFINE value == get_required_quote_collateral_to_back_debt(
                        n, price[1], price[2], SCALE, SCALE)
           z     == compute_collateral_split(value, collateral, KeeperBps).seizes
<1> SUFFICES z \in Nat /\ z <= collateral OBVIOUS
<1>1. value \in Nat
  <2> DEFINE num == mul_scale(mul_scale(to_scaled(n), price[1]), SCALE)
             den == mul_scale(price[2], SCALE)
             x   == div_scale(num, den)
  <2>1. /\ price[1] \in Nat \ {0} /\ price[2] \in Nat \ {0}
        /\ SCALE \in Nat \ {0}
    BY LifecycleAssumption, ScaleAssumption
  <2>2. ASSUME NEW u \in Nat, NEW v \in Nat PROVE mul_scale(u, v) \in Nat
    <3>1. u * v \in Nat BY SMT
    <3> QED BY <2>1, <3>1, DivFloor DEF mul_scale
  <2>3. to_scaled(n) \in Nat BY <2>1, SMT DEF to_scaled
  <2>4. num \in Nat BY <2>1, <2>2, <2>3
  <2>5. den \in Nat \ {0}
    <3>1. den = (price[2] * SCALE) \div SCALE BY DEF mul_scale
    <3>2. (price[2] * SCALE) \div SCALE = price[2]
      BY <2>1, SMT
    <3> QED BY <2>1, <3>1, <3>2
  <2>6. x \in Nat
    <3> HIDE DEF num, den
    <3>1. num * SCALE \in Nat BY <2>1, <2>4, SMT
    <3> QED BY <2>5, <3>1, DivFloor DEF div_scale
  <2>7. value = from_scaled_ceil(x)
    BY DEF get_required_quote_collateral_to_back_debt
  <2>8. from_scaled_ceil(x) \in Nat
    <3> HIDE DEF x
    <3>1. x \div SCALE \in Nat BY <2>1, <2>6, DivFloor
    <3> DEFINE y == x \div SCALE
    <3> HIDE DEF y
    <3>2. y \in Nat /\ y + 1 \in Nat BY <3>1, SMT DEF y
    <3> QED BY <3>2 DEF from_scaled_ceil, y
  <2> QED BY <2>7, <2>8
<1> HIDE DEF value
<1>2. mul_div(value, KeeperBps, BPS_PER_UNIT) \in Nat
  <2>1. KeeperBps \in Nat BY LifecycleAssumption, ScaleAssumption, SMT
  <2>2. value * KeeperBps \in Nat BY <1>1, <2>1, SMT
  <2> QED BY <2>2, ScaleAssumption, DivFloor DEF mul_div
<1>3. z = MinOf(collateral, value + mul_div(value, KeeperBps, BPS_PER_UNIT))
  BY DEF compute_collateral_split
<1> HIDE DEF z
<1> QED BY <1>1, <1>2, <1>3, SMT DEF MinOf, TypeOK

\* liquidate_loan keeps the invariant.
LEMMA LiquidateInv ==
    ASSUME IInv, NEW n \in Amounts, NEW price \in Prices, LiquidateLoan(n, price)
    PROVE  IInv'
<1> DEFINE a     == accrue_loan(loan, now)
           full  == n = a.outstanding_debt
           value == get_required_quote_collateral_to_back_debt(
                        n, price[1], price[2], SCALE, SCALE)
           split == compute_collateral_split(value, collateral, KeeperBps)
           z     == split.seizes
           w     == Withdrawn(z)
           bad   == split.bad_debt_gap > 0
<1>1. /\ TypeOK /\ LoanInv /\ loan.state = "Active"
      /\ a \in Loans /\ n \in Nat /\ n <= a.outstanding_debt
  BY AccruedLoan, SMT DEF IInv, LiquidateLoan, Amounts, Loans
<1>2. /\ loan' = LiquidatedBody(a, n, ProtocolBps, bad)
      /\ UNCHANGED <<now, net, snapshot, shareValue>>
      /\ collateral' = IF full THEN 0 ELSE SatSub(collateral, w)
      /\ seat' = LiquidatedSeat(w, full)
      /\ account' = account - Burned(z) /\ Burned(z) <= account
  BY DEF LiquidateLoan
<1>3. LoanInv' /\ loan' \in Loans /\ PaysDown(a, loan', n)
  <2>1. bad \in BOOLEAN OBVIOUS
  <2> HIDE DEF bad
  <2> QED BY <1>1, <1>2, <2>1, PaymentKeepsLoan
<1>4. z \in Nat /\ z <= collateral
  BY <1>1, LiquidatorSeizes
<1> HIDE DEF z, bad, split
<1>5. /\ w \in Nat /\ w <= collateral /\ SatSub(collateral, w) = collateral - w
      /\ collateral - w \in Nat
  BY <1>1, <1>4, WithdrawnFacts
<1>6. Burned(z) = amount_to_asset_shares(w, shareValue)
  BY DEF Burned
<1> HIDE DEF w
<1> DEFINE R == IF full THEN 0 ELSE CollateralShares(collateral - w)
<1>7. SeatFacts(seat', account', R)
  BY <1>1, <1>2, <1>5, <1>6, LiquidatedSeatFacts
<1>8. R \in Nat
  BY <1>1, <1>5, SharesTyped, ShareValuesPositive DEF CollateralShares
<1>9. collateral' \in Nat
  BY <1>2, <1>5
<1>10. loan'.state = "Active" => R >= CollateralShares(collateral')
  <2> SUFFICES ASSUME loan'.state = "Active" PROVE R >= CollateralShares(collateral')
    OBVIOUS
  <2>1. ~full
    <3>1. loan'.outstanding_debt # 0 BY <1>3 DEF LoanInv, ClosedIffPaid
    <3>2. loan'.outstanding_debt = a.outstanding_debt - n BY <1>3 DEF PaysDown
    <3> QED BY <1>1, <3>1, <3>2, SMT DEF Loans
  <2>2. CollateralShares(collateral') = R BY <1>2, <1>5, <2>1
  <2> HIDE DEF R
  <2> QED BY <1>8, <2>2, SMT
<1> HIDE DEF R
<1> QED BY <1>2, <1>3, <1>7, <1>8, <1>9, <1>10, PutTogether

\* A settlement seizes at most its pro-rata share, and at most everything.
LEMMA SeizedProRata ==
    ASSUME NEW c \in Nat, NEW n \in Nat, NEW o \in Nat \ {0}, n <= o
    PROVE  /\ mul_div(c, n, o) \in Nat /\ mul_div(c, n, o) <= c
           /\ mul_div(c, n, o) * o <= c * n
<1>1. c * n \in Nat BY SMT
<1>2. /\ (c * n) \div o \in Nat /\ o * ((c * n) \div o) <= c * n
  <2> DEFINE x == c * n
  <2> HIDE DEF x
  <2> SUFFICES x \div o \in Nat /\ o * (x \div o) <= x BY DEF x
  <2> QED BY <1>1, DivFloor DEF x
<1>3. (c * n) \div o <= c
  BY MulDivBack
<1>4. ((c * n) \div o) * o = o * ((c * n) \div o)
  <2> DEFINE q == (c * n) \div o
  <2> HIDE DEF q
  <2> SUFFICES q * o = o * q BY DEF q
  <2>1. q \in Nat BY <1>2 DEF q
  <2> QED BY <2>1, SMT
<1> QED BY <1>2, <1>3, <1>4 DEF mul_div

\* A settlement seizes at most the collateral the loan holds.
LEMMA SeizedAtMost ==
    ASSUME TypeOK, NEW n \in Nat, NEW o \in Nat, n <= o, o > 0
    PROVE  SettleSeizes(n, o) \in Nat /\ SettleSeizes(n, o) <= collateral
<1>1. collateral \in Nat /\ o \in Nat \ {0} BY SMT DEF TypeOK
<1>2. mul_div(collateral, n, o) \in Nat /\ mul_div(collateral, n, o) <= collateral
  BY <1>1, SeizedProRata
<1>3. collateral <= collateral BY <1>1, SMT
<1> QED BY <1>1, <1>2, <1>3 DEF SettleSeizes

\* settle_matured_loan keeps the invariant.
LEMMA SettleInv == ASSUME IInv, NEW n \in Amounts, SettleMaturedLoan(n) PROVE IInv'
<1> DEFINE a    == accrue_loan(loan, now)
           full == n = a.outstanding_debt
           z    == SettleSeizes(n, a.outstanding_debt)
           w    == Withdrawn(z)
<1>1. /\ TypeOK /\ LoanInv /\ loan.state = "Active"
      /\ a \in Loans /\ n \in Nat /\ n <= a.outstanding_debt
      /\ a.outstanding_debt > 0
  BY AccruedLoan, SMT DEF IInv, SettleMaturedLoan, Amounts, Loans
<1>2. /\ loan' = SettledBody(a, n, ProtocolBps)
      /\ UNCHANGED <<now, net, snapshot, shareValue>>
      /\ collateral' = IF full THEN 0 ELSE SatSub(collateral, w)
      /\ seat' = SettledSeat(w, full)
      /\ account' = account - Burned(z) /\ Burned(z) <= account
  BY DEF SettleMaturedLoan
<1>3. LoanInv' /\ loan' \in Loans /\ PaysDown(a, loan', n)
  BY <1>1, <1>2, PaymentKeepsLoan
<1>4. z \in Nat /\ z <= collateral
  BY <1>1, SeizedAtMost DEF Loans
<1> HIDE DEF z
<1>5. /\ w \in Nat /\ w <= collateral /\ SatSub(collateral, w) = collateral - w
      /\ collateral - w \in Nat
  BY <1>1, <1>4, WithdrawnFacts
<1>6. Burned(z) = amount_to_asset_shares(w, shareValue)
  BY DEF Burned
<1> HIDE DEF w
<1> DEFINE R == IF full THEN 0 ELSE CollateralShares(collateral - w)
<1>7. SeatFacts(seat', account', R)
  BY <1>1, <1>2, <1>5, <1>6, SettledSeatFacts
<1>8. R \in Nat
  BY <1>1, <1>5, SharesTyped, ShareValuesPositive DEF CollateralShares
<1>9. collateral' \in Nat
  BY <1>2, <1>5
<1>10. loan'.state = "Active" => R >= CollateralShares(collateral')
  <2> SUFFICES ASSUME loan'.state = "Active" PROVE R >= CollateralShares(collateral')
    OBVIOUS
  <2>1. ~full
    <3>1. loan'.outstanding_debt # 0 BY <1>3 DEF LoanInv, ClosedIffPaid
    <3>2. loan'.outstanding_debt = a.outstanding_debt - n BY <1>3 DEF PaysDown
    <3> QED BY <1>1, <3>1, <3>2, SMT DEF Loans
  <2>2. CollateralShares(collateral') = R BY <1>2, <1>5, <2>1
  <2> HIDE DEF R
  <2> QED BY <1>8, <2>2, SMT
<1> HIDE DEF R
<1> QED BY <1>2, <1>3, <1>7, <1>8, <1>9, <1>10, PutTogether

\* Every step keeps the invariant.
LEMMA NextInv == IInv /\ [Next]_vars => IInv'
<1> SUFFICES ASSUME IInv, [Next]_vars PROVE IInv'
  OBVIOUS
<1>1. CASE Tick
  BY <1>1, TickInv
<1>2. ASSUME NEW n \in Amounts, Repay(n) PROVE IInv'
  BY <1>2, RepayInv
<1>3. ASSUME NEW n \in Amounts, NEW price \in Prices, LiquidateLoan(n, price) PROVE IInv'
  BY <1>3, LiquidateInv
<1>4. ASSUME NEW n \in Amounts, SettleMaturedLoan(n) PROVE IInv'
  BY <1>4, SettleInv
<1>5. CASE UNCHANGED vars
  BY <1>5 DEF IInv, TypeOK, LoanInv, CollateralInv, vars, TermsOK,
              DebtPathIndependent, FeeSplitRespected, ClosedIffPaid, Conserved, ClaimSide,
              OwedSide, CumBorrower, CumLenderGross, CumSpread, cumulative_at, spread,
              Elapsed, EncumbranceCoversLoan, SeatBackedByAccount, CollateralShares
<1> QED BY <1>1, <1>2, <1>3, <1>4, <1>5 DEF Next

\* The invariant holds in every reachable state.
LEMMA InvAlways == Spec => []IInv
  BY InitInv, NextInv, PTL DEF Spec

-----------------------------------------------------------------------------
(* Theorems *)

\* Every bucket, seat and account stays a natural number: none of the checked
\* and saturating subtractions of the loan's handlers goes below zero.
THEOREM TypeCorrect == Spec => []TypeOK
<1>1. IInv => TypeOK BY DEF IInv
<1> QED BY <1>1, InvAlways, PTL

\* assert_loan_conservation never fires, whatever the order of payments.
THEOREM ConservationHolds == Spec => []LoanConservation
<1>1. IInv => LoanConservation BY AccruedLoan DEF IInv, LoanInv, LoanConservation
<1> QED BY <1>1, InvAlways, PTL

\* The debt charged does not depend on when and how often accrue_loan ran.
THEOREM PathIndependenceHolds == Spec => []DebtPathIndependent
<1>1. IInv => DebtPathIndependent BY DEF IInv, LoanInv
<1> QED BY <1>1, InvAlways, PTL

\* The lender side never gets more than its rate, the protocol never less than
\* the spread, through partial payments, fees and clawbacks.
THEOREM FeeSplitHolds == Spec => []FeeSplitRespected
<1>1. IInv => FeeSplitRespected BY DEF IInv, LoanInv
<1> QED BY <1>1, InvAlways, PTL

\* A loan is closed exactly when nothing is owed on it.
THEOREM ClosedIffPaidHolds == Spec => []ClosedIffPaid
<1>1. IInv => ClosedIffPaid BY DEF IInv, LoanInv
<1> QED BY <1>1, InvAlways, PTL

\* release_loan_collateral can never refuse the payment that closes a loan.
THEOREM EncumbranceHolds == Spec => []EncumbranceCoversLoan
<1>1. IInv => EncumbranceCoversLoan BY DEF IInv, CollateralInv
<1> QED BY <1>1, InvAlways, PTL

\* The borrower's seat never shows shares that are not on the account.
THEOREM BackingHolds == Spec => []SeatBackedByAccount
<1>1. IInv => SeatBackedByAccount BY DEF IInv, CollateralInv
<1> QED BY <1>1, InvAlways, PTL

\* The final payment's slice of a fee bucket, scaled by the claims.
LEMMA FinalPortion ==
    ASSUME NEW x \in Nat, NEW r \in Nat, NEW c \in Nat \ {0}, r <= c
    PROVE  /\ SatSub(x, mul_div(x, r, c)) \in Nat
           /\ c * SatSub(x, mul_div(x, r, c)) <= x * (c - r) + (c - 1)
<1> DEFINE f == mul_div(x, r, c)
<1>1. x * r \in Nat BY SMT
<1>2. f \in Nat /\ x * r < c * f + c
  <2> DEFINE y == x * r
  <2> HIDE DEF y
  <2> SUFFICES y \div c \in Nat /\ y < c * (y \div c) + c BY DEF y, mul_div
  <2> QED BY <1>1, DivFloor DEF y
<1>3. f <= x BY MulDivBack DEF mul_div
<1> HIDE DEF f
<1>4. SatSub(x, f) = x - f BY <1>2, <1>3, SMT DEF SatSub
<1>5. c * (x - f) <= x * (c - r) + (c - 1)
  <2>1. c * (x - f) = c * x - c * f BY <1>2, SMT
  <2>2. x * (c - r) = c * x - x * r BY <1>1, SMT
  <2> QED BY <1>1, <1>2, <2>1, <2>2, SMT
<1>6. x - f \in Nat BY <1>2, <1>3, SMT
<1> QED BY <1>4, <1>5, <1>6 DEF f

\* A full payment is refused only when the lender's share of it is under one atom.
LEMMA DustOnly == IInv => FullRepayRefusedOnlyForDust
<1> SUFFICES ASSUME IInv, loan.state = "Active",
                    ~CanResolve(accrue_loan(loan, now),
                                accrue_loan(loan, now).outstanding_debt)
             PROVE  accrue_loan(loan, now).outstanding_debt
                      * accrue_loan(loan, now).lender_claimable
                      < ClaimSide(accrue_loan(loan, now))
  BY DEF FullRepayRefusedOnlyForDust
<1> DEFINE a == accrue_loan(loan, now)
           o == a.outstanding_debt
           r == a.principal_retired
           l == a.lender_claimable
           p == a.accumulated_protocol_fee
           q == a.accumulated_curator_fee
           c == ClaimSide(a)
           P == SatSub(p, mul_div(p, r, c))
           Q == SatSub(q, mul_div(q, r, c))
<1>1. a \in Loans /\ o > 0 /\ Conserved(a)
  BY AccruedLoan DEF IInv
<1>2. /\ o \in Nat /\ r \in Nat /\ l \in Nat /\ p \in Nat /\ q \in Nat /\ o > 0
      /\ c = l + p + q /\ c = o + r /\ o <= o
  <2> HIDE DEF a
  <2> QED BY <1>1, SMT DEF Loans, Conserved, ClaimSide, OwedSide
<1>3. c \in Nat \ {0} /\ r <= c /\ c - r = o
  <2> HIDE DEF c, o, r, l, p, q
  <2> QED BY <1>2, SMT
<1>4. ~PortionsFit(a, o)
  <2> HIDE DEF a
  <2> QED BY <1>1, <1>2 DEF CanResolve, a
<1>5. FeePortion(a, p, o) = P /\ FeePortion(a, q, o) = Q
  <2>1. o >= o
    <3> HIDE DEF o
    <3> QED BY <1>2, SMT
  <2>2. c # 0 BY <1>3
  <2>3. already_retired(a, p) = mul_div(p, r, c) /\ already_retired(a, q) = mul_div(q, r, c)
    BY <2>2, Zenon DEF already_retired
  <2> QED BY <2>1, <2>3, Zenon DEF FeePortion
<1>6. ~(P + Q <= o)
  BY <1>4, <1>5, Zenon DEF PortionsFit
<1>7. /\ P \in Nat /\ c * P <= p * o + (c - 1)
      /\ Q \in Nat /\ c * Q <= q * o + (c - 1)
  <2> HIDE DEF c, p, q, r, o
  <2> QED BY <1>2, <1>3, FinalPortion
<1> HIDE DEF a, o, r, l, p, q, c, P, Q
<1>8. c * (P + Q) <= p * o + q * o + 2 * c - 2
  <2>1. c * (P + Q) = c * P + c * Q BY <1>3, <1>7, SMT
  <2>2. c * P \in Nat /\ c * Q \in Nat /\ p * o \in Nat /\ q * o \in Nat
    BY <1>2, <1>3, <1>7, SMT
  <2> DEFINE x1 == c * P
             x2 == c * Q
             y1 == p * o
             y2 == q * o
  <2> HIDE DEF x1, x2, y1, y2
  <2>3. x1 \in Nat /\ x2 \in Nat /\ y1 \in Nat /\ y2 \in Nat
        /\ x1 <= y1 + (c - 1) /\ x2 <= y2 + (c - 1)
    BY <1>7, <2>2 DEF x1, x2, y1, y2
  <2>4. x1 + x2 <= y1 + y2 + 2 * c - 2
    BY <1>3, <2>3, SMT
  <2> QED BY <2>1, <2>4 DEF x1, x2, y1, y2
<1>9. c * o + c <= c * (P + Q)
  <2>1. o + 1 <= P + Q BY <1>2, <1>6, <1>7, SMT
  <2> DEFINE k == P + Q
  <2> HIDE DEF k
  <2>2. k \in Nat /\ o + 1 <= k BY <1>7, <2>1, SMT DEF k
  <2>3. c * (o + 1) <= c * k BY <1>2, <1>3, <2>2, SMT
  <2>4. c * (o + 1) = c * o + c BY <1>2, <1>3, SMT
  <2> QED BY <2>3, <2>4 DEF k
<1>10. c * o = o * l + p * o + q * o
  BY <1>2, SMT
<1>11. o * l < c
  <2> DEFINE x == o * l
             y == p * o
             z == q * o
             u == c * o
             k == c * (P + Q)
  <2>1. /\ x \in Nat /\ y \in Nat /\ z \in Nat /\ u \in Nat /\ k \in Nat
        /\ k <= y + z + 2 * c - 2 /\ u + c <= k /\ u = x + y + z
    BY <1>2, <1>3, <1>7, <1>8, <1>9, <1>10, SMT
  <2> HIDE DEF x, y, z, u, k
  <2>2. x < c BY <1>3, <2>1, SMT
  <2> QED BY <2>2 DEF x
<1> QED BY <1>11 DEF a, o, l, c

\* apply_partial_resolution refuses a full payment only on a dust residual: with
\* a lender share of one atom or more, every open loan can be paid off.
THEOREM FullRepayRefusedOnlyForDustHolds == Spec => []FullRepayRefusedOnlyForDust
  BY DustOnly, InvAlways, PTL

\* What each kind of payment does to the loan's collateral and paid-down debt.
LEMMA PaymentRetires ==
    ASSUME IInv, loan.state = "Active", NEW n \in Amounts, NEW bad \in BOOLEAN,
           loan' \in { RepaidBody(accrue_loan(loan, now), n),
                       SettledBody(accrue_loan(loan, now), n, ProtocolBps),
                       LiquidatedBody(accrue_loan(loan, now), n, ProtocolBps, bad) },
           now' = now, net' = net
    PROVE  /\ loan'.principal_retired > loan.principal_retired
           /\ loan'.outstanding_debt = accrue_loan(loan, now).outstanding_debt - n
<1> DEFINE a == accrue_loan(loan, now)
<1>1. /\ TypeOK /\ LoanInv /\ a \in Loans /\ n \in Nat /\ n <= a.outstanding_debt /\ n > 0
      /\ a.principal_retired = loan.principal_retired
  BY AccruedLoan, SMT DEF IInv, Amounts, Loans
<1>2. PaysDown(a, loan', n)
  BY <1>1, PaymentKeepsLoan
<1> HIDE DEF a
<1>3. loan'.principal_retired = loan.principal_retired + n
  BY <1>1, <1>2 DEF PaysDown
<1>4. loan'.principal_retired > loan.principal_retired
  BY <1>1, <1>3, SMT DEF Loans
<1> QED BY <1>2, <1>4 DEF PaysDown, a

\* Every step treats collateral as CollateralStep says.
LEMMA CollateralSteps == IInv /\ [Next]_vars => [CollateralStep]_vars
<1> SUFFICES ASSUME IInv, Next PROVE CollateralStep
  OBVIOUS
<1> DEFINE a == accrue_loan(loan, now)
           o == a.outstanding_debt
<1>1. collateral \in Nat /\ collateral' \in Nat /\ loan.principal_retired \in Nat
  <2>1. IInv' BY NextInv
  <2> QED BY <2>1 DEF IInv, TypeOK, Loans
<1>2. ASSUME NEW n \in Amounts, SettleMaturedLoan(n)
      PROVE  /\ collateral' * o >= collateral * loan'.outstanding_debt
             /\ collateral' <= collateral
  <2> DEFINE z == SettleSeizes(n, o)
             w == Withdrawn(z)
  <2>1. /\ loan.state = "Active"
        /\ collateral' = IF n = o THEN 0 ELSE SatSub(collateral, w)
    BY <1>2 DEF SettleMaturedLoan
  <2>2. /\ TypeOK /\ n \in Nat /\ n <= o /\ o \in Nat \ {0}
    BY <2>1, AccruedLoan, SMT DEF IInv, Amounts, Loans
  <2>3. loan'.outstanding_debt = o - n
    BY <1>2, <2>1, PaymentRetires DEF SettleMaturedLoan
  <2>4. CASE n = o
    <3>1. loan'.outstanding_debt = 0 /\ collateral' = 0
      BY <2>1, <2>2, <2>3, <2>4, SMT
    <3> HIDE DEF o
    <3> QED BY <1>1, <2>2, <3>1, SMT
  <2>5. CASE n # o
    <3>1. z = mul_div(collateral, n, o) BY <2>5 DEF SettleSeizes
    <3>2. z \in Nat /\ z <= collateral /\ z * o <= collateral * n
      BY <1>1, <2>2, <3>1, SeizedProRata
    <3> HIDE DEF z
    <3>3. w \in Nat /\ w <= z /\ collateral' = collateral - w
      BY <2>1, <2>2, <2>5, <3>2, WithdrawnFacts
    <3> HIDE DEF w, o
    <3>4. w * o <= collateral * n
      <4>1. w * o <= z * o BY <2>2, <3>2, <3>3, SMT
      <4>2. w * o \in Nat /\ z * o \in Nat /\ collateral * n \in Nat
        BY <1>1, <2>2, <3>2, <3>3, SMT
      <4> QED BY <3>2, <4>1, <4>2, SMT
    <3>5. /\ (collateral - w) * o = collateral * o - w * o
          /\ collateral * (o - n) = collateral * o - collateral * n
      BY <1>1, <2>2, <3>3, SMT
    <3>6. (collateral - w) * o >= collateral * (o - n)
      BY <1>1, <2>2, <3>3, <3>4, <3>5, SMT
    <3>7. collateral' <= collateral BY <1>1, <3>3, SMT
    <3> QED BY <2>3, <3>3, <3>6, <3>7
  <2> QED BY <2>4, <2>5
<1>3. ASSUME NEW n \in Amounts, NEW price \in Prices, LiquidateLoan(n, price)
      PROVE  collateral' <= collateral /\ loan'.principal_retired > loan.principal_retired
  <2> DEFINE split == compute_collateral_split(
                          get_required_quote_collateral_to_back_debt(
                              n, price[1], price[2], SCALE, SCALE),
                          collateral, KeeperBps)
             w == Withdrawn(split.seizes)
             bad == split.bad_debt_gap > 0
  <2>1. /\ loan.state = "Active" /\ now' = now /\ net' = net
        /\ collateral' \in {0, SatSub(collateral, w)}
        /\ loan' = LiquidatedBody(accrue_loan(loan, now), n, ProtocolBps, bad)
    BY <1>3 DEF LiquidateLoan
  <2>2. TypeOK /\ n \in Nat
    BY <2>1, AccruedLoan, SMT DEF IInv, Amounts, Loans
  <2>3. split.seizes \in Nat /\ split.seizes <= collateral
    BY <2>2, LiquidatorSeizes
  <2>4. bad \in BOOLEAN OBVIOUS
  <2> HIDE DEF bad, split
  <2>5. w \in Nat
    BY <2>2, <2>3, WithdrawnFacts
  <2>6. loan'.principal_retired > loan.principal_retired
    BY <2>1, <2>4, PaymentRetires
  <2> HIDE DEF w
  <2> QED BY <1>1, <2>1, <2>5, <2>6, SMT DEF SatSub
<1>4. CASE Tick
  <2>1. collateral' = collateral BY <1>4 DEF Tick
  <2>2. ~\E n \in Amounts : SettleMaturedLoan(n)
    <3>1. now' = now + 1 /\ now \in Nat BY <1>4 DEF Tick, IInv, TypeOK
    <3>2. now' # now BY <3>1, SMT
    <3> QED BY <3>2 DEF SettleMaturedLoan
  <2>3. collateral' <= collateral /\ ~(collateral' < collateral)
    BY <1>1, <2>1, SMT
  <2> QED BY <2>2, <2>3 DEF CollateralStep
<1>5. ASSUME NEW n \in Amounts, Repay(n) PROVE CollateralStep
  <2>1. collateral' = collateral BY <1>5 DEF Repay
  <2>2. collateral' <= collateral /\ ~(collateral' < collateral)
    BY <1>1, <2>1, SMT
  <2> QED BY <1>2, <2>2 DEF CollateralStep
<1>6. ASSUME NEW n \in Amounts, NEW price \in Prices, LiquidateLoan(n, price)
      PROVE  CollateralStep
  BY <1>2, <1>3, <1>6 DEF CollateralStep
<1>7. ASSUME NEW n \in Amounts, SettleMaturedLoan(n) PROVE CollateralStep
  <2>1. loan'.principal_retired > loan.principal_retired
    BY <1>7, PaymentRetires DEF SettleMaturedLoan
  <2> QED BY <1>2, <1>7, <2>1 DEF CollateralStep
<1> QED BY <1>4, <1>5, <1>6, <1>7 DEF Next

\* Collateral leaves an open loan only against debt, at most pro rata when a
\* matured loan is settled.
THEOREM CollateralLeavesAgainstDebtHolds == Spec => CollateralLeavesAgainstDebt
  BY CollateralSteps, InvAlways, PTL DEF Spec, CollateralLeavesAgainstDebt
=============================================================================
