--------------------------- MODULE LoanFixedLemmas ---------------------------
(***************************************************************************)
(* What the operators of LoanFixed and Fp48Math guarantee for every value  *)
(* of their constants: interest and fees are floors of products, so the    *)
(* arithmetic is isolated here and what the state machines' proofs are     *)
(* left with is linear.                                                    *)
(***************************************************************************)
EXTENDS LoanFixed, ArithLemmas

\* The terms of a loan are consistent: rates and fee as the match stamped them.
TermsOK(l) == /\ l.lender_rate <= l.borrower_rate
              /\ l.curator_fee <= BPS_PER_UNIT
              /\ l.started_at <= l.last_accrued

\* Writing one field of a loan keeps it a loan.
LEMMA LoanUpdate ==
    ASSUME NEW l \in Loans, NEW x \in Nat
    PROVE  /\ [l EXCEPT !.outstanding_debt = x] \in Loans
           /\ [l EXCEPT !.lender_claimable = x] \in Loans
           /\ [l EXCEPT !.accumulated_protocol_fee = x] \in Loans
           /\ [l EXCEPT !.accumulated_curator_fee = x] \in Loans
           /\ [l EXCEPT !.principal_retired = x] \in Loans
           /\ [l EXCEPT !.last_accrued = x] \in Loans
           /\ [l EXCEPT !.state = "Repaid"] \in Loans
  BY SMT DEF Loans, LoanStates

-----------------------------------------------------------------------------
(* Interest *)

\* Simple interest is a natural number that never falls with time.
LEMMA CumulativeMonotone ==
    ASSUME NEW l \in Loans, NEW r \in Nat, NEW s \in Nat, NEW t \in Nat, s <= t
    PROVE  /\ cumulative_at(l, r, s) \in Nat
           /\ cumulative_at(l, r, t) \in Nat
           /\ cumulative_at(l, r, s) <= cumulative_at(l, r, t)
<1> DEFINE p == l.principal_debt
           d == BPS_PER_UNIT * SECONDS_PER_YEAR
<1>1. p \in Nat /\ d \in Nat \ {0}
  BY ScaleAssumption, YearAssumption, SMT DEF Loans
<1>2. r * s \in Nat /\ r * t \in Nat /\ r * s <= r * t
  BY SMT
<1>3. p * (r * s) \in Nat /\ p * (r * t) \in Nat /\ p * (r * s) <= p * (r * t)
  <2> HIDE DEF p
  <2> DEFINE x == r * s
             y == r * t
  <2> HIDE DEF x, y
  <2> SUFFICES p * x \in Nat /\ p * y \in Nat /\ p * x <= p * y
    BY DEF x, y
  <2>1. x \in Nat /\ y \in Nat /\ x <= y
    BY <1>2 DEF x, y
  <2> QED BY <1>1, <2>1, SMT
<1>4. /\ cumulative_at(l, r, s) = (p * (r * s)) \div d
      /\ cumulative_at(l, r, t) = (p * (r * t)) \div d
  BY DEF cumulative_at, mul_div
<1> HIDE DEF p, d
<1> QED BY <1>1, <1>3, <1>4, DivFloor, DivMono

\* The curator's cut of the gross interest never falls, and never grows by more
\* than the gross interest does: the lender's net interest never falls either.
LEMMA CuratorCut ==
    ASSUME NEW g \in Nat, NEW h \in Nat, g <= h, NEW f \in Nat, f <= BPS_PER_UNIT
    PROVE  /\ mul_div(g, f, BPS_PER_UNIT) \in Nat
           /\ mul_div(h, f, BPS_PER_UNIT) \in Nat
           /\ mul_div(g, f, BPS_PER_UNIT) <= mul_div(h, f, BPS_PER_UNIT)
           /\ mul_div(h, f, BPS_PER_UNIT) - mul_div(g, f, BPS_PER_UNIT) <= h - g
<1>1. g * f \in Nat /\ h * f \in Nat /\ g * f <= h * f
  BY SMT
<1>2. h * f <= g * f + (h - g) * BPS_PER_UNIT
  BY ScaleAssumption, SMT
<1>3. (h * f) \div BPS_PER_UNIT <= (g * f) \div BPS_PER_UNIT + (h - g)
  <2> DEFINE x == g * f
             y == h * f
             b == BPS_PER_UNIT
             k == h - g
  <2>1. x \in Nat /\ y \in Nat /\ b \in Nat \ {0} /\ k \in Nat /\ y <= x + k * b
    BY <1>1, <1>2, ScaleAssumption, SMT
  <2> SUFFICES y \div b <= x \div b + k OBVIOUS
  <2> HIDE DEF x, y, b, k
  <2> QED BY <2>1, SMT
<1>4. /\ (g * f) \div BPS_PER_UNIT \in Nat /\ (h * f) \div BPS_PER_UNIT \in Nat
      /\ (g * f) \div BPS_PER_UNIT <= (h * f) \div BPS_PER_UNIT
  <2> DEFINE x == g * f
             y == h * f
  <2> HIDE DEF x, y
  <2> SUFFICES /\ x \div BPS_PER_UNIT \in Nat /\ y \div BPS_PER_UNIT \in Nat
               /\ x \div BPS_PER_UNIT <= y \div BPS_PER_UNIT
    BY DEF x, y
  <2> QED BY <1>1, ScaleAssumption, DivFloor, DivMono DEF x, y
<1>5. (h * f) \div BPS_PER_UNIT - (g * f) \div BPS_PER_UNIT <= h - g
  <2> DEFINE x == (g * f) \div BPS_PER_UNIT
             y == (h * f) \div BPS_PER_UNIT
  <2> HIDE DEF x, y
  <2> SUFFICES y - x <= h - g BY DEF x, y
  <2>1. x \in Nat /\ y \in Nat /\ y <= x + (h - g) BY <1>3, <1>4 DEF x, y
  <2> QED BY <2>1, SMT
<1> QED BY <1>4, <1>5 DEF mul_div

\* What accrual needs to know about the cumulative terms.
LEMMA CumFacts ==
    ASSUME NEW l \in Loans, TermsOK(l), NEW s \in Nat, NEW t \in Nat,
           l.started_at <= s, s <= t
    PROVE  /\ CumLenderGross(l, s) \in Nat /\ CumLenderGross(l, t) \in Nat
           /\ CumSpread(l, s) \in Nat      /\ CumSpread(l, t) \in Nat
           /\ CumCurator(l, s) \in Nat     /\ CumCurator(l, t) \in Nat
           /\ CumLenderGross(l, s) <= CumLenderGross(l, t)
           /\ CumSpread(l, s) <= CumSpread(l, t)
           /\ CumCurator(l, s) <= CumCurator(l, t)
           /\ CumCurator(l, t) - CumCurator(l, s)
                <= CumLenderGross(l, t) - CumLenderGross(l, s)
<1>1. /\ Elapsed(l, s) \in Nat /\ Elapsed(l, t) \in Nat
      /\ Elapsed(l, s) <= Elapsed(l, t)
  BY SMT DEF Elapsed, Loans
<1>2. l.lender_rate \in Nat /\ spread(l) \in Nat /\ l.curator_fee \in Nat
      /\ l.curator_fee <= BPS_PER_UNIT
  BY SMT DEF TermsOK, Loans, spread
<1>3. /\ CumLenderGross(l, s) \in Nat /\ CumLenderGross(l, t) \in Nat
      /\ CumLenderGross(l, s) <= CumLenderGross(l, t)
  BY <1>1, <1>2, CumulativeMonotone DEF CumLenderGross
<1>4. /\ CumSpread(l, s) \in Nat /\ CumSpread(l, t) \in Nat
      /\ CumSpread(l, s) <= CumSpread(l, t)
  BY <1>1, <1>2, CumulativeMonotone DEF CumSpread
<1> QED BY <1>2, <1>3, <1>4, CuratorCut DEF CumCurator

\* The cumulative terms only look at the terms of the loan.
LEMMA CumSameTerms ==
    ASSUME NEW l, NEW b, NEW t,
           b.principal_debt = l.principal_debt, b.started_at = l.started_at,
           b.lender_rate = l.lender_rate, b.borrower_rate = l.borrower_rate
    PROVE  /\ CumLenderGross(b, t) = CumLenderGross(l, t)
           /\ CumSpread(b, t) = CumSpread(l, t)
           /\ CumBorrower(b, t) = CumBorrower(l, t)
  BY DEF CumBorrower, CumLenderGross, CumSpread, cumulative_at, spread, Elapsed

-----------------------------------------------------------------------------
(* Accrual *)

\* accrue_loan on an open loan: the debt grows by the interest of the elapsed
\* time, the lender and the curator share the lender-rate part, the protocol
\* takes the spread, nothing else changes.
LEMMA AccrueFacts ==
    ASSUME NEW l \in Loans, TermsOK(l), NEW t \in Nat, l.last_accrued <= t,
           l.state = "Active", l.outstanding_debt > 0
    PROVE  LET a == accrue_loan(l, t)
               s == l.last_accrued
           IN  /\ a \in Loans
               /\ TermsOK(a)
               /\ a.last_accrued = t
               /\ a.state = "Active"
               /\ a.principal_retired = l.principal_retired
               /\ a.started_at = l.started_at
               /\ a.principal_debt = l.principal_debt
               /\ a.lender_rate = l.lender_rate
               /\ a.borrower_rate = l.borrower_rate
               /\ a.curator_fee = l.curator_fee
               /\ a.outstanding_debt - l.outstanding_debt
                    = CumBorrower(l, t) - CumBorrower(l, s)
               /\ a.outstanding_debt > 0
               /\ a.lender_claimable + a.accumulated_curator_fee
                    - (l.lender_claimable + l.accumulated_curator_fee)
                    = CumLenderGross(l, t) - CumLenderGross(l, s)
               /\ a.accumulated_protocol_fee - l.accumulated_protocol_fee
                    = CumSpread(l, t) - CumSpread(l, s)
<1> DEFINE a  == accrue_loan(l, t)
           s  == l.last_accrued
           G1 == CumLenderGross(l, s)
           G2 == CumLenderGross(l, t)
           S1 == CumSpread(l, s)
           S2 == CumSpread(l, t)
           C1 == CumCurator(l, s)
           C2 == CumCurator(l, t)
<1>1. /\ G1 \in Nat /\ G2 \in Nat /\ S1 \in Nat /\ S2 \in Nat /\ C1 \in Nat /\ C2 \in Nat
      /\ G1 <= G2 /\ S1 <= S2 /\ C1 <= C2 /\ C2 - C1 <= G2 - G1
  BY CumFacts DEF Loans, TermsOK
<1>2. CumBorrower(l, t) = G2 + S2 /\ CumBorrower(l, s) = G1 + S1
  BY DEF CumBorrower
<1>3. CASE t = s
  <2>1. a = l BY <1>3 DEF accrue_loan
  <2> HIDE DEF a
  <2>2. a.outstanding_debt - l.outstanding_debt = 0
    BY <2>1, SMT DEF Loans
  <2>3. a.lender_claimable + a.accumulated_curator_fee
           - (l.lender_claimable + l.accumulated_curator_fee) = 0
    BY <2>1, SMT DEF Loans
  <2>4. a.accumulated_protocol_fee - l.accumulated_protocol_fee = 0
    BY <2>1, SMT DEF Loans
  <2>5. G2 - G1 = 0 /\ S2 - S1 = 0 /\ (G2 + S2) - (G1 + S1) = 0
    <3>1. G2 = G1 /\ S2 = S1 BY <1>3
    <3> HIDE DEF G1, G2, S1, S2
    <3> QED BY <1>1, <3>1, SMT
  <2>6. /\ a \in Loans
        /\ TermsOK(a)
        /\ a.last_accrued = t
        /\ a.state = "Active"
        /\ a.outstanding_debt > 0
    BY <1>3, <2>1
  <2> QED BY <1>2, <2>1, <2>2, <2>3, <2>4, <2>5, <2>6, Zenon DEF a
<1>4. CASE t # s
  <2> DEFINE o == l.outstanding_debt + (G2 - G1) + (S2 - S1)
             c == l.lender_claimable + ((G2 - G1) - (C2 - C1))
             q == l.accumulated_curator_fee + (C2 - C1)
             f == l.accumulated_protocol_fee + (S2 - S1)
  <2>1. a = [l EXCEPT !.outstanding_debt         = o,
                      !.lender_claimable         = c,
                      !.accumulated_curator_fee  = q,
                      !.accumulated_protocol_fee = f,
                      !.last_accrued             = t]
    BY <1>4, SMT DEF accrue_loan, Loans
  <2> HIDE DEF a, G1, G2, S1, S2, C1, C2
  <2>2. o \in Nat /\ c \in Nat /\ q \in Nat /\ f \in Nat /\ o > 0
    BY <1>1, SMT DEF Loans
  <2>3. /\ o - l.outstanding_debt = (G2 + S2) - (G1 + S1)
        /\ c + q - (l.lender_claimable + l.accumulated_curator_fee) = G2 - G1
        /\ f - l.accumulated_protocol_fee = S2 - S1
    BY <1>1, SMT DEF Loans
  <2> HIDE DEF o, c, q, f
  <2>4. a \in Loans
    BY <2>1, <2>2, LoanUpdate, Zenon
  <2>5. /\ a.last_accrued = t
        /\ a.state = l.state
        /\ a.principal_retired = l.principal_retired
        /\ a.started_at = l.started_at
        /\ a.principal_debt = l.principal_debt
        /\ a.lender_rate = l.lender_rate
        /\ a.borrower_rate = l.borrower_rate
        /\ a.curator_fee = l.curator_fee
    BY <2>1, SMT DEF Loans
  <2>6. /\ a.outstanding_debt = o
        /\ a.lender_claimable = c
        /\ a.accumulated_curator_fee = q
        /\ a.accumulated_protocol_fee = f
    BY <2>1, SMT DEF Loans
  <2>7. TermsOK(a)
    BY <2>5, SMT DEF TermsOK, Loans
  <2> QED BY <1>2, <2>2, <2>3, <2>4, <2>5, <2>6, <2>7, Zenon DEF a, G1, G2, S1, S2
<1> QED BY <1>3, <1>4

-----------------------------------------------------------------------------
(* Payments *)

\* The fields no payment touches.
SameTerms(l, b) ==
    /\ b.principal_debt = l.principal_debt
    /\ b.started_at = l.started_at
    /\ b.last_accrued = l.last_accrued
    /\ b.lender_rate = l.lender_rate
    /\ b.borrower_rate = l.borrower_rate
    /\ b.curator_fee = l.curator_fee

\* b is l after a payment of n: the claims are only redistributed, never towards
\* the lender and the curator.
PaysDown(l, b, n) ==
    /\ b \in Loans
    /\ SameTerms(l, b)
    /\ b.outstanding_debt = l.outstanding_debt - n
    /\ b.principal_retired = l.principal_retired + n
    /\ b.lender_claimable + b.accumulated_curator_fee
          <= l.lender_claimable + l.accumulated_curator_fee
    /\ b.accumulated_protocol_fee >= l.accumulated_protocol_fee
    /\ ClaimSide(b) = ClaimSide(l)

\* apply_partial_resolution moves the payment from owed to retired, nothing else.
LEMMA ResolutionPays ==
    ASSUME NEW l \in Loans, NEW n \in Nat, n <= l.outstanding_debt
    PROVE  /\ PaysDown(l, apply_partial_resolution(l, n), n)
           /\ apply_partial_resolution(l, n).state = l.state
<1> DEFINE o == l.outstanding_debt - n
           p == l.principal_retired + n
           b == [l EXCEPT !.outstanding_debt = o, !.principal_retired = p]
<1>1. apply_partial_resolution(l, n) = b
  BY SMT DEF apply_partial_resolution, Loans
<1>2. o \in Nat /\ p \in Nat
  BY SMT DEF Loans
<1>3. b \in Loans
  <2> HIDE DEF o, p
  <2> QED BY <1>2, LoanUpdate, Zenon
<1>4. /\ SameTerms(l, b) /\ b.state = l.state
      /\ b.outstanding_debt = o /\ b.principal_retired = p
      /\ b.lender_claimable = l.lender_claimable
      /\ b.accumulated_curator_fee = l.accumulated_curator_fee
      /\ b.accumulated_protocol_fee = l.accumulated_protocol_fee
  BY SMT DEF SameTerms, Loans
<1> HIDE DEF b
<1> QED BY <1>1, <1>3, <1>4, SMT DEF PaysDown, ClaimSide, Loans

\* The liquidation fee is taken out of the lender's claim, never beyond it.
LEMMA FeeRedistributes ==
    ASSUME NEW l \in Loans, NEW m \in Loans, NEW n \in Nat, NEW bps \in Nat,
           PaysDown(l, m, n)
    PROVE  /\ PaysDown(l, TakeProtocolFee(m, n, bps), n)
           /\ TakeProtocolFee(m, n, bps).state = m.state
<1> DEFINE fee == MinOf(mul_div(n, bps, BPS_PER_UNIT), m.lender_claimable)
           c == m.lender_claimable - fee
           f == m.accumulated_protocol_fee + fee
           b == [m EXCEPT !.lender_claimable = c, !.accumulated_protocol_fee = f]
<1>1. fee \in Nat /\ fee <= m.lender_claimable
  <2>1. n * bps \in Nat BY SMT
  <2>2. mul_div(n, bps, BPS_PER_UNIT) \in Nat
    BY <2>1, ScaleAssumption, DivFloor DEF mul_div
  <2> QED BY <2>2, SMT DEF MinOf, Loans
<1>2. TakeProtocolFee(m, n, bps) = b
  BY SMT DEF TakeProtocolFee, Loans
<1> HIDE DEF fee
<1>3. c \in Nat /\ f \in Nat
  BY <1>1, SMT DEF Loans
<1>4. b \in Loans
  <2> HIDE DEF c, f
  <2> QED BY <1>3, LoanUpdate, Zenon
<1>5. /\ SameTerms(m, b) /\ b.state = m.state
      /\ b.outstanding_debt = m.outstanding_debt
      /\ b.principal_retired = m.principal_retired
      /\ b.lender_claimable = c
      /\ b.accumulated_curator_fee = m.accumulated_curator_fee
      /\ b.accumulated_protocol_fee = f
  BY SMT DEF SameTerms, Loans
<1> HIDE DEF b
<1>6. SameTerms(l, b) BY <1>5 DEF SameTerms, PaysDown
<1> QED BY <1>1, <1>2, <1>3, <1>4, <1>5, <1>6, SMT DEF PaysDown, ClaimSide, Loans

\* The curator clawback keeps the lender side of the claims as it is.
LEMMA ClawbackRedistributes ==
    ASSUME NEW l \in Loans, NEW m \in Loans, NEW n \in Nat, PaysDown(l, m, n)
    PROVE  /\ PaysDown(l, ClawbackCurator(m), n)
           /\ ClawbackCurator(m).state = m.state
<1> DEFINE c == m.lender_claimable + m.accumulated_curator_fee
           b == [m EXCEPT !.lender_claimable = c, !.accumulated_curator_fee = 0]
<1>1. ClawbackCurator(m) = b
  BY SMT DEF ClawbackCurator, Loans
<1>2. c \in Nat
  BY SMT DEF Loans
<1>3. b \in Loans
  <2> HIDE DEF c
  <2> QED BY <1>2, LoanUpdate, Zenon
<1>4. /\ SameTerms(m, b) /\ b.state = m.state
      /\ b.outstanding_debt = m.outstanding_debt
      /\ b.principal_retired = m.principal_retired
      /\ b.lender_claimable = c
      /\ b.accumulated_curator_fee = 0
      /\ b.accumulated_protocol_fee = m.accumulated_protocol_fee
  BY SMT DEF SameTerms, Loans
<1> HIDE DEF b
<1>5. SameTerms(l, b) BY <1>4 DEF SameTerms, PaysDown
<1> QED BY <1>1, <1>3, <1>4, <1>5, SMT DEF PaysDown, ClaimSide, Loans

\* Closing changes the state only, exactly when nothing is owed.
LEMMA CloseIfPaidCloses ==
    ASSUME NEW l \in Loans, NEW m \in Loans, NEW n \in Nat, PaysDown(l, m, n),
           m.state = "Active"
    PROVE  /\ PaysDown(l, CloseIfPaid(m), n)
           /\ (CloseIfPaid(m).state = "Repaid") <=> (CloseIfPaid(m).outstanding_debt = 0)
<1>1. CASE m.outstanding_debt = 0
  <2> DEFINE b == [m EXCEPT !.state = "Repaid"]
  <2>1. CloseIfPaid(m) = b BY <1>1 DEF CloseIfPaid
  <2>2. b \in Loans BY LoanUpdate
  <2>3. /\ SameTerms(m, b) /\ b.state = "Repaid"
        /\ b.outstanding_debt = m.outstanding_debt
        /\ b.principal_retired = m.principal_retired
        /\ b.lender_claimable = m.lender_claimable
        /\ b.accumulated_curator_fee = m.accumulated_curator_fee
        /\ b.accumulated_protocol_fee = m.accumulated_protocol_fee
    BY SMT DEF SameTerms, Loans
  <2> HIDE DEF b
  <2>4. SameTerms(l, b) BY <2>3 DEF SameTerms, PaysDown
  <2> QED BY <1>1, <2>1, <2>2, <2>3, <2>4, SMT DEF PaysDown, ClaimSide, Loans
<1>2. CASE m.outstanding_debt # 0
  BY <1>2 DEF CloseIfPaid
<1> QED BY <1>1, <1>2

\* The three closing handlers all pay the loan down by what was paid.
LEMMA BodiesPay ==
    ASSUME NEW l \in Loans, NEW n \in Nat, n <= l.outstanding_debt,
           l.state = "Active", NEW bps \in Nat, NEW bad \in BOOLEAN,
           NEW b \in {RepaidBody(l, n), SettledBody(l, n, bps), LiquidatedBody(l, n, bps, bad)}
    PROVE  /\ PaysDown(l, b, n)
           /\ (b.state = "Repaid") <=> (b.outstanding_debt = 0)
<1> DEFINE r == apply_partial_resolution(l, n)
           f == TakeProtocolFee(r, n, bps)
           k == ClawbackCurator(f)
<1>1. PaysDown(l, r, n) /\ r.state = "Active" /\ r \in Loans
  BY ResolutionPays DEF PaysDown
<1>2. PaysDown(l, f, n) /\ f.state = "Active" /\ f \in Loans
  BY <1>1, FeeRedistributes DEF PaysDown
<1>3. PaysDown(l, k, n) /\ k.state = "Active" /\ k \in Loans
  BY <1>2, ClawbackRedistributes DEF PaysDown
<1>4. RepaidBody(l, n) = CloseIfPaid(r) BY DEF RepaidBody
<1>5. SettledBody(l, n, bps) = CloseIfPaid(f) BY DEF SettledBody
<1>6. LiquidatedBody(l, n, bps, bad) \in {CloseIfPaid(f), CloseIfPaid(k)}
  BY DEF LiquidatedBody
<1> HIDE DEF r, f, k
<1>7. b \in {CloseIfPaid(r), CloseIfPaid(f), CloseIfPaid(k)}
  BY <1>4, <1>5, <1>6
<1> QED BY <1>1, <1>2, <1>3, <1>7, CloseIfPaidCloses

=============================================================================
