--------------------------- MODULE LoanLifecycle ----------------------------
(***************************************************************************)
(* One fixed-rate loan from promotion to close: its body, the collateral   *)
(* behind it and the borrower's seat in the market.  Time passes, oracle   *)
(* prices move, and the borrower (repay), a liquidator (liquidate_loan)    *)
(* and a maturity keeper (settle_matured_loan) pay it down in any order,   *)
(* each accruing the loan first.  The lender's side of the same three      *)
(* instructions (sub-vault ledger, lender seat, lender account) is         *)
(* SubVaultLedger.                                                         *)
(***************************************************************************)
EXTENDS LoanFixed, Ltv

CONSTANTS
    Principals,        \* gross principals a match may have
    LenderRates,       \* ask rates (bps)
    Spreads,           \* borrower rate minus lender rate (bps)
    CuratorFees,       \* curator fee snapshots (bps)
    Collaterals,       \* collateral atoms of the loan
    Prices,            \* <<debt price, collateral price>> the oracles may report
    ShareValues,       \* collateral bank share values, current and snapshot
    OriginationBps,    \* fee_config.origination_bps
    ProtocolBps,       \* fee_config.liquidation_protocol_bps
    KeeperBps,         \* fee_config.liquidation_keeper_bps
    LiquidationLtv,    \* the loan's stamped liquidation_ltv_bps
    Term,              \* term_seconds
    GracePeriod,       \* fee_config.grace_period_seconds
    MinPartialRepay,   \* MIN_PARTIAL_REPAY_FLOOR_ATOMS
    MaxTime            \* bound: the clock stops here

ASSUME LifecycleAssumption ==
    /\ Principals \subseteq Nat \ {0}
    /\ LenderRates \subseteq Nat
    /\ Spreads \subseteq Nat
    /\ CuratorFees \subseteq 0..BPS_PER_UNIT
    /\ Collaterals \subseteq Nat \ {0}
    /\ Prices \subseteq (Nat \ {0}) \X (Nat \ {0})
    /\ ShareValues \subseteq Nat \ {0}
    /\ OriginationBps \in 0..BPS_PER_UNIT
    /\ ProtocolBps \in 0..BPS_PER_UNIT
    /\ KeeperBps \in 0..BPS_PER_UNIT
    /\ LiquidationLtv \in Nat
    /\ Term \in Nat /\ GracePeriod \in Nat
    /\ MinPartialRepay \in Nat
    /\ MaxTime \in Nat

VARIABLES
    now,          \* Clock::unix_timestamp
    loan,         \* the LoanFixed account (LoanFixed!Loans)
    collateral,   \* loan.collateral_atoms
    net,          \* net principal at promotion, never written again
    snapshot,     \* borrower_collateral_share_price_snapshot, never written again
    shareValue,   \* the collateral bank's asset_share_value now
    seat,         \* borrower's ClaimedSeat: collateral buckets and loan counter
    account       \* shares on the borrower's marginfi collateral account

vars == <<now, loan, collateral, net, snapshot, shareValue, seat, account>>

Seats == [ collateral_encumbered   : Nat,
           collateral_withdrawable : Nat,
           open_borrow_count       : Nat ]

TypeOK ==
    /\ now \in Nat
    /\ loan \in Loans
    /\ collateral \in Nat
    /\ net \in Nat
    /\ snapshot \in ShareValues
    /\ shareValue \in ShareValues
    /\ seat \in Seats
    /\ account \in Nat

-----------------------------------------------------------------------------
\* The state process_matched_loan leaves: one active loan whose collateral the
\* match encumbered on the borrower's seat at the snapshot share value.
Init ==
    /\ now = 0
    /\ \E p \in Principals, r \in LenderRates, s \in Spreads, f \in CuratorFees :
         /\ net = net_principal(p, mul_div(p, OriginationBps, BPS_PER_UNIT))
         /\ net > 0
         /\ loan = new_from_matched_loan_with_lender(p, net, r, r + s, f, 0)
    /\ collateral \in Collaterals
    /\ snapshot \in ShareValues
    /\ shareValue = snapshot
    /\ seat = [ collateral_encumbered   |-> amount_to_asset_shares(collateral, snapshot),
                collateral_withdrawable |-> 0,
                open_borrow_count       |-> 1 ]
    /\ account = amount_to_asset_shares(collateral, snapshot)

\* Time passes; the collateral bank's share value may grow with it.
Tick ==
    /\ now < MaxTime
    /\ now' = now + 1
    /\ shareValue' \in {v \in ShareValues : v >= shareValue}
    /\ UNCHANGED <<loan, collateral, net, snapshot, seat, account>>

-----------------------------------------------------------------------------
\* Shares the loan's remaining collateral stands for on the seat.
CollateralShares(atoms) == amount_to_asset_shares(atoms, snapshot)

\* market_helpers::release_loan_collateral
release_loan_collateral(s, shares) ==
    [s EXCEPT !.collateral_encumbered   = @ - shares,
              !.collateral_withdrawable = @ + shares]

ReleaseAllowed(s, shares) == s.collateral_encumbered >= shares

RetireBorrow(s) == [s EXCEPT !.open_borrow_count = SatSub(@, 1)]

\* repay, fixed-rate path.  The borrower pays any amount up to the accrued
\* outstanding; the payment that clears it releases the collateral.
Repay(amount) ==
    LET accrued == accrue_loan(loan, now)
        after   == RepaidBody(accrued, amount)
        full    == after.outstanding_debt = 0
    IN  /\ loan.state = "Active"
        /\ CanResolve(accrued, amount)
        /\ (full /\ collateral > 0) => ReleaseAllowed(seat, CollateralShares(collateral))
        /\ loan' = after
        /\ seat' = IF ~full THEN seat
                   ELSE RetireBorrow(release_loan_collateral(seat, CollateralShares(collateral)))
        /\ UNCHANGED <<now, collateral, net, snapshot, shareValue, account>>

\* Collateral taken out of the borrower's marginfi account for the keeper:
\* the atoms asked for become shares and come back as atoms, both rounded down.
Withdrawn(atoms) ==
    shares_to_amount(amount_to_asset_shares(atoms, shareValue), shareValue)

Burned(atoms) == amount_to_asset_shares(Withdrawn(atoms), shareValue)

\* Mutant: a partial liquidation releases the whole encumbrance.
MUT_LiquidatedSeat_releases_all(withdrawn, full) ==
    LET freed == [seat EXCEPT !.collateral_encumbered =
                                  SatSub(@, CollateralShares(collateral))]
    IN  IF full
        THEN RetireBorrow([freed EXCEPT !.collateral_withdrawable =
                     @ + CollateralShares(SatSub(collateral, withdrawn))])
        ELSE freed

\* Mutant: the seized atoms are returned to the borrower as well.
MUT_LiquidatedSeat_returns_all(withdrawn, full) ==
    LET release == CollateralShares(IF full THEN collateral ELSE withdrawn)
        freed   == [seat EXCEPT !.collateral_encumbered = SatSub(@, release)]
    IN  IF full
        THEN RetireBorrow([freed EXCEPT !.collateral_withdrawable =
                                            @ + CollateralShares(collateral)])
        ELSE freed

\* The seat after a liquidation: the whole encumbrance goes on a full repay and
\* what was not seized returns; a partial one releases what was withdrawn.
LiquidatedSeat(withdrawn, full) ==
    LET surplus == SatSub(collateral, withdrawn)
        release == CollateralShares(IF full THEN collateral ELSE withdrawn)
        freed   == [seat EXCEPT !.collateral_encumbered = SatSub(@, release)]
    IN  IF full
        THEN RetireBorrow([freed EXCEPT !.collateral_withdrawable =
                                            @ + CollateralShares(surplus)])
        ELSE freed

\* liquidate_loan, fixed-rate path.
LiquidateLoan(amount, price) ==
    LET accrued   == accrue_loan(loan, now)
        owed      == accrued.outstanding_debt
        full      == amount = owed
        value     == get_required_quote_collateral_to_back_debt(
                         amount, price[1], price[2], SCALE, SCALE)
        split     == compute_collateral_split(value, collateral, KeeperBps)
        withdrawn == Withdrawn(split.seizes)
    IN  /\ loan.state = "Active"
        /\ ltv_breached(owed, collateral, LiquidationLtv, price[1], price[2])
        /\ PartialAllowed(owed, amount, MinPartialRepay)
        /\ CanResolve(accrued, amount)
        /\ Burned(split.seizes) <= account
        /\ loan' = LiquidatedBody(accrued, amount, ProtocolBps, split.bad_debt_gap > 0)
        /\ collateral' = IF full THEN 0 ELSE SatSub(collateral, withdrawn)
        /\ seat' = LiquidatedSeat(withdrawn, full)
        /\ account' = account - Burned(split.seizes)
        /\ UNCHANGED <<now, net, snapshot, shareValue>>

\* Mutant: the pro-rata share is rounded up.
MUT_SettleSeizes_ceil(amount, owed) ==
    MinOf(collateral, mul_div(collateral, amount, owed) + 1)

\* The keeper's collateral: all of it on a full repay, else pro rata.
SettleSeizes(amount, owed) ==
    IF amount = owed THEN collateral ELSE mul_div(collateral, amount, owed)

\* The seat after a settlement is touched only when atoms were withdrawn.
SettledSeat(withdrawn, full) ==
    LET freed == [seat EXCEPT !.collateral_encumbered =
                                  SatSub(@, CollateralShares(withdrawn))]
    IN  IF withdrawn = 0 THEN seat
        ELSE IF full THEN RetireBorrow(freed) ELSE freed

\* settle_matured_loan, fixed-rate path: only after maturity and grace.
SettleMaturedLoan(amount) ==
    LET accrued   == accrue_loan(loan, now)
        owed      == accrued.outstanding_debt
        full      == amount = owed
        seizes    == SettleSeizes(amount, owed)
        withdrawn == Withdrawn(seizes)
    IN  /\ loan.state = "Active"
        /\ now > loan.started_at + Term + GracePeriod
        /\ PartialAllowed(owed, amount, MinPartialRepay)
        /\ CanResolve(accrued, amount)
        /\ Burned(seizes) <= account
        /\ loan' = SettledBody(accrued, amount, ProtocolBps)
        /\ collateral' = IF full THEN 0 ELSE SatSub(collateral, withdrawn)
        /\ seat' = SettledSeat(withdrawn, full)
        /\ account' = account - Burned(seizes)
        /\ UNCHANGED <<now, net, snapshot, shareValue>>

Amounts == 1..accrue_loan(loan, now).outstanding_debt

Next ==
    \/ Tick
    \/ \E amount \in Amounts :
         \/ Repay(amount)
         \/ \E price \in Prices : LiquidateLoan(amount, price)
         \/ SettleMaturedLoan(amount)

Spec == Init /\ [][Next]_vars

-----------------------------------------------------------------------------
(* Properties *)

\* Whatever the order of payments, liquidations and settlements, what the
\* lender, the protocol and the curator may claim is exactly what has been paid
\* plus what is still owed, as stored and as the next handler finds it after
\* accruing: assert_loan_conservation never refuses a payment.
LoanConservation ==
    /\ Conserved(loan)
    /\ loan.state = "Active" => Conserved(accrue_loan(loan, now))

\* accrue_loan is path independent: however often and whenever it ran, the debt
\* ever charged is the net principal plus simple interest on the gross principal.
DebtPathIndependent == OwedSide(loan) = net + CumBorrower(loan, loan.last_accrued)

\* No interleaving credits the lender side (lender and curator) with more than
\* principal and lender-rate interest, and the protocol always gets its spread.
FeeSplitRespected ==
    /\ loan.lender_claimable + loan.accumulated_curator_fee
          <= net + CumLenderGross(loan, loan.last_accrued)
    /\ loan.accumulated_protocol_fee >= CumSpread(loan, loan.last_accrued)

\* A loan is closed exactly when nothing is owed, so no closed loan can be paid
\* again and no paid loan stays open.
ClosedIffPaid == (loan.state = "Repaid") <=> (loan.outstanding_debt = 0)

\* While the loan is open the seat encumbers at least the loan's remaining
\* collateral: release_loan_collateral's hard error can never block a repay,
\* whatever the partial seizures before it rounded.
EncumbranceCoversLoan ==
    loan.state = "Active" =>
        seat.collateral_encumbered >= CollateralShares(collateral)

\* The shares the seat shows (locked or free) are really on the borrower's
\* marginfi account, after any sequence of seizures at grown share values.
SeatBackedByAccount ==
    account >= seat.collateral_encumbered + seat.collateral_withdrawable

\* A full payment is refused (checked_sub in apply_partial_resolution) only for
\* dust: when the lender's share of the residual debt is below one atom.
FullRepayRefusedOnlyForDust ==
    LET accrued == accrue_loan(loan, now)
    IN  (loan.state = "Active" /\ ~CanResolve(accrued, accrued.outstanding_debt))
          => accrued.outstanding_debt * accrued.lender_claimable < ClaimSide(accrued)

CollateralStep ==
    LET owed == accrue_loan(loan, now).outstanding_debt
    IN  /\ collateral' <= collateral
        /\ collateral' < collateral =>
               loan'.principal_retired > loan.principal_retired
        /\ (\E amount \in Amounts : SettleMaturedLoan(amount)) =>
               collateral' * owed >= collateral * loan'.outstanding_debt

\* Collateral leaves the loan only against debt: it never comes back, it shrinks
\* only in a step that pays, and a maturity settlement, partial or not, leaves
\* the remaining debt at least as well collateralised as it found it.
CollateralLeavesAgainstDebt == [][CollateralStep]_vars

=============================================================================
