------------------------------- MODULE P2Pool -------------------------------
(***************************************************************************)
(* Loans taken from the marginfi pool (P2Pool) on top of OrderBook: their  *)
(* repayment, liquidation and settlement, and the conversion that moves    *)
(* one to fixed-rate loans of the sub-vaults.                              *)
(*                                                                         *)
(* All pool loans of a market share ONE marginfi account.  Each loan       *)
(* records the liability shares it borrowed; an instruction pays marginfi  *)
(* whole atoms, reads how many shares the ACCOUNT lost and takes those off *)
(* its own loan.  Which loan a share belongs to is only this bookkeeping.  *)
(***************************************************************************)
EXTENDS OrderBook

CONSTANTS
    GracePeriod,       \* fee_config.grace_period_seconds
    KeeperBps,         \* fee_config.liquidation_keeper_bps
    MinPartialRepay,   \* MIN_PARTIAL_REPAY_FLOOR_ATOMS, 1_000 in the program
    DebtWeightMaint,   \* marginfi liability_weight_maint of the debt bank
    CollWeightMaint,   \* marginfi asset_weight_maint of the collateral bank
    RepayAmounts,      \* atoms a borrower or keeper may choose to pay
    Refinances         \* convert_p2pool_to_fixed parameters: rate cap and buffer

\* A share is worth one atom at first and grows by interest: it stays below SCALE atoms.
ASSUME PoolAssumption ==
    /\ GracePeriod \in Nat /\ KeeperBps \in Nat /\ MinPartialRepay \in Nat
    /\ DebtWeightMaint \in Nat \ {0} /\ CollWeightMaint \in Nat \ {0}
    /\ RepayAmounts \subseteq Nat /\ Refinances \subseteq [rate : Nat, buffer : Nat]
    /\ \A w \in Worlds : w.lsv <= SCALE * SCALE

PoolLoans == {l \in loans : l.lender = NIL}

-----------------------------------------------------------------------------
(* One loan's part of the shared account *)

liability_shares_to_atoms_ceil(shares) == from_scaled_ceil(mul_scale(shares, world.lsv))

liability_shares_to_atoms_floor(shares) == shares_to_amount(shares, world.lsv)

\* Recorded shares, clamped to what the account really owes.
ThisLoanShares(l) == MinOf(l.shares, account.liability)

loan_live_outstanding_atoms(l) == liability_shares_to_atoms_ceil(ThisLoanShares(l))

\* Shares the account loses when marginfi is paid atoms; repay_all clears it.
marginfi_repay(atoms, repay_all) ==
    IF repay_all THEN account.liability
    ELSE MinOf(amount_to_asset_shares(atoms, world.lsv), account.liability)

\* Up to one atom left is marginfi's rounding: the loan counts as paid.
DidFullRepay(shares) == liability_shares_to_atoms_floor(shares) <= 1

PartialAllowed(outstanding, repaid) ==
    \/ repaid = outstanding
    \/ outstanding >= MinPartialRepay
       /\ repaid >= MaxOf(outstanding \div 100, MinPartialRepay)

SnapshotShares(l, atoms) == amount_to_asset_shares(atoms, l.snapshot)

CloseBorrow(seat) == [seat EXCEPT !.open_borrow = SatSub(@, 1)]

\* A loan of b ends: its shares are free again and it no longer counts.
ClosedSeats(seats, b, shares) ==
    [unencumber_for_order(seats, b, shares) EXCEPT ![b] = CloseBorrow(@)]

-----------------------------------------------------------------------------
(* Repayment by the borrower *)

\* Mutant: every full repayment clears the account, whoever else borrows from it.
MUT_UsesRepayAll_always(shares, full) == full

\* repay_all is only for the loan that is the whole account.
UsesRepayAll(shares, full) == full /\ shares = account.liability

RepayPool(l, atoms, full_repay) ==
    LET b      == l.borrower
        shares == ThisLoanShares(l)
        live   == loan_live_outstanding_atoms(l)
        repaid == IF full_repay THEN live ELSE atoms
        burned == marginfi_repay(repaid, UsesRepayAll(shares, full_repay))
        post   == SatSub(shares, burned)
    IN  /\ shares > 0
        /\ repaid \in 1..live
        /\ account' = [account EXCEPT !.liability = @ - burned]
        /\ \/ /\ DidFullRepay(post)
              /\ market.seats[b].encumbered >= LoanShares(l)
              /\ market' = [market EXCEPT !.seats = ClosedSeats(@, b, LoanShares(l))]
              /\ loans' = loans \ {l}
           \/ /\ ~DidFullRepay(post)
              /\ loans' = (loans \ {l}) \cup {[l EXCEPT !.shares = post]}
              /\ UNCHANGED market
        /\ UNCHANGED <<now, world, vault, refs>>

-----------------------------------------------------------------------------
(* Keepers: liquidation and settlement *)

\* What a keeper takes in tokens: whole atoms of the seized shares at today's value.
Withdrawn(atoms) == shares_to_amount(amount_to_asset_shares(atoms, world.asv), world.asv)

\* The account pays the keeper's atoms and loses the shares that were repaid.
AccountAfter(burned, withdrawn) ==
    [ collateral |-> account.collateral - amount_to_asset_shares(withdrawn, world.asv),
      liability  |-> account.liability - burned ]

LoansAfter(l, post, withdrawn) ==
    (loans \ {l}) \cup
        IF DidFullRepay(post) THEN {}
        ELSE {[l EXCEPT !.shares = post, !.collateral = SatSub(@, withdrawn)]}

KeeperPays(max_atoms, live) == IF max_atoms = 0 THEN live ELSE MinOf(max_atoms, live)

\* assert_ltv_breach of a pool loan: marginfi's maintenance weights decide.
PoolBreach(l, live) ==
    /\ live > 0 /\ l.collateral > 0
    /\ l.collateral < get_required_quote_collateral_to_back_debt(
           live, world.debt_price, world.coll_price, DebtWeightMaint, CollWeightMaint)

LiquidationSeizes(l, repaid) ==
    compute_collateral_split(
        get_required_quote_collateral_to_back_debt(
            repaid, world.debt_price, world.coll_price, SCALE, SCALE),
        l.collateral, KeeperBps).seizes

\* Mutant: a full liquidation credits the collateral the keeper took as well.
MUT_LiquidatedSeat_credits_seizure(seat, l, withdrawn, full) ==
    LET released == SnapshotShares(l, IF full THEN l.collateral ELSE withdrawn)
        after    == [seat EXCEPT !.encumbered = SatSub(@, released)]
    IN  IF full THEN CloseBorrow([after EXCEPT !.withdrawable = @ + released]) ELSE after

\* A close releases all of the loan's collateral and credits what the keeper left.
LiquidatedSeat(seat, l, withdrawn, full) ==
    LET released == SnapshotShares(l, IF full THEN l.collateral ELSE withdrawn)
        surplus  == SnapshotShares(l, SatSub(l.collateral, withdrawn))
        after    == [seat EXCEPT !.encumbered = SatSub(@, released)]
    IN  IF full THEN CloseBorrow([after EXCEPT !.withdrawable = @ + surplus]) ELSE after

LiquidatePool(l, max_atoms) ==
    LET live      == loan_live_outstanding_atoms(l)
        repaid    == KeeperPays(max_atoms, live)
        withdrawn == Withdrawn(LiquidationSeizes(l, repaid))
        burned    == marginfi_repay(repaid, UsesRepayAll(l.shares, repaid = live))
        post      == SatSub(l.shares, burned)
    IN  /\ PoolBreach(l, live)
        /\ repaid > 0
        /\ PartialAllowed(live, repaid)
        /\ account' = AccountAfter(burned, withdrawn)
        /\ market' = [market EXCEPT !.seats[l.borrower] =
               LiquidatedSeat(@, l, withdrawn, DidFullRepay(post))]
        /\ loans' = LoansAfter(l, post, withdrawn)
        /\ UNCHANGED <<now, world, vault, refs>>

PastGracePeriod(l) == now > l.matures + GracePeriod

\* The seat follows the tokens: without a withdrawal neither balance nor count moves.
SettledSeat(seat, l, withdrawn, full) ==
    LET after == [seat EXCEPT !.encumbered = SatSub(@, SnapshotShares(l, withdrawn))]
    IN  IF withdrawn = 0 THEN seat ELSE IF full THEN CloseBorrow(after) ELSE after

\* The whole collateral for the whole debt, otherwise pro rata, without a bonus.
SettlePool(l, max_atoms) ==
    LET live      == loan_live_outstanding_atoms(l)
        repaid    == KeeperPays(max_atoms, live)
        seized    == IF repaid = live THEN l.collateral ELSE mul_div(l.collateral, repaid, live)
        withdrawn == Withdrawn(seized)
        burned    == marginfi_repay(repaid, UsesRepayAll(l.shares, repaid = live))
        post      == SatSub(l.shares, burned)
    IN  /\ PastGracePeriod(l)
        /\ repaid > 0
        /\ PartialAllowed(live, repaid)
        /\ account' = AccountAfter(burned, withdrawn)
        /\ market' = [market EXCEPT !.seats[l.borrower] =
               SettledSeat(@, l, withdrawn, DidFullRepay(post))]
        /\ loans' = LoansAfter(l, post, withdrawn)
        /\ UNCHANGED <<now, world, vault, refs>>

-----------------------------------------------------------------------------
(* Conversion to fixed-rate loans *)

\* Mutant: the refinancing walk forgets that a curator may not borrow from its own vault.
MUT_refinance_ask_own_vault(l, live, terms, acc, ask) ==
    LET sub        == acc.vault[ask.trader]
        fill       == MinOf(acc.principal, sub_vault_idle(sub))
        collateral == mul_div(l.collateral, fill, live)
        remaining  == l.matures - now
        taker      == [borrower |-> l.borrower, collateral |-> collateral,
                       rate |-> terms.rate, term |-> remaining, buffer |-> terms.buffer,
                       snapshot |-> l.snapshot, matures |-> l.matures]
    IN  IF acc.stop \/ acc.principal = 0 \/ ask.rate < world.apr THEN acc
        ELSE IF ask.rate > terms.rate THEN [acc EXCEPT !.stop = TRUE]
        ELSE IF /\ ask.term >= remaining
                /\ fill > 0
                /\ MeetsCap(fill, collateral,
                            effective_origination_cap_bps(sub.policy.max_ltv, terms.buffer))
             THEN Fill([acc EXCEPT !.principal = @ - fill, !.collateral = @ - collateral],
                       ask, fill, taker)
             ELSE acc

\* One ask under the refinanced loan: pro-rata collateral always rounds down, and the
\* new loan keeps the old one's maturity and snapshot.
refinance_ask(l, live, terms, acc, ask) ==
    LET sub        == acc.vault[ask.trader]
        fill       == MinOf(acc.principal, sub_vault_idle(sub))
        collateral == mul_div(l.collateral, fill, live)
        remaining  == l.matures - now
        taker      == [borrower |-> l.borrower, collateral |-> collateral,
                       rate |-> terms.rate, term |-> remaining, buffer |-> terms.buffer,
                       snapshot |-> l.snapshot, matures |-> l.matures]
    IN  IF acc.stop \/ acc.principal = 0 \/ ask.rate < world.apr THEN acc
        ELSE IF ask.rate > terms.rate THEN [acc EXCEPT !.stop = TRUE]
        ELSE IF /\ ask.term >= remaining
                /\ fill > 0
                /\ Curator[ask.trader] # l.borrower
                /\ MeetsCap(fill, collateral,
                            effective_origination_cap_bps(sub.policy.max_ltv, terms.buffer))
             THEN Fill([acc EXCEPT !.principal = @ - fill, !.collateral = @ - collateral],
                       ask, fill, taker)
             ELSE acc

\* Mutant: the market grows by one block, as if one ask were always enough.
MUT_match_p2pool_residual_one_block(l, terms) ==
    LET live == loan_live_outstanding_atoms(l)
    IN  Walk(market.asks, FALSE,
             LAMBDA acc, ask : refinance_ask(l, live, terms, acc, ask),
             Walking(expand_market_to_free_blocks(market, 1), live, l.collateral))

match_p2pool_residual_against_asks(l, terms) ==
    LET live == loan_live_outstanding_atoms(l)
    IN  Walk(market.asks, FALSE,
             LAMBDA acc, ask : refinance_ask(l, live, terms, acc, ask),
             Walking(expand_market_to_free_blocks(market, Cardinality(market.asks) + 1),
                     live, l.collateral))

MayConvert(l, terms) ==
    /\ terms.buffer <= BPS_PER_UNIT
    /\ l.collateral > 0
    /\ l.matures > now
    /\ loan_live_outstanding_atoms(l) > 0
    /\ l.collateral >= get_required_quote_collateral_to_back_debt(
           loan_live_outstanding_atoms(l), world.debt_price, world.coll_price,
           DebtWeight, CollWeight)

\* The old loan's slot ends, and collateral no fill carries on is free again.
ConvertedSeats(seats, l, left) == ClosedSeats(seats, l.borrower, SnapshotShares(l, left))

BurnedByConversion(l) ==
    marginfi_repay(loan_live_outstanding_atoms(l), UsesRepayAll(ThisLoanShares(l), TRUE))

\* Must fill the whole live debt or nothing.  A pool loan that rounding leaves with
\* more than an atom lives on with what collateral the fills left it.
ConvertP2PoolToFixed(l, terms) ==
    LET done   == match_p2pool_residual_against_asks(l, terms)
        left   == done.collateral
        burned == BurnedByConversion(l)
        post   == SatSub(ThisLoanShares(l), burned)
    IN  /\ MayConvert(l, terms)
        /\ done.principal = 0
        /\ ~done.aborted
        /\ vault' = done.vault
        /\ account' = [account EXCEPT !.liability = @ - burned]
        /\ \/ /\ DidFullRepay(post)
              /\ done.market.seats[l.borrower].encumbered >= SnapshotShares(l, left)
              /\ market' = [done.market EXCEPT !.seats = ConvertedSeats(@, l, left)]
              /\ loans' = loans \ {l}
           \/ /\ ~DidFullRepay(post)
              /\ market' = done.market
              /\ loans' = (loans \ {l}) \cup {[l EXCEPT !.shares = post, !.collateral = left]}
        /\ UNCHANGED <<now, world, refs>>

-----------------------------------------------------------------------------

PoolActions ==
    \E l \in PoolLoans :
        \/ RepayPool(l, 0, TRUE)
        \/ \E atoms \in RepayAmounts : RepayPool(l, atoms, FALSE)
        \/ \E atoms \in RepayAmounts \cup {0} : LiquidatePool(l, atoms) \/ SettlePool(l, atoms)
        \/ \E terms \in Refinances : ConvertP2PoolToFixed(l, terms)

PoolNext == Next \/ PoolActions

PoolSpec == Init /\ [][PoolNext]_vars

-----------------------------------------------------------------------------
(* Properties *)

AllPoolLoans == {l \in OpenLoans : l.lender = NIL}

RecordedShares == Sum(AllPoolLoans, [l \in AllPoolLoans |-> l.shares])

LoansClosed == market.loan_seq - Cardinality(OpenLoans)

\* Shares an atom of debt is worth when it is worth most.
AtomShares ==
    LET worth == {amount_to_asset_shares(1, w.lsv) : w \in Worlds}
    IN  (CHOOSE x \in worth : \A y \in worth : y <= x) + 1

\* The loans' records and the shared account agree up to rounding: each loan that
\* closed may have burned one atom of its siblings' shares or left two of its own
\* behind, and nothing else ever moves debt from one borrower's loan to another's,
\* whatever order they repay, are liquidated, settle or convert in.
LiabilityAttributed ==
    /\ RecordedShares <= account.liability + LoansClosed * AtomShares
    /\ account.liability <= RecordedShares + 2 * LoansClosed * AtomShares

\* A conversion that is allowed never runs out of blocks halfway (one per ask is
\* enough for the worst refinancing walk): only an ask whose rate plus the fee floor
\* leaves u16 aborts it.  And it always pays the pool loan off: rounding leaves no
\* remnant that lives on without the collateral its fills took.
ConversionsComplete ==
    \A l \in PoolLoans, terms \in Refinances :
        MayConvert(l, terms) =>
            /\ match_p2pool_residual_against_asks(l, terms).aborted
                 => Overpriced(market.asks) # {}
            /\ DidFullRepay(SatSub(ThisLoanShares(l), BurnedByConversion(l)))

=============================================================================
