----------------------------- MODULE LoanFixed ------------------------------
(***************************************************************************)
(* The body of a fixed-rate loan (state/loan.rs): how it is created from a *)
(* matched loan, how interest accrues, how a payment is applied, and what  *)
(* a liquidation or a settlement does to its buckets.  Every operator is a *)
(* function of the loan record; the state machines that call them are in   *)
(* LoanLifecycle and SubVaultLedger.                                       *)
(*                                                                         *)
(* A loan record keeps the names of the LoanFixed struct with the suffixes *)
(* _atoms, _unix and _bps left off:                                        *)
(*   principal_debt     gross principal; interest is computed on it        *)
(*   outstanding_debt   what the borrower still owes                       *)
(*   lender_claimable, accumulated_protocol_fee, accumulated_curator_fee   *)
(*                      whom the debt is owed to, cumulative               *)
(*   principal_retired  what has been paid so far (principal or not)       *)
(***************************************************************************)
EXTENDS Fp48Math

CONSTANT SECONDS_PER_YEAR    \* 31_536_000 in the program

ASSUME YearAssumption == SECONDS_PER_YEAR \in Nat \ {0}

LoanStates == {"Active", "Repaid"}

Loans == [ principal_debt           : Nat,
           outstanding_debt         : Nat,
           lender_claimable         : Nat,
           accumulated_protocol_fee : Nat,
           accumulated_curator_fee  : Nat,
           principal_retired        : Nat,
           started_at               : Nat,
           last_accrued             : Nat,
           lender_rate              : Nat,
           borrower_rate            : Nat,
           curator_fee              : Nat,
           state                    : LoanStates ]

\* process_matched_loan's net_principal
net_principal(principal, origination) == principal - origination

\* The loan starts owing its net principal, all of it to the lender.
new_from_matched_loan_with_lender(principal, net, lender, borrower, curator, now) ==
    [ principal_debt           |-> principal,
      outstanding_debt         |-> net,
      lender_claimable         |-> net,
      accumulated_protocol_fee |-> 0,
      accumulated_curator_fee  |-> 0,
      principal_retired        |-> 0,
      started_at               |-> now,
      last_accrued             |-> now,
      lender_rate              |-> lender,
      borrower_rate            |-> borrower,
      curator_fee              |-> curator,
      state                    |-> "Active" ]

-----------------------------------------------------------------------------
(* accrue_loan *)

\* Simple interest on the gross principal from the start of the loan.
cumulative_at(loan, rate, elapsed) ==
    mul_div(loan.principal_debt, rate * elapsed, BPS_PER_UNIT * SECONDS_PER_YEAR)

spread(loan) == loan.borrower_rate - loan.lender_rate

Elapsed(loan, t) == t - loan.started_at

CumLenderGross(loan, t) == cumulative_at(loan, loan.lender_rate, Elapsed(loan, t))

CumSpread(loan, t) == cumulative_at(loan, spread(loan), Elapsed(loan, t))

CumCurator(loan, t) == mul_div(CumLenderGross(loan, t), loan.curator_fee, BPS_PER_UNIT)

CumBorrower(loan, t) == CumLenderGross(loan, t) + CumSpread(loan, t)

\* Mutant: the lender is credited the gross interest, the curator on top of it.
MUT_accrue_loan_curator_on_top(loan, now) ==
    LET prior    == loan.last_accrued
        curator  == CumCurator(loan, now) - CumCurator(loan, prior)
        gross    == CumLenderGross(loan, now) - CumLenderGross(loan, prior)
        protocol == CumSpread(loan, now) - CumSpread(loan, prior)
    IN  [loan EXCEPT !.outstanding_debt         = @ + gross + protocol,
                     !.lender_claimable         = @ + gross,
                     !.accumulated_curator_fee  = @ + curator,
                     !.accumulated_protocol_fee = @ + protocol,
                     !.last_accrued             = now]

\* Mutant: interest on the time since the last accrual, rounded every time.
MUT_accrue_loan_per_interval(loan, now) ==
    LET delta    == now - loan.last_accrued
        gross    == cumulative_at(loan, loan.lender_rate, delta)
        protocol == cumulative_at(loan, spread(loan), delta)
        curator  == mul_div(gross, loan.curator_fee, BPS_PER_UNIT)
    IN  [loan EXCEPT !.outstanding_debt         = @ + gross + protocol,
                     !.lender_claimable         = @ + (gross - curator),
                     !.accumulated_curator_fee  = @ + curator,
                     !.accumulated_protocol_fee = @ + protocol,
                     !.last_accrued             = now]

\* Mutant: the spread goes to the lender instead of the protocol.
MUT_accrue_loan_spread_to_lender(loan, now) ==
    LET prior    == loan.last_accrued
        curator  == CumCurator(loan, now) - CumCurator(loan, prior)
        gross    == CumLenderGross(loan, now) - CumLenderGross(loan, prior)
        protocol == CumSpread(loan, now) - CumSpread(loan, prior)
    IN  [loan EXCEPT !.outstanding_debt         = @ + gross + protocol,
                     !.lender_claimable         = @ + (gross - curator) + protocol,
                     !.accumulated_curator_fee  = @ + curator,
                     !.last_accrued             = now]

\* Each bucket grows by cumulative-at-now minus cumulative-at-last_accrued.
accrue_loan(loan, now) ==
    LET prior    == loan.last_accrued
        curator  == CumCurator(loan, now) - CumCurator(loan, prior)
        gross    == CumLenderGross(loan, now) - CumLenderGross(loan, prior)
        protocol == CumSpread(loan, now) - CumSpread(loan, prior)
    IN  IF now = prior THEN loan
        ELSE IF loan.outstanding_debt = 0 \/ loan.state = "Repaid"
        THEN [loan EXCEPT !.last_accrued = now]
        ELSE [loan EXCEPT
                !.outstanding_debt         = @ + gross + protocol,
                !.lender_claimable         = @ + (gross - curator),
                !.accumulated_curator_fee  = @ + curator,
                !.accumulated_protocol_fee = @ + protocol,
                !.last_accrued             = now]

-----------------------------------------------------------------------------
(* apply_partial_resolution *)

ClaimSide(loan) == loan.lender_claimable + loan.accumulated_protocol_fee
                                         + loan.accumulated_curator_fee

OwedSide(loan) == loan.outstanding_debt + loan.principal_retired

\* assert_loan_conservation
Conserved(loan) == ClaimSide(loan) = OwedSide(loan)

\* protocol_already_retired and curator_already_retired
already_retired(loan, bucket) ==
    IF ClaimSide(loan) = 0 THEN 0
    ELSE mul_div(bucket, loan.principal_retired, ClaimSide(loan))

\* Mutant: the final payment charges the whole bucket again.
MUT_FeePortion_not_retired(loan, bucket, repaid) ==
    IF repaid >= loan.outstanding_debt
    THEN bucket
    ELSE mul_div(bucket, repaid, loan.outstanding_debt)

\* The slice of a fee bucket that a payment covers.
FeePortion(loan, bucket, repaid) ==
    IF repaid >= loan.outstanding_debt
    THEN SatSub(bucket, already_retired(loan, bucket))
    ELSE mul_div(bucket, repaid, loan.outstanding_debt)

\* The lender's slice is repaid - protocol - curator, computed with checked_sub:
\* the payment is refused when the two fee slices exceed it.
PortionsFit(loan, repaid) ==
    FeePortion(loan, loan.accumulated_protocol_fee, repaid)
      + FeePortion(loan, loan.accumulated_curator_fee, repaid) <= repaid

CanResolve(loan, repaid) ==
    /\ 0 < repaid
    /\ repaid <= loan.outstanding_debt
    /\ Conserved(loan)
    /\ PortionsFit(loan, repaid)

apply_partial_resolution(loan, repaid) ==
    [loan EXCEPT !.outstanding_debt  = @ - repaid,
                 !.principal_retired = @ + repaid]

-----------------------------------------------------------------------------
(* What the three closing handlers do to the body after accruing it. *)

\* Mutant: one atom of dust closes the loan.
MUT_CloseIfPaid_dust(loan) ==
    IF loan.outstanding_debt <= 1 THEN [loan EXCEPT !.state = "Repaid"] ELSE loan

CloseIfPaid(loan) ==
    IF loan.outstanding_debt = 0 THEN [loan EXCEPT !.state = "Repaid"] ELSE loan

\* repay
RepaidBody(loan, repaid) == CloseIfPaid(apply_partial_resolution(loan, repaid))

\* Mutant: the fee is not capped by the lender's claim.
MUT_TakeProtocolFee_uncapped(loan, repaid, protocol_bps) ==
    LET fee == mul_div(repaid, protocol_bps, BPS_PER_UNIT)
    IN  [loan EXCEPT !.lender_claimable = @ - fee,
                     !.accumulated_protocol_fee = @ + fee]

\* The liquidation fee moves from the lender's claim to the protocol's.
TakeProtocolFee(loan, repaid, protocol_bps) ==
    LET fee == MinOf(mul_div(repaid, protocol_bps, BPS_PER_UNIT), loan.lender_claimable)
    IN  [loan EXCEPT !.lender_claimable = @ - fee,
                     !.accumulated_protocol_fee = @ + fee]

\* Bad debt hands the curator's fee back to the lender.
ClawbackCurator(loan) ==
    [loan EXCEPT !.lender_claimable = @ + loan.accumulated_curator_fee,
                 !.accumulated_curator_fee = 0]

\* settle_matured_loan: no clawback
SettledBody(loan, repaid, protocol_bps) ==
    CloseIfPaid(TakeProtocolFee(apply_partial_resolution(loan, repaid),
                                repaid, protocol_bps))

\* liquidate_loan
LiquidatedBody(loan, repaid, protocol_bps, bad_debt) ==
    LET taken == TakeProtocolFee(apply_partial_resolution(loan, repaid),
                                 repaid, protocol_bps)
    IN  CloseIfPaid(IF bad_debt THEN ClawbackCurator(taken) ELSE taken)

\* A keeper may pay part of the debt only above a floor: max(1%, 1_000 atoms).
PartialAllowed(outstanding, repaid, floor_atoms) ==
    \/ repaid = outstanding
    \/ /\ outstanding >= floor_atoms
       /\ repaid >= MaxOf(outstanding \div 100, floor_atoms)

=============================================================================
