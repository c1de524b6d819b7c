-------------------------------- MODULE Ltv ---------------------------------
(***************************************************************************)
(* Collateral requirements and seizures (state/ltv.rs and                  *)
(* compute_collateral_split of liquidate_loan.rs).  Prices are fixed-point *)
(* oracle prices; the two mints have the same number of decimals.          *)
(***************************************************************************)
EXTENDS Fp48Math

\* Collateral atoms worth debt atoms of debt at weight lw against collateral
\* weighted cw, rounded up at the end.  Every fixed-point step floors.
get_required_quote_collateral_to_back_debt(debt, debt_price, coll_price, lw, cw) ==
    LET num   == mul_scale(mul_scale(to_scaled(debt), debt_price), lw)
        denom == mul_scale(coll_price, cw)
    IN  from_scaled_ceil(div_scale(num, denom))

required_collateral_at_ltv_cap(debt, debt_price, coll_price, ltv_cap) ==
    get_required_quote_collateral_to_back_debt(
        debt, debt_price, coll_price, SCALE, to_scaled(ltv_cap) \div BPS_PER_UNIT)

\* assert_ltv_breach for a fixed-rate loan: the stamped liquidation LTV decides.
ltv_breached(outstanding, collateral, liquidation_ltv, debt_price, coll_price) ==
    /\ outstanding > 0
    /\ collateral > 0
    /\ debt_price > 0 /\ coll_price > 0
    /\ collateral < required_collateral_at_ltv_cap(
                        outstanding, debt_price, coll_price, liquidation_ltv)

\* The liquidator's target is the repaid value plus the keeper bonus, capped by
\* the loan's collateral; what the cap cuts off is the bad-debt gap.
compute_collateral_split(debt_value, collateral, bonus_bps) ==
    LET target == debt_value + mul_div(debt_value, bonus_bps, BPS_PER_UNIT)
    IN  [ seizes       |-> MinOf(collateral, target),
          bad_debt_gap |-> SatSub(target, collateral) ]

=============================================================================
