------------------------------ MODULE MCAccess ------------------------------
(* Small instances of Access. *)
EXTENDS Access

CONSTANTS k1, k2, m1, v1

MCDebtBank == [m \in Markets |-> v1]

MCMaxSubVaults == [v \in Vaults |-> 1]

MCEdited == {GLOBAL_CONFIG, m1, v1}

MCPolicies == { [max_ltv |-> 6, liq_ltv |-> 8, max_term |-> 1],
                [max_ltv |-> 9, liq_ltv |-> 10, max_term |-> 1] }

MCPolicyOverrides == { [max_ltv |-> 7], [liq_ltv |-> 10] }

MCFeeDefault == [bps |-> 0, keeper_bps |-> 0]
MCFeeCap == [bps |-> 10, keeper_bps |-> 5]
MCFeeOverrides == { <<>>, [keeper_bps |-> 5], [bps |-> 10, keeper_bps |-> 6] }

=============================================================================
