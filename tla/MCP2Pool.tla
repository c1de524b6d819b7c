------------------------------ MODULE MCP2Pool ------------------------------
(* A small instance of P2Pool. *)
EXTENDS P2Pool

CONSTANTS v1, v2, b1, b2

MCCurator == [v \in SubVaults |-> IF v = v2 THEN b2 ELSE NIL]

\* Bids below every ask: all of the principal comes from the pool.
PoolBid(principal, collateral) ==
    [ rate |-> 2, term |-> 1, principal |-> principal, collateral |-> collateral,
      buffer |-> 0, mode |-> "P2POOL_FALLBACK", last_valid |-> 0 ]

MCBids == [b \in Borrowers |-> IF b = b1 THEN {PoolBid(2, 6)} ELSE {PoolBid(4, 7)}]

MCPolicies == {[spread |-> 2, max_term |-> 2, max_ltv |-> 8]}
MCInitPolicy == [v \in SubVaults |-> [spread |-> 2, max_term |-> 2, max_ltv |-> 8]]
MCInitIdle == [v \in SubVaults |-> IF v = v1 THEN 3 ELSE 4]

MCInitWorld == [debt_price |-> 20, coll_price |-> 20, apr |-> 3, asv |-> 10, lsv |-> 10]

\* Interest accrues on both banks and the collateral loses value: b1 may still
\* convert, from both asks, and b2 may be liquidated.
MCWorlds == { MCInitWorld,
              [debt_price |-> 20, coll_price |-> 16, apr |-> 3, asv |-> 11, lsv |-> 13] }

MCRefinances == {[rate |-> 6, buffer |-> 1]}

=============================================================================
