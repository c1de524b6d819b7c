---------------------------- MODULE MCOrderBook -----------------------------
(* Small instances of OrderBook. *)
EXTENDS OrderBook

CONSTANTS v1, v2, b1, b2

\* b2 curates v2: it may not borrow from it.
MCCurator == [v \in SubVaults |-> IF v = v2 THEN b2 ELSE NIL]

Bid(rate, term, principal, collateral, buffer, mode, last_valid) ==
    [ rate |-> rate, term |-> term, principal |-> principal, collateral |-> collateral,
      buffer |-> buffer, mode |-> mode, last_valid |-> last_valid ]

MCBids == [b \in Borrowers |->
    IF b = b1 THEN { Bid(7, 1, 3, 5, 0, "REST", 0), Bid(7, 1, 3, 5, 0, "P2POOL_FALLBACK", 0) }
              ELSE { Bid(5, 2, 2, 4, 2, "REST", 1), Bid(5, 1, 2, 3, 0, "DROP", 0) }]

Loose == [spread |-> 2, max_term |-> 2, max_ltv |-> 8]
Tight == [spread |-> 1, max_term |-> 1, max_ltv |-> 5]

MCPolicies == {Loose, Tight}
MCInitPolicy == [v \in SubVaults |-> IF v = v2 THEN Tight ELSE Loose]
MCInitIdle == [v \in SubVaults |-> IF v = v2 THEN 4 ELSE 3]

MCInitWorld == [debt_price |-> 20, coll_price |-> 20, apr |-> 3, asv |-> 10, lsv |-> 10]

MCWorlds == { MCInitWorld,
              [debt_price |-> 20, coll_price |-> 17, apr |-> 5, asv |-> 15, lsv |-> 15] }

=============================================================================
