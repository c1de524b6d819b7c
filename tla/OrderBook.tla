------------------------------ MODULE OrderBook ------------------------------
(***************************************************************************)
(* The borrower side of one market: seats and their collateral, resting    *)
(* bids, the sub-vaults' asks, the two matching walks (a bid taking asks,  *)
(* an ask taking bids), the permissionless crank and the matched-loan      *)
(* queue.                                                                  *)
(*                                                                         *)
(* One action is one instruction and runs atomically; borrowers, curators, *)
(* keepers, the oracle, the bank and the vault's depositors interleave.  A *)
(* failed require! reverts the instruction, so it is a guard.              *)
(*                                                                         *)
(* A sub-vault is what a fill reads and writes of it: its idle atoms       *)
(* (total_principal - deployed - encumbered), sunset flag and policy; its  *)
(* books are SubVaultLedger.  What a loan pays out in debt tokens (the     *)
(* seats' debt shares, origination fee) is SubVaultLedger's borrowerClaim  *)
(* and protocolClaim, and how its debt accrues is LoanLifecycle: nothing   *)
(* here depends on them.  The user account's MarketPosition rows are       *)
(* display copies of a seat that no instruction reads.                     *)
(***************************************************************************)
EXTENDS Ltv, Sums, Folds

CONSTANTS
    Borrowers,        \* wallets that may hold a user seat
    SubVaults,
    Curator,          \* the wallet that curates each sub-vault
    Bids,             \* the parameters each borrower may send with place/update_order
    Policies,         \* parameters a curator may give its sub-vault
    Worlds,           \* oracle prices, bank APR, bank share values
    InitWorld,        \* the first of them
    InitPolicy,       \* the policy each sub-vault starts with
    InitIdle,         \* the idle atoms each sub-vault starts with
    IdleLevels,       \* idle atoms a sub-vault may hold between two instructions
    Sunsettable,      \* bound: the sub-vaults the admin may sunset and resume
    Funded,           \* the borrowers that start with a seat and a deposit
    InitDeposit,      \* atoms of that deposit
    Quoting,          \* the sub-vault that starts with a resting ask, if any
    DepositAtoms,     \* atoms of a collateral deposit
    Budgets,          \* max_fills a keeper may pass to match_crank
    FeeFloorBps,      \* fee_config.protocol_fee_bps_floor
    U16_MAX,          \* u16::MAX, 65_535 in the program: rates are u16
    DebtWeight,       \* marginfi liability_weight_init of the debt bank
    CollWeight,       \* marginfi asset_weight_init of the collateral bank
    MaxOrders,        \* bound: orders ever placed (order_sequence_number)
    MaxTime,          \* bound: the clock stops here
    MaxCollateral,    \* bound: deposits stop once the account holds this many shares
    NIL               \* DataIndex NIL: the lender seat of a pool loan

RESIDUAL_MODES == {"P2POOL_FALLBACK", "REST", "DROP"}

ASSUME BookAssumption ==
    /\ IsFiniteSet(Borrowers) /\ IsFiniteSet(SubVaults) /\ Borrowers \cap SubVaults = {}
    /\ NIL \notin Borrowers \cup SubVaults
    /\ Curator \in [SubVaults -> Borrowers \cup {NIL}]
    /\ Policies \subseteq [ spread : Nat, max_term : Nat \ {0}, max_ltv : 1..(BPS_PER_UNIT - 1) ]
    /\ Worlds \subseteq [ debt_price : Nat \ {0}, coll_price : Nat \ {0}, apr : Nat,
                          asv : Nat \ {0}, lsv : Nat \ {0} ]
    /\ \A b \in Borrowers :
          Bids[b] \subseteq [ rate : Nat, term : Nat, principal : Nat, collateral : Nat,
                             buffer : Nat, mode : RESIDUAL_MODES, last_valid : Nat ]
    /\ InitWorld \in Worlds /\ Funded \subseteq Borrowers /\ InitDeposit \in Nat
    /\ Sunsettable \subseteq SubVaults /\ Quoting \subseteq SubVaults /\ Cardinality(Quoting) <= 1
    /\ InitPolicy \in [SubVaults -> Policies] /\ InitIdle \in [SubVaults -> Nat]
    /\ IdleLevels \subseteq Nat /\ DepositAtoms \subseteq Nat /\ Budgets \subseteq Nat
    /\ FeeFloorBps \in Nat /\ U16_MAX \in Nat /\ DebtWeight \in Nat \ {0} /\ CollWeight \in Nat \ {0}
    /\ MaxOrders \in Nat \ {0} /\ MaxTime \in Nat \ {0} /\ MaxCollateral \in Nat

\* No price is so small that a cap makes the divisor of required_collateral_at_ltv_cap
\* zero: the program then fails with MathDivisionByZero.
ASSUME PriceAssumption ==
    \A w \in Worlds : \A cap \in 1..BPS_PER_UNIT :
        mul_scale(w.coll_price, to_scaled(cap) \div BPS_PER_UNIT) > 0

VARIABLES
    now,        \* Clock::unix_timestamp
    world,      \* what oracles and banks report
    vault,      \* per sub-vault: idle atoms, sunset flag, policy
    market,     \* the market account: books, seats, matched-loan queue, blocks
    loans,      \* the promoted loan accounts
    refs,       \* the UserOrderRefs of each borrower's user account
    account     \* the market's borrower marginfi account: collateral and debt shares

vars == <<now, world, vault, market, loans, refs, account>>

MARGINFI_ROUNDING_RESERVE_ATOMS == 1

NO_EXPIRATION == 0

Traders == Borrowers \cup SubVaults

Queued == market.nodes

OpenLoans == Queued \cup loans

ClaimedSeat == [ claimed : BOOLEAN, withdrawable : Nat, encumbered : Nat,
                 open_borrow : Nat, open_lend : Nat ]

AskOrder == [ trader : SubVaults, seq : Nat, rate : Nat, term : Nat ]

BidOrder == [ trader : Borrowers, seq : Nat, rate : Nat, term : Nat, principal : Nat \ {0},
              collateral : Nat, last_valid : Nat, buffer : Nat, snapshot : Nat ]

MatchedLoan == [ seq : Nat, borrower : Borrowers, lender : SubVaults \cup {NIL},
                 principal : Nat, collateral : Nat, term : Nat,
                 borrower_rate : Nat, lender_rate : Nat, origination_ltv : Nat,
                 snapshot : Nat, shares : Nat, matures : Nat ]

TypeOK ==
    /\ now \in 0..MaxTime
    /\ world \in Worlds
    /\ vault \in [SubVaults -> [idle : Nat, sunset : BOOLEAN, policy : Policies]]
    /\ market.asks \subseteq AskOrder /\ market.bids \subseteq BidOrder
    /\ market.nodes \subseteq MatchedLoan /\ loans \subseteq MatchedLoan
    /\ market.seats \in [Traders -> ClaimedSeat]
    /\ {market.order_seq, market.loan_seq, market.free, market.blocks} \subseteq Nat
    /\ refs \in [Borrowers -> SUBSET (0..MaxOrders)]
    /\ account \in [collateral : Nat, liability : Nat]

-----------------------------------------------------------------------------
(* The two books *)

\* RestingOrder::cmp: the lowest ask and the highest bid are best, an earlier
\* sequence breaks the tie.
Better(o1, o2, is_bid) ==
    \/ IF is_bid THEN o1.rate > o2.rate ELSE o1.rate < o2.rate
    \/ o1.rate = o2.rate /\ o1.seq < o2.seq

\* The order that a walk comes to last.
Worst(orders, is_bid) == CHOOSE o \in orders : \A p \in orders \ {o} : Better(p, o, is_bid)

\* step applied to the orders of a book, from the best to the worst.
Walk(orders, is_bid, step(_, _), acc) ==
    MapThenFoldSet(LAMBDA o, a : step(a, o), acc, LAMBDA o : o,
                   LAMBDA S : Worst(S, is_bid), orders)

is_expired(bid) == bid.last_valid # NO_EXPIRATION /\ bid.last_valid < now

sub_vault_idle(sub_vault) ==
    IF sub_vault.sunset THEN 0 ELSE SatSub(sub_vault.idle, MARGINFI_ROUNDING_RESERVE_ATOMS)

effective_origination_cap_bps(max_ltv, buffer) == SatSub(max_ltv, buffer)

\* A zero cap requires u64::MAX: the gate fails closed.
MeetsCap(principal, collateral, cap) ==
    /\ cap > 0
    /\ collateral >= required_collateral_at_ltv_cap(
                         principal, world.debt_price, world.coll_price, cap)

\* The share of an order's collateral that moves with a fill of it.
MatchedCollateral(fill, whole, left, collateral, principal) ==
    IF fill = whole THEN left ELSE mul_div(fill, collateral, principal)

-----------------------------------------------------------------------------
(* Seats and blocks *)

encumber_for_order(seats, b, shares) ==
    [seats EXCEPT ![b].withdrawable = @ - shares, ![b].encumbered = @ + shares]

\* Mutant: the release credits the free balance and forgets the encumbered one.
MUT_unencumber_for_order_credits_only(seats, b, shares) ==
    [seats EXCEPT ![b].withdrawable = @ + shares]

unencumber_for_order(seats, b, shares) ==
    [seats EXCEPT ![b].encumbered = @ - shares, ![b].withdrawable = @ + shares]

expand_market_to_free_blocks(m, n) ==
    [m EXCEPT !.free = MaxOf(@, n), !.blocks = @ + SatSub(n, m.free)]

\* The free list hands out a block; an empty one aborts the instruction.
get_free_address(acc) ==
    IF acc.market.free = 0 THEN [acc EXCEPT !.aborted = TRUE]
    ELSE [acc EXCEPT !.market.free = @ - 1]

release_address(m) == [m EXCEPT !.free = @ + 1]

\* Mutant: the order leaves the tree and its block stays off the free list.
MUT_remove_order_leaks_block(m, bid) == [m EXCEPT !.bids = @ \ {bid}]

remove_order_from_tree_and_free(m, bid) ==
    release_address([m EXCEPT !.bids = @ \ {bid}])

OrderShares(bid) == amount_to_asset_shares(bid.collateral, bid.snapshot)

LoanShares(l) == amount_to_asset_shares(l.collateral, l.snapshot)

\* What a walk threads through its orders.  principal and collateral are what the
\* taking bid has left; aborted says that a require! inside the walk failed.
Walking(m, principal, collateral) ==
    [ market |-> m, vault |-> vault, principal |-> principal, collateral |-> collateral,
      fills |-> 0, stop |-> FALSE, aborted |-> FALSE ]

-----------------------------------------------------------------------------
(* Matching *)

\* Mutant: the borrower pays the bid, whatever spread that leaves the protocol.
MUT_borrower_rate_bps_no_floor(bid_rate, ask_rate) == bid_rate

\* The lender earns the ask, the borrower pays the bid or the ask plus the fee floor.
borrower_rate_bps(bid_rate, ask_rate) == MaxOf(bid_rate, ask_rate + FeeFloorBps)

\* The floored lender rate still is a u16.
RateFits(ask) == ask.rate + FeeFloorBps <= U16_MAX

\* The borrower's seat counts a queued loan, and so does the lender's, if it has one.
CountLoan(seats, l) ==
    LET borrowed == [seats EXCEPT ![l.borrower].open_borrow = @ + 1]
    IN  IF l.lender = NIL THEN borrowed ELSE [borrowed EXCEPT ![l.lender].open_lend = @ + 1]

QueueLoan(m, l) ==
    [m EXCEPT !.nodes = @ \cup {l}, !.loan_seq = @ + 1, !.seats = CountLoan(@, l)]

\* Reserve the fill on the sub-vault and queue a MatchedLoan for it.  taker is what
\* the borrower's side brings; it carries a maturity only when it refinances a loan.
\* Every gate has passed by now: a rate that does not fit aborts the whole instruction.
Fill(acc, ask, fill, taker) ==
    LET v    == ask.trader
        node == [ seq |-> acc.market.loan_seq, borrower |-> taker.borrower, lender |-> v,
                  principal |-> fill, collateral |-> taker.collateral, term |-> taker.term,
                  lender_rate |-> ask.rate,
                  borrower_rate |-> borrower_rate_bps(taker.rate, ask.rate),
                  origination_ltv |-> effective_origination_cap_bps(
                                          acc.vault[v].policy.max_ltv, taker.buffer),
                  snapshot |-> taker.snapshot, shares |-> 0, matures |-> taker.matures ]
    IN  get_free_address(
            [acc EXCEPT !.vault[v].idle = @ - fill,
                        !.market = QueueLoan(@, node),
                        !.fills = @ + 1,
                        !.aborted = @ \/ ~RateFits(ask)])

Taker(borrower, collateral, bid, snapshot, matures) ==
    [ borrower |-> borrower, collateral |-> collateral, rate |-> bid.rate, term |-> bid.term,
      buffer |-> bid.buffer, snapshot |-> snapshot, matures |-> matures ]

\* Mutant: an ask the LTV gate refuses ends the walk instead of being skipped.
MUT_match_ask_breaks_on_ltv(b, bid, snapshot, acc, ask) ==
    LET sub        == acc.vault[ask.trader]
        fill       == MinOf(acc.principal, sub_vault_idle(sub))
        collateral == MatchedCollateral(fill, acc.principal, acc.collateral,
                                        bid.collateral, bid.principal)
        cap        == effective_origination_cap_bps(sub.policy.max_ltv, bid.buffer)
    IN  IF acc.stop \/ acc.principal = 0 \/ ask.rate < world.apr THEN acc
        ELSE IF bid.rate < ask.rate \/ ~MeetsCap(fill, collateral, cap)
             THEN [acc EXCEPT !.stop = TRUE]
        ELSE IF /\ bid.term <= ask.term
                /\ fill > 0
                /\ ask.term <= sub.policy.max_term
                /\ Curator[ask.trader] # b
             THEN Fill([acc EXCEPT !.principal = @ - fill,
                                   !.collateral = SatSub(@, collateral)],
                       ask, fill, Taker(b, collateral, bid, snapshot, 0))
             ELSE acc

\* One ask under a taking bid.  Everything but a rate that no longer crosses is a
\* skip: the walk goes on to the next ask.
match_ask(b, bid, snapshot, acc, ask) ==
    LET sub        == acc.vault[ask.trader]
        fill       == MinOf(acc.principal, sub_vault_idle(sub))
        collateral == MatchedCollateral(fill, acc.principal, acc.collateral,
                                        bid.collateral, bid.principal)
        cap        == effective_origination_cap_bps(sub.policy.max_ltv, bid.buffer)
    IN  IF acc.stop \/ acc.principal = 0 \/ ask.rate < world.apr THEN acc
        ELSE IF bid.rate < ask.rate THEN [acc EXCEPT !.stop = TRUE]
        ELSE IF /\ bid.term <= ask.term
                /\ fill > 0
                /\ ask.term <= sub.policy.max_term
                /\ Curator[ask.trader] # b
                /\ MeetsCap(fill, collateral, cap)
             THEN Fill([acc EXCEPT !.principal = @ - fill,
                                   !.collateral = SatSub(@, collateral)],
                       ask, fill, Taker(b, collateral, bid, snapshot, 0))
             ELSE acc

\* The vault account is optional: without it the scan reads no sub-vault and skips
\* every ask.
match_order(b, bid, snapshot, with_vault, acc) ==
    IF with_vault
    THEN Walk(acc.market.asks, FALSE, LAMBDA a, ask : match_ask(b, bid, snapshot, a, ask), acc)
    ELSE acc

\* A bid leaves the book and its shares go back to its owner's free balance.
Released(m, bid) ==
    remove_order_from_tree_and_free(
        [m EXCEPT !.seats = unencumber_for_order(@, bid.trader, OrderShares(bid))], bid)

\* An expired bid met on the way gives its collateral back at its own snapshot.
PruneBid(acc, bid) ==
    [acc EXCEPT
        !.market = Released(@, bid),
        !.aborted = acc.aborted \/ acc.market.seats[bid.trader].encumbered < OrderShares(bid)]

\* Mutant: the remainder of a partly filled bid keeps all of its collateral.
MUT_ConsumeBid_keeps_collateral(m, bid, fill, collateral) ==
    IF fill = bid.principal THEN remove_order_from_tree_and_free(m, bid)
    ELSE [m EXCEPT !.bids = (@ \ {bid}) \cup {[bid EXCEPT !.principal = @ - fill]}]

\* A consumed bid leaves the book, a partly filled one shrinks in place.
ConsumeBid(m, bid, fill, collateral) ==
    IF fill = bid.principal THEN remove_order_from_tree_and_free(m, bid)
    ELSE [m EXCEPT !.bids = (@ \ {bid}) \cup
              {[bid EXCEPT !.principal = @ - fill, !.collateral = @ - collateral]}]

\* One resting bid under a taking ask.
match_bid(ask, max_fills, acc, bid) ==
    LET sub        == acc.vault[ask.trader]
        fill       == MinOf(bid.principal, sub_vault_idle(sub))
        collateral == MatchedCollateral(fill, bid.principal, bid.collateral,
                                        bid.collateral, bid.principal)
        cap        == effective_origination_cap_bps(sub.policy.max_ltv, bid.buffer)
        filled     == Fill(acc, ask, fill, Taker(bid.trader, collateral, bid, bid.snapshot, 0))
    IN  IF acc.stop \/ acc.fills >= max_fills THEN acc
        ELSE IF is_expired(bid) THEN PruneBid(acc, bid)
        ELSE IF bid.trader = Curator[ask.trader] THEN acc
        ELSE IF bid.rate < ask.rate \/ (bid.term <= ask.term /\ fill = 0)
             THEN [acc EXCEPT !.stop = TRUE]
        ELSE IF bid.term <= ask.term /\ MeetsCap(fill, collateral, cap)
             THEN [filled EXCEPT !.market = ConsumeBid(@, bid, fill, collateral)]
        ELSE acc

match_resting_bids(ask, max_fills, acc) ==
    Walk(acc.market.bids, TRUE, LAMBDA a, bid : match_bid(ask, max_fills, a, bid),
         [acc EXCEPT !.stop = FALSE])

\* A fill needs a block each, so the market first grows to one per resting bid.
take_resting_bids(ask, max_fills, acc) ==
    match_resting_bids(ask, max_fills,
        [acc EXCEPT !.market = expand_market_to_free_blocks(@, Cardinality(@.bids))])

-----------------------------------------------------------------------------
(* Initial state: the Funded borrowers have claimed a seat and deposited, the  *)
(* Quoting sub-vaults have claimed theirs and rest an ask                      *)

InitShares == amount_to_asset_shares(InitDeposit, InitWorld.asv)

InitSeat(t) ==
    [ claimed |-> t \in Funded \cup Quoting,
      withdrawable |-> IF t \in Funded THEN InitShares ELSE 0, encumbered |-> 0,
      open_borrow |-> 0, open_lend |-> IF t \in Quoting THEN 1 ELSE 0 ]

InitAsk(v) == [ trader |-> v, seq |-> 0, rate |-> InitWorld.apr + InitPolicy[v].spread,
                term |-> InitPolicy[v].max_term ]

Init ==
    /\ now = 1
    /\ world = InitWorld
    /\ vault = [v \in SubVaults |->
                  [idle |-> InitIdle[v], sunset |-> FALSE, policy |-> InitPolicy[v]]]
    /\ market = [ asks |-> {InitAsk(v) : v \in Quoting}, bids |-> {}, nodes |-> {},
                  seats |-> [t \in Traders |-> InitSeat(t)],
                  order_seq |-> Cardinality(Quoting), loan_seq |-> 0, free |-> 0,
                  blocks |-> Cardinality(Funded) + 2 * Cardinality(Quoting) ]
    /\ loans = {}
    /\ refs = [b \in Borrowers |-> {}]
    /\ account = [ collateral |-> Cardinality(Funded) * InitShares, liability |-> 0 ]

-----------------------------------------------------------------------------
(* Seats *)

\* Claim the seat of trader t in a market that has a free block.
claim_seat(m, t) ==
    [m EXCEPT !.free = @ - 1, !.seats[t].claimed = TRUE]

ClaimSeat(b) ==
    /\ ~market.seats[b].claimed
    /\ market' = claim_seat(expand_market_to_free_blocks(market, 1), b)
    /\ UNCHANGED <<now, world, vault, loans, refs, account>>

Deposit(b, atoms) ==
    LET shares == amount_to_asset_shares(atoms, world.asv)
    IN  /\ market.seats[b].claimed
        /\ account.collateral < MaxCollateral
        /\ account' = [account EXCEPT !.collateral = @ + shares]
        /\ market' = [market EXCEPT !.seats[b].withdrawable = @ + shares]
        /\ UNCHANGED <<now, world, vault, loans, refs>>

\* Collateral withdrawal of an amount, or of everything: capped by the account's
\* shares, whole atoms leave, and withdraw_all writes off what is below an atom.
Withdraw(b, requested, withdraw_all) ==
    LET expected == MinOf(requested, account.collateral)
        burned   == amount_to_asset_shares(shares_to_amount(expected, world.asv), world.asv)
    IN  /\ market.seats[b].claimed
        /\ requested <= market.seats[b].withdrawable
        /\ expected > 0
        /\ market' = [market EXCEPT !.seats[b].withdrawable =
                          IF withdraw_all THEN 0 ELSE @ - expected]
        /\ account' = [account EXCEPT !.collateral = @ - burned]
        /\ UNCHANGED <<now, world, vault, loans, refs>>

-----------------------------------------------------------------------------
(* Borrower orders *)

\* marginfi lends atoms against the market's account: liability shares, floored.
marginfi_borrow_shares(atoms) == amount_to_asset_shares(atoms, world.lsv)

FallbackAllowed(acc) ==
    acc.collateral >= get_required_quote_collateral_to_back_debt(
        acc.principal, world.debt_price, world.coll_price, DebtWeight, CollWeight)

PoolNode(acc, b, bid, snapshot) ==
    [ seq |-> acc.market.loan_seq, borrower |-> b, lender |-> NIL,
      principal |-> acc.principal, collateral |-> acc.collateral, term |-> bid.term,
      borrower_rate |-> bid.rate, lender_rate |-> bid.rate,
      origination_ltv |-> 0, snapshot |-> snapshot,
      shares |-> marginfi_borrow_shares(acc.principal), matures |-> 0 ]

RestingBid(acc, b, bid, snapshot, seq) ==
    [ trader |-> b, seq |-> seq, rate |-> bid.rate, term |-> bid.term,
      principal |-> acc.principal, collateral |-> acc.collateral,
      last_valid |-> bid.last_valid, buffer |-> bid.buffer, snapshot |-> snapshot ]

\* Mutant: a residual that borrows from the pool is not counted on the seat.
MUT_SettleResidual_uncounted(acc, b, bid, snapshot, seq) ==
    CASE acc.principal = 0 -> acc
      [] acc.principal > 0 /\ bid.mode = "P2POOL_FALLBACK" ->
           get_free_address(
               [acc EXCEPT !.market.nodes = @ \cup {PoolNode(acc, b, bid, snapshot)},
                           !.market.loan_seq = @ + 1])
      [] acc.principal > 0 /\ bid.mode = "REST" ->
           get_free_address(
               [acc EXCEPT !.market.bids = @ \cup {RestingBid(acc, b, bid, snapshot, seq)}])
      [] acc.principal > 0 /\ bid.mode = "DROP" ->
           [acc EXCEPT !.market.seats =
               unencumber_for_order(@, b, amount_to_asset_shares(acc.collateral, snapshot))]

\* What becomes of the principal that no ask filled: a pool loan, a resting bid,
\* or nothing, its collateral given back.
SettleResidual(acc, b, bid, snapshot, seq) ==
    CASE acc.principal = 0 -> acc
      [] acc.principal > 0 /\ bid.mode = "P2POOL_FALLBACK" ->
           get_free_address(
               [acc EXCEPT !.market = QueueLoan(@, PoolNode(acc, b, bid, snapshot))])
      [] acc.principal > 0 /\ bid.mode = "REST" ->
           get_free_address(
               [acc EXCEPT !.market.bids = @ \cup {RestingBid(acc, b, bid, snapshot, seq)}])
      [] acc.principal > 0 /\ bid.mode = "DROP" ->
           [acc EXCEPT !.market.seats =
               unencumber_for_order(@, b, amount_to_asset_shares(acc.collateral, snapshot))]

\* Mutant: the market grows by one block per ask, none for the residual.
MUT_match_borrower_bid_no_residual_block(b, bid, with_vault) ==
    LET shares == amount_to_asset_shares(bid.collateral, world.asv)
        grown  == expand_market_to_free_blocks(market, Cardinality(market.asks))
        placed == [grown EXCEPT !.seats = encumber_for_order(@, b, shares),
                                !.order_seq = @ + 1]
    IN  match_order(b, bid, world.asv, with_vault,
                    Walking(placed, bid.principal, bid.collateral))

\* place_order up to its residual: room for a fill of every ask and one residual,
\* the collateral encumbered at today's share value, then the walk.
match_borrower_bid(b, bid, with_vault) ==
    LET shares == amount_to_asset_shares(bid.collateral, world.asv)
        grown  == expand_market_to_free_blocks(market, Cardinality(market.asks) + 1)
        placed == [grown EXCEPT !.seats = encumber_for_order(@, b, shares),
                                !.order_seq = @ + 1]
    IN  match_order(b, bid, world.asv, with_vault,
                    Walking(placed, bid.principal, bid.collateral))

\* Mutant: the collateral of a bid is not checked against the withdrawable balance.
MUT_MayPlace_uncovered(b, bid) ==
    /\ market.seats[b].claimed
    /\ bid.principal > 0 /\ bid.term > 0 /\ bid.collateral > 0
    /\ bid.buffer <= BPS_PER_UNIT

MayPlace(b, bid) ==
    /\ market.seats[b].claimed
    /\ bid.principal > 0 /\ bid.term > 0 /\ bid.collateral > 0
    /\ bid.buffer <= BPS_PER_UNIT
    /\ amount_to_asset_shares(bid.collateral, world.asv) <= market.seats[b].withdrawable

place_order(b, bid, with_vault) ==
    SettleResidual(match_borrower_bid(b, bid, with_vault), b, bid, world.asv,
                   market.order_seq)

\* The tree of UserOrderRefs holds at most one for a sequence; a missing one is no error.
insert_user_order(all, b, seq) == [all EXCEPT ![b] = @ \cup {seq}]

remove_user_order(all, b, seq) == [all EXCEPT ![b] = @ \ {seq}]

\* The caller decides whether the instruction carries the vault account.
PlaceOrder(b, bid, with_vault) ==
    /\ market.order_seq < MaxOrders
    /\ MayPlace(b, bid)
    /\ LET matched == match_borrower_bid(b, bid, with_vault)
           done    == place_order(b, bid, with_vault)
           rested  == matched.principal > 0 /\ bid.mode = "REST"
           pooled  == matched.principal > 0 /\ bid.mode = "P2POOL_FALLBACK"
       IN  /\ pooled => FallbackAllowed(matched)
           /\ ~done.aborted
           /\ market' = done.market
           /\ vault' = done.vault
           /\ account' = [account EXCEPT !.liability =
                  IF pooled THEN @ + marginfi_borrow_shares(matched.principal) ELSE @]
           /\ refs' = IF rested THEN insert_user_order(refs, b, market.order_seq) ELSE refs
           /\ UNCHANGED <<now, world, loans>>

\* Cancel-and-replace in place: new rate, term, expiry and buffer under a fresh
\* sequence; principal, collateral and snapshot stay.
update_user_bid(bid, new) ==
    [bid EXCEPT !.seq = market.order_seq, !.rate = new.rate, !.term = new.term,
                !.last_valid = new.last_valid, !.buffer = new.buffer]

\* Mutant: the order reference keeps the sequence the bid had before.
MUT_UpdateOrder_stale_ref(bid, new) ==
    /\ market.order_seq < MaxOrders
    /\ new.term > 0 /\ new.buffer <= BPS_PER_UNIT
    /\ new.last_valid = NO_EXPIRATION \/ new.last_valid > now
    /\ market' = [market EXCEPT !.bids = (@ \ {bid}) \cup {update_user_bid(bid, new)},
                                !.order_seq = @ + 1]
    /\ UNCHANGED <<now, world, vault, loans, refs, account>>

UpdateOrder(bid, new) ==
    /\ market.order_seq < MaxOrders
    /\ new.term > 0 /\ new.buffer <= BPS_PER_UNIT
    /\ new.last_valid = NO_EXPIRATION \/ new.last_valid > now
    /\ market' = [market EXCEPT !.bids = (@ \ {bid}) \cup {update_user_bid(bid, new)},
                                !.order_seq = @ + 1]
    /\ refs' = insert_user_order(remove_user_order(refs, bid.trader, bid.seq),
                               bid.trader, market.order_seq)
    /\ UNCHANGED <<now, world, vault, loans, account>>

CancelOrder(bid) ==
    /\ market.seats[bid.trader].encumbered >= OrderShares(bid)
    /\ market' = Released(market, bid)
    /\ refs' = remove_user_order(refs, bid.trader, bid.seq)
    /\ UNCHANGED <<now, world, vault, loans, account>>

-----------------------------------------------------------------------------
(* Sub-vault asks *)

\* The stored rate is the live bank APR plus the spread, the term the policy's.
VaultAsk(v, seq) ==
    [ trader |-> v, seq |-> seq, rate |-> world.apr + vault[v].policy.spread,
      term |-> vault[v].policy.max_term ]

\* The order reference on the vault: at most one ask per sub-vault and market.
AsksOf(m, v) == {a \in m.asks : a.trader = v}

\* rest_vault_ask: the seat counts it and it takes a block.
rest_vault_ask(m, v) ==
    [m EXCEPT !.asks = @ \cup {VaultAsk(v, m.order_seq)}, !.order_seq = @ + 1,
              !.seats[v].open_lend = @ + 1, !.free = @ - 1]

\* cancel_order_by_index of a sub-vault's order.
cancel_vault_ask(m, ask) ==
    release_address([m EXCEPT !.asks = @ \ {ask}, !.seats[ask.trader].open_lend = @ - 1])

\* A new or repriced ask TAKES: it sweeps the bids it crosses before the
\* instruction ends, without a fill budget.
rest_and_take(v, m) ==
    take_resting_bids(VaultAsk(v, m.order_seq), Cardinality(m.bids),
                      Walking(rest_vault_ask(m, v), 0, 0))

RestAndTake(v, m) ==
    LET done == rest_and_take(v, m)
    IN  /\ ~done.aborted
        /\ market' = done.market
        /\ vault' = done.vault

\* A sunset sub-vault does not quote, and a stored rate has to be a u16.
MayQuote(v) == ~vault[v].sunset /\ world.apr + vault[v].policy.spread <= U16_MAX

\* The market before a first ask: a block for it, and a seat for the sub-vault.
FirstQuote(v) ==
    IF market.seats[v].claimed THEN expand_market_to_free_blocks(market, 1)
    ELSE claim_seat(expand_market_to_free_blocks(market, 2), v)

\* The market before a repriced ask: the old one is cancelled.
Requote(ask) == cancel_vault_ask(expand_market_to_free_blocks(market, 1), ask)

\* The first ask of a sub-vault also claims its seat; a second one is refused
\* (SubVaultOrderExists).
PlaceOrderForSubVault(v) ==
    /\ market.order_seq < MaxOrders
    /\ MayQuote(v)
    /\ AsksOf(market, v) = {}
    /\ RestAndTake(v, FirstQuote(v))
    /\ UNCHANGED <<now, world, loans, refs, account>>

UpdateOrderForSubVault(ask) ==
    /\ market.order_seq < MaxOrders
    /\ MayQuote(ask.trader)
    /\ RestAndTake(ask.trader, Requote(ask))
    /\ UNCHANGED <<now, world, loans, refs, account>>

\* By the curator at any time, by the admin (admin_cancel_sub_vault_order) only on
\* a sunset sub-vault: the same effect.
CancelOrderForSubVault(ask) ==
    /\ market' = cancel_vault_ask(market, ask)
    /\ UNCHANGED <<now, world, vault, loans, refs, account>>

-----------------------------------------------------------------------------
(* Crank, promotion and close *)

\* Mutant: the crank ends at the first ask below the bank's rate.
MUT_match_crank_breaks_at_floor(budget) ==
    Walk(market.asks, FALSE,
         LAMBDA acc, ask : IF acc.stop \/ acc.fills >= budget THEN acc
                           ELSE IF ask.rate < world.apr THEN [acc EXCEPT !.stop = TRUE]
                           ELSE take_resting_bids(ask, budget, acc),
         Walking(market, 0, 0))

\* The asks as they stood, best first, each taking bids while the budget lasts.
match_crank(budget) ==
    Walk(market.asks, FALSE,
         LAMBDA acc, ask : IF acc.fills >= budget \/ ask.rate < world.apr THEN acc
                           ELSE take_resting_bids(ask, budget, acc),
         Walking(market, 0, 0))

\* (The walk is bound by \E so that one step computes it once.)
MatchCrank(max_fills) ==
    /\ UNCHANGED <<now, world, loans, refs, account>>
    /\ \E done \in {match_crank(MaxOf(max_fills, 1))} :
           /\ ~done.aborted
           /\ market' = done.market
           /\ vault' = done.vault

\* A queued node becomes a loan account and its block is free again; the term runs
\* from here, unless the node refinances a loan and keeps its maturity.
ProcessMatchedLoan(node) ==
    /\ market' = release_address([market EXCEPT !.nodes = @ \ {node}])
    /\ loans' = loans \cup {[node EXCEPT !.matures = IF @ = 0 THEN now + node.term ELSE @]}
    /\ UNCHANGED <<now, world, vault, refs, account>>

\* A closed fixed loan gives its shares back at its own snapshot, and both seats stop
\* counting it.
UncountLoan(seats, l) ==
    LET freed    == unencumber_for_order(seats, l.borrower, LoanShares(l))
        borrowed == [freed EXCEPT ![l.borrower].open_borrow = SatSub(@, 1)]
    IN  [borrowed EXCEPT ![l.lender].open_lend = SatSub(@, 1)]

\* Full repayment of a fixed loan: the collateral is released and the principal is
\* idle again in the sub-vault.
Repay(l) ==
    /\ l.lender # NIL
    /\ market.seats[l.borrower].encumbered >= LoanShares(l)
    /\ market' = [market EXCEPT !.seats = UncountLoan(@, l)]
    /\ vault' = [vault EXCEPT ![l.lender].idle = @ + l.principal]
    /\ loans' = loans \ {l}
    /\ UNCHANGED <<now, world, refs, account>>

-----------------------------------------------------------------------------
(* What moves around the market *)

\* Between two seconds of the clock one thing moves: the curator's policy, the
\* sunset flag, the sub-vault's depositors, or the oracles and banks.
ClockTicks ==
    /\ now < MaxTime
    /\ now' = now + 1
    /\ UNCHANGED <<market, loans, refs, account>>

SunsetSubVault(v) ==
    /\ ClockTicks
    /\ vault' = [vault EXCEPT ![v].sunset = ~@]
    /\ UNCHANGED world

UpdateSubVault(v, policy) ==
    /\ ClockTicks
    /\ ~vault[v].sunset
    /\ vault' = [vault EXCEPT ![v].policy = policy]
    /\ UNCHANGED world

VaultFlow(v, level) ==
    /\ ClockTicks
    /\ vault' = [vault EXCEPT ![v].idle = level]
    /\ UNCHANGED world

\* Share values of a bank only grow.
BankMoves(w) ==
    /\ ClockTicks
    /\ w.asv >= world.asv /\ w.lsv >= world.lsv
    /\ world' = w
    /\ UNCHANGED vault

BookNext ==
    \/ \E b \in Borrowers :
         \/ ClaimSeat(b)
         \/ \E atoms \in DepositAtoms :
              \/ Deposit(b, atoms)
              \/ Withdraw(b, amount_to_asset_shares(atoms, world.asv), FALSE)
         \/ Withdraw(b, market.seats[b].withdrawable, TRUE)
         \/ \E bid \in Bids[b], with_vault \in BOOLEAN : PlaceOrder(b, bid, with_vault)
    \/ \E bid \in market.bids :
         \/ CancelOrder(bid)
         \/ \E new \in Bids[bid.trader] : UpdateOrder(bid, new)
    \/ \E v \in SubVaults : PlaceOrderForSubVault(v)
    \/ \E ask \in market.asks : UpdateOrderForSubVault(ask) \/ CancelOrderForSubVault(ask)
    \/ \E node \in Queued : ProcessMatchedLoan(node)

Environment ==
    \/ \E w \in Worlds : BankMoves(w)
    \/ \E v \in SubVaults :
         \/ v \in Sunsettable /\ SunsetSubVault(v)
         \/ \E policy \in Policies : UpdateSubVault(v, policy)
         \/ \E level \in IdleLevels : VaultFlow(v, level)

Crank == \E k \in Budgets : MatchCrank(k)

Next == BookNext \/ Crank \/ (\E l \in loans : Repay(l)) \/ Environment

Spec == Init /\ [][Next]_vars

\* match_crank is permissionless: some keeper keeps calling it.
FairSpec == Spec /\ WF_vars(Crank)

-----------------------------------------------------------------------------
(* Properties *)

BidsOf(b) == {bid \in market.bids : bid.trader = b}

LoansOf(b) == {l \in OpenLoans : l.borrower = b}

\* Shares that b's bids and open loans will give back when they end.
Promised(b) == Sum(BidsOf(b), [bid \in BidsOf(b) |-> OrderShares(bid)])
                 + Sum(LoansOf(b), [l \in LoansOf(b) |-> LoanShares(l)])

\* Collateral is encumbered once, at placement, and then split over partial fills,
\* resting remainders and loans that release it piece by piece at their stored
\* snapshots.  The seat always holds enough for every piece, so no cancel, prune or
\* close can fail on it, and no more than that but for one rounded share unit per
\* fill: nothing would ever release collateral whose orders and loans are gone.
EncumbranceExact ==
    \A b \in Borrowers :
        market.seats[b].encumbered \in Promised(b)..(Promised(b) + market.loan_seq)

SeatShares(t) == market.seats[t].withdrawable + market.seats[t].encumbered

\* All seats together never claim more collateral shares than the market's
\* marginfi account holds, although orders are locked at one share value, released
\* at it after the bank has moved on, and withdrawn at a third.
SeatsBacked == Sum(Borrowers, [b \in Borrowers |-> SeatShares(b)]) <= account.collateral

\* Every block of the market account is on the free list or holds exactly one
\* seat, order or queued loan: walks that consume, prune and shrink orders while
\* they queue loans neither leak nor share a block.
BlocksAccounted ==
    market.blocks - market.free =
        Cardinality({t \in Traders : market.seats[t].claimed})
          + Cardinality(market.asks) + Cardinality(market.bids) + Cardinality(Queued)

\* The asks whose rate plus the fee floor no loan can carry.
Overpriced(asks) == {ask \in asks : ~RateFits(ask)}

\* The block budget an instruction reserves before it walks a book (asks + 1, or
\* one per resting bid and ask) is enough for the worst walk, and no prune inside
\* it underflows: what makes a placement, a crank or a curator's ask abort halfway
\* is only ever an ask whose rate plus the fee floor leaves u16, the curator's own one
\* for its own walk.
WalksComplete ==
    /\ \A b \in Borrowers : \A bid \in Bids[b], with_vault \in BOOLEAN :
         MayPlace(b, bid) /\ place_order(b, bid, with_vault).aborted
           => with_vault /\ Overpriced(market.asks) # {}
    /\ \A k \in Budgets : match_crank(k).aborted => Overpriced(market.asks) # {}
    /\ \A v \in SubVaults :
         AsksOf(market, v) = {} /\ rest_and_take(v, FirstQuote(v)).aborted
           => ~RateFits(VaultAsk(v, market.order_seq))
    /\ \A ask \in market.asks :
         rest_and_take(ask.trader, Requote(ask)).aborted
           => ~RateFits(VaultAsk(ask.trader, market.order_seq))

\* open_borrow_count is the number of the borrower's queued and open loans,
\* whichever of the walks or the fallback created them.
BorrowCountExact ==
    \A b \in Borrowers : market.seats[b].open_borrow = Cardinality(LoansOf(b))

\* Every resting bid can be named by its owner: it is listed on the user account
\* under its current sequence, and no two orders of the market share a sequence,
\* also after repricing and partial fills.
OrdersAddressable ==
    /\ \A bid \in market.bids : bid.seq \in refs[bid.trader]
    /\ \A o1, o2 \in market.bids \cup market.asks : o1.seq = o2.seq => o1 = o2

\* The gates a pair has to pass, with slack atoms of collateral to spare.
Crossed(ask, bid, slack) ==
    LET sub        == vault[ask.trader]
        fill       == MinOf(bid.principal, sub_vault_idle(sub))
        collateral == MatchedCollateral(fill, bid.principal, bid.collateral,
                                        bid.collateral, bid.principal)
    IN  /\ ~is_expired(bid)
        /\ ask.rate >= world.apr
        /\ ask.rate <= bid.rate
        /\ bid.term <= ask.term
        /\ bid.trader # Curator[ask.trader]
        /\ fill > 0
        /\ MeetsCap(fill, collateral - slack,
                    effective_origination_cap_bps(sub.policy.max_ltv, bid.buffer))

TermCurrent(ask) == ask.term <= vault[ask.trader].policy.max_term

FillsMade == market'.loan_seq - market.loan_seq

\* The pro-rata split of each fill rounds by less than an atom in favour of what is
\* left, and the requirement of a smaller fill by at most two.
Rounding == IF FillsMade = 0 THEN 0 ELSE FillsMade + 2

NewBidRestsUncrossed ==
    \A slack \in {Rounding} : \A bid \in market'.bids \ market.bids :
        (\A ask \in market.asks : TermCurrent(ask) => ~Crossed(ask, bid, slack))'

NewAskRestsUncrossed ==
    \A slack \in {Rounding} : \A ask \in market'.asks \ market.asks :
        (\A bid \in market.bids : ~Crossed(ask, bid, slack))'

PlacesBid(with_vault) ==
    \E b \in Borrowers : \E bid \in Bids[b] : PlaceOrder(b, bid, with_vault)

\* A bid that rests after a placement that carried the vault account, and an ask that
\* was placed or repriced, leave no counterpart behind that passes every gate; once
\* something was filled, none that passes them with the rounded atoms to spare.  (An
\* ask whose stored term outgrew the policy is skipped by bids and not by asks.)
NeverWalksPastACross ==
    [][(NewBidRestsUncrossed \/ ~PlacesBid(TRUE)) /\ NewAskRestsUncrossed]_vars

\* protocol-design.md: "a taking instruction never walks past a cross it can fill":
\* "every pair the engine skips fails at least one gate".  So stated, of every
\* placement, the program does not keep it: the vault account is optional.
EveryPlacementTakes ==
    [][NewBidRestsUncrossed \/ \A with_vault \in BOOLEAN : ~PlacesBid(with_vault)]_vars

LoanHonoursTerms(l) ==
    /\ ~vault[l.lender].sunset
    /\ l.lender_rate >= world.apr
    /\ l.borrower_rate >= l.lender_rate + FeeFloorBps
    /\ l.borrower # Curator[l.lender]
    /\ MeetsCap(l.principal, l.collateral, l.origination_ltv)

\* No path mints a fixed loan outside the lender's policy: never below the live
\* bank rate, without the protocol's spread, against the lender's own curator, from
\* a sunset sub-vault, or with less collateral than the stamped cap asks at live
\* prices, however stale the two resting orders are.
FillsHonourTerms ==
    [][\A l \in market'.nodes \ market.nodes : l.lender # NIL => LoanHonoursTerms(l)]_vars

\* A crossed pair does not stay crossed: some keeper's crank fills it, behind
\* stale asks, expired bids and pairs that fail a gate, however small its budget.
\* (A crank that reaches a pair whose rate plus the fee floor leaves u16 reverts.)
CrossesGetFilled ==
    []<>(\A ask \in market.asks, bid \in market.bids : RateFits(ask) => ~Crossed(ask, bid, 0))

=============================================================================
