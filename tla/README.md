# yDelta in TLA+

yDelta is a Solana program for fixed-rate lending. Lenders deposit into
*sub-vaults* of a *GlobalVault*; a curator rests asks for its sub-vault in a
market; borrowers bid with collateral; a match is queued and later *promoted*
to a loan account; the loan is repaid, liquidated or settled after maturity;
what is paid is swept back into the vault. All idle tokens sit in marginfi, a
lending pool that keeps balances as shares of a changing value.

This directory models the program's accounting, its order book, its access
rules and the tree its books live in, and checks them with TLC on small
instances. What TLC checks of the loan, of the lenders' ledger, of the order
book, of pool loans and of the access rules is, with the exceptions named under
*Proofs*, also proved with TLAPS for all parameters.

## Inventory

Instructions are atomic (a failing check reverts the whole instruction), so
there are no threads. What is hard is the **order** in which independent
signers (depositors, curators, borrowers, liquidators, permissionless keepers,
admins) send instructions against shared accounts, together with **rounding**:
every amount crosses the shares/atoms boundary several times.

| Component | State | Operations | Correct when |
|---|---|---|---|
| Loan body (`state/loan.rs`) | debt, three claim buckets, paid so far, last accrual | create, `accrue_loan`, `apply_partial_resolution` | claims = paid + owed; the debt does not depend on accrual times; closed iff paid |
| Close paths (`repay`, `liquidate_loan`, `settle_matured_loan`) | loan, borrower seat, collateral account, lender seat, sub-vault ledger, protocol fees | pay part or all | collateral leaves only against debt; the seat is backed by the account; the ledger loses exactly what the loan had added |
| Sub-vaults (`state/vault.rs`, deposit, withdraw, admin) | shares, assets (NAV), principal, deployed, encumbered, weighted rates, pending, fees, counters | accrue, deposit, withdraw, create, sunset, resume, remove | shares = positions; no dilution; capital has an owner; solvent against custody |
| Sub-vault asks | one resting ask per (market, sub-vault), counters | place, update, cancel | counters agree with the book |
| Matching (`match_order`, `match_resting_bids`, `match_crank`) | books, matched-loan queue, sub-vault idle atoms, free blocks | a bid takes asks, an ask takes bids, the crank pairs both | no fill outside the lender's terms; no cross left behind by a walk that has the vault; a walk never runs short of blocks or shares halfway |
| Borrower orders and seats | bids, collateral buckets, loan counter, order references | claim_seat, deposit, withdraw, place, update, cancel | encumbered = what bids and loans give back; seats backed by the account |
| P2Pool loans | liability shares per loan, one shared marginfi account | fallback, repay, liquidate, settle, convert | debt never moves between borrowers; a conversion completes |
| Promotion (`process_matched_loan`) | vault and lender marginfi accounts, ledger | promote, withdraw principal + 1 | totals = sums over loans |
| Sweeps and fee claims | seat claims, pending, fees, lender account | sweep, curator fee, protocol fee, borrower withdraw | claims are backed |
| marginfi adapter, `math.rs`, `state/ltv.rs` | none | conversions, required collateral, seizure split | rounding favours the protocol |
| Administration and account contexts | admins, curators, nominees, pauses, fee and risk parameters | create, hand over, pause, configure; one context per instruction | roles pass only as signed; nothing moves where paused, nor between markets or vaults |
| hypertree (`src/lib`) | nodes of one account, root, cached maximum | insert, remove, lookup, iterate | a red-black tree that lists by key, first come first served |
| Oracles, rate curve, builders, logs, SDK | | | not modelled, see the end |

Interactions: a **fill** writes the sub-vault (encumbered, counters), the seat
and the queue. A **promotion** moves atoms from the vault's marginfi account to
the market's lender account and the fill from encumbered to deployed. A
**payment** adds atoms to the lender account, credits the lender's seat and, if
it clears the debt, closes the loan out of the ledger. The **sweep** moves the
seat's claim back into the vault's account. A **conversion** is a walk over the
asks that pays a pool loan off out of the vault's account, queues fixed loans in its
place and books them on the crossed sub-vaults at once. One vault account serves
all sub-vaults of a bank; one lender account serves lenders, borrowers and the
protocol of a market. `PROJECT.json` lists the hazards that follow, each at its
line, with the properties that would catch it.

## Modules

| Module | Models |
|---|---|
| `Fp48Math` | `math.rs` and the conversions of `protocol/marginfi.rs`; `SCALE` stands for 2^48 |
| `LoanFixed` | `state/loan.rs`: the loan record, accrual, payment, what the three close handlers do to the body |
| `Ltv` | `state/ltv.rs`, `compute_collateral_split` |
| `LoanLifecycle` | state machine: one loan, the collateral behind it, the borrower's seat and collateral account; `Tick`, `Repay`, `LiquidateLoan`, `SettleMaturedLoan` |
| `SubVaultLedger` | state machine: sub-vaults, depositors, asks, queue, loans, seats and the two marginfi accounts; one action per instruction |
| `OrderBook` | state machine: one market with its two books, seats, queue, blocks and order references; both matching walks and the crank |
| `P2Pool` | extends `OrderBook` with pool loans: repay, liquidate, settle, convert |
| `RedBlackTree` | `src/lib/src/red_black_tree.rs`, pointer write by pointer write |
| `PriorityList` | the abstract list that `RedBlackTree` implements |
| `Access` | state machine: roles, pauses, parameters, and the account context of every instruction |
| `Sums` | a sum as the cardinality of a union of disjoint intervals, so that it can be reasoned about without recursion |
| `ArithLemmas` | lemmas: division, rounding, conversions between atoms and shares |
| `LoanFixedLemmas` | lemmas: what accrual and payment do to a loan body, used by the loan's and the ledger's proofs |
| `SetLemmas` | lemmas: what holds of a fold over a finite set, by induction over the subsets it walks; how a sum changes with one summand, one index more or less |
| `LoanLifecycleProofs`, `SubVaultLedgerProofs`, `OrderBookProofs`, `P2PoolProofs`, `AccessProofs` | the theorems about the module of that name |
| `MC...` | constants for TLC |

Names follow the source: operators that translate a function keep its
snake_case name, fields drop the suffixes `_atoms`, `_bps`, `_unix`, and an
action is the instruction in CamelCase. Operators named `MUT_...` are
deliberately wrong variants of the operator that follows them: each property
below is known to fail when its variant replaces the original.

### LoanLifecycle

`loan` is the `LoanFixed` account, `seat` the borrower's `ClaimedSeat`,
`account` the borrower's marginfi collateral account in shares, `collateral`
the loan's `collateral_atoms`. `Init` is what promotion leaves, for every
principal, rate, spread, curator fee and collateral of the constants. Oracle
prices are chosen afresh by each liquidation (any price may be reported at any
time); the collateral share value only grows, as marginfi's does unless it
socialises a loss. Each action accrues first, applies the handler's checks,
the body update, the fee transfer, the clawback, the seat and the account.

### SubVaultLedger

`sub`, `position`, `asks`, `seat`, `loan`, `vaultAccount`, `lenderAccount`,
`borrowerClaim` and `protocolClaim` are the on-chain fields of the lender's
side, and `dust` what conversions leave in the market's token vault; every
instruction that writes a sub-vault's amounts or counters is an action. The debt bank's
share value may rise and fall.

`ConvertP2PoolToFixed` is the lender's side of a conversion: `order` lists the asks
that the scan crosses, best first and at most one of a sub-vault; each gives what it
can lend or what is left of the live debt, which they cover exactly. The crossed
sub-vaults are reserved, accrued and deployed in the same step (`Refinanced`), so the
queued nodes are *presettled*: `ProcessPresettledLoan` only turns them into loan
accounts. The vault's account pays the live debt, and one atom more if the loan is
all that the borrower account owes (`whole`). Abstractions:

- One market, pooled sub-vaults. A bid is the pair (rate, principal still
  wanted) given to `MatchFill`; the loops of `place_order`, `match_crank` and of
  the curator's own instructions, which `OrderBook` has as whole walks, are
  repeated fills here. A maker that the scan skips is a fill that does not happen.
- The pool loan that a conversion refinances is given by its live debt and by
  `whole`; the loan itself, its borrower and the walk's gates are `P2Pool`.
- Collateral is left out: a loan may be liquidated at any time, with or without
  bad debt (a superset of what prices allow).
- The borrowers' claims are one total. Yield indices and user-account mirrors,
  which no instruction reads back into the ledger, are left out.
- Amounts are unbounded naturals: overflow of u64/u128 aborts the instruction.
- `ShareValues` are at most `SCALE * SCALE` (a share is worth at most 2^48
  atoms), so a payment of one atom always credits a share; the code's
  `credited_shares > 0` tests are then always true.

### OrderBook and P2Pool

`market` is the market account: `asks`, `bids`, `nodes` (the matched-loan
queue), `seats`, the two sequence counters and the blocks with how many of them
are free. `vault` is what a fill reads and writes of a sub-vault, `loans` the
promoted accounts, `refs` the order references of the user accounts, `account`
the market's borrower marginfi account. Every instruction is one action that
runs its whole walk: `Walk` applies `match_ask` or `match_bid` to the orders from
best to worst, threading the market, the vault, what the taker has left and
whether the walk stopped or aborted. A skip returns the accumulator, a `break`
sets `stop`, an empty free list or a failed check sets `aborted`, and an action
whose walk aborted is not enabled: the instruction reverted. One such check is
`require!(ask_rate + fee_floor <= u16::MAX)` inside each fill (`RateFits`; `U16_MAX` is a
constant). `PlaceOrder` takes `with_vault`: the sender may leave the vault account out,
and `match_order` then skips every ask. `Walk` is a fold of
the set of orders in which the order taken last is the `Worst` one left. A fill
counts its loan at the seat (`CountLoan`) and queues it (`QueueLoan`); a close
releases the loan's shares (`Released`) and takes it out of the count
(`UncountLoan`).

- Oracle prices, the bank's APR and share values, policies, the sunset flag and
  the depositors' effect on idle atoms move with the clock, one at a time
  (`MaxTime` bounds them together). `VaultFlow` stands for all that deposits and
  withdrawals do here: it sets a sub-vault's idle atoms to any of `IdleLevels`.
- A full repayment stands for every close of a fixed loan; partial payments and
  seizures are `LoanLifecycle`.
- In `P2Pool` each loan records liability shares and pays whole atoms to an
  account that all pool loans share: which loan lost which share is only the
  bookkeeping of `RepayPool`, `LiquidatePool`, `SettlePool` and
  `ConvertP2PoolToFixed`. `LiabilityAttributed` bounds how far that drifts from the
  account; the constants 1 and 2 in it are the roundings of one close.

### RedBlackTree and PriorityList

The tree is `node`, `root`, `max` and the blocks in use. A block always holds a
value of the same key, so that keys are a constant; equal keys are included.
Rotations, the swap with the successor and both fix-ups are the code's
assignments in the code's order, with loops written as recursive functions.
`ImplementsPriorityList` is the refinement: `queue` is what the iterator lists
from the cached maximum downwards.

### Access

Each account context of `validation/loaders.rs` is an operator over the market
or vault loaded and the one the other accounts belong to; `Foreign` stands for
accounts of a market or vault that is not among `Markets` or `Vaults`. Instructions
are actions that pass their context, check their signer and record in `moved`
whose value they moved. `said` is a history variable: whom each key last signed
a nomination of. `TLC` does not tell states apart by `moved` (`VIEW NoMoved`): no
guard reads it, and action properties are evaluated on every step.

## Runs

| Run | Instance | Shows |
|---|---|---|
| `loan_lifecycle` | one loan of 3 or 8 atoms, four ticks, any installments, two prices, two collateral share values, a term that ends inside the run | conservation, path independence, fee split, closing, encumbrance, backing, dust, collateral |
| `sub_vault_shares` | two (symmetric) depositors, one loan over two intervals whose yield is a fraction of an atom, matched or refinanced, share value 2/2 or 3/2; 269,110 states | shares = positions, no ownerless capital, NAV at least principal, no dilution |
| `sub_vaults_shared` | two sub-vaults, two loans, matched or refinanced, one account; 448,423 states | solvency, totals = sums, counters = book, no orphans |
| `order_book` | two borrowers, two sub-vaults (one curated by a borrower), three orders, two seconds, two policies, two worlds, crank budget 1, placements with and without the vault, a rate that does not fit with the floor; 199,806 states | encumbrance, backing, blocks, walks, counts, references, no cross passed, terms honoured, crosses filled |
| `p2pool` | two pool loans of different sizes, two asks to refinance from, three seconds, two worlds with growing share values; 578,900 states | attribution of the shared debt, backing, complete conversions, terms honoured |
| `red_black_tree` | nine blocks, a pair and a triple of equal keys; 18,630 trees | links, colours, lookup, cached maximum, refinement of `PriorityList` |
| `access` | two keys, one market and one vault next to foreign accounts, one sub-vault, one loan, two edits; 108,659 states | sound parameters, authorised handovers, nothing moves where paused or between scopes |
| `pending_claim`, `vault_idle`, `market_claims`, `optional_vault`, `private_owner` | as small as the disagreement allows | expected violations, next section |

Why the bounds are enough: basis points are tenths, a year is one or two
ticks and `SCALE` is 1, 2, 4 or 10, so every division that rounds on chain rounds
here too, with errors as large as the amounts; two loans, two sub-vaults and
two depositors are the least that can disagree about a shared account; two
intervals are the least that separates accruing once from accruing twice.
Nine blocks are enough for every case of both fix-ups, with adjacent and
distant successors; two asks and two bids are the least where a skip and a stop
differ, and three orders leave room for a repricing between them; a budget of
one fill makes the crank come back. In `order_book` the bids include one that
expires, one that is dropped, one that falls back to the pool, and a borrower
that curates the better ask. `MaxShares` and `MaxCollateral` cap deposits,
`MaxTime` the clock, `MaxLoans`, `MaxOrders` and `MaxSubVaults` the ids, `MaxEdits`
the administrative changes. Where the share value is fixed at 1, solvency is
checked exactly; with moving share values it is not stated, because marginfi's
own interest then changes both sides.

Deadlock checking is off where clock and ids are bounded, so that behaviours
end; in `red_black_tree` nothing is, and it is on.

**Fairness.** `FairSpec` of `OrderBook` assumes weak fairness of `Crank` and of
nothing else: `match_crank` is permissionless and takes nothing but a budget, so
it is enough that some keeper keeps calling it. Under it `CrossesGetFilled` says
that the book is uncrossed again and again, although the crank's budget is one
fill and a pair may lie behind stale asks and expired bids. (The instance bounds
the orders, so it also shows that a crossed book does not stay crossed once
orders stop coming.) It is claimed of pairs whose ask fits a u16 with the fee floor: a
crank that reaches another reverts. Asks are walked cheapest first, so a budget that is
spent before the overpriced ask gets by, as the run's budget of one fill does; a larger
one may not. All other properties are safety or action properties.

## Where code and documentation disagree

Each is a run expected to fail, with the quoted line in `PROJECT.json`.

- `pending_claim` (`PendingIsUnswept`): a closing payment adds the loan's whole
  `lender_claimable` to `pending_claim_atoms` even if part of it was paid
  earlier and already swept. The excess is never removed: the sub-vault cannot
  be removed, and `accrue_sub_vault` understates idle atoms or fails. (The
  comment at `vault.rs:350` speaks of the principal instead.)
- `vault_idle` (`VaultIdleInvariant`): each promotion withdraws principal + 1 and
  writes the spare atom off, while only one atom of reserve is kept, at match
  time. Two queued fills and a withdrawal take total principal below deployed
  plus encumbered. A later loan can then push `accrue_sub_vault` into its
  `checked_sub`.
- `market_claims` (`MarketClaimsBacked`): installments go to the lender whole,
  protocol fees are booked by the last payment; a small last payment cannot
  carry them once the installments have been swept.
- `optional_vault` (`EveryPlacementTakes`): `protocol-design.md:135` promises that "a
  taking instruction never walks past a cross it can fill". `place_order` takes the vault as
  an optional account, and `match_order`, whose comment calls that case "used in
  tests", skips every ask without it: the bid rests crossed in the instruction that
  placed it. `NeverWalksPastACross` is the part of the promise that the code keeps.
- `private_owner` (`PrivateSoleOwner`): `process_transfer_curator` does not look at
  the sub-vault's kind. The curator of a Private sub-vault is its owner; after a
  handover the old owner's shares are still there, its withdrawal is refused
  because it is not the curator, and the new curator may deposit beside them.

Met while modelling and visible in the modules, without a run of their own:

- `state/loan.rs:630`: after partial payments the floors of two fee buckets can
  make the final payment fail. `FullRepayRefusedOnlyForDust` shows (and the proof
  confirms) that this happens only when the lender's part is below one atom.
- `settle_matured_loan.rs:392`: a closing settlement that withdraws no collateral
  does not decrement `open_borrow_count` (`SettledSeat`).
- `settle_matured_loan.rs:340`: a partial settlement of a pool loan that leaves at
  most an atom closes the loan while only the pro-rata collateral is released;
  nothing releases the rest. `EncumbranceExact` is therefore not claimed of `P2Pool`.
- `repay.rs:265` says "Sibling shares are never touched": the atoms paid are
  rounded up, so a close may burn up to an atom of a sibling loan's shares
  (the first bound of `LiabilityAttributed`). Liquidation and settlement compare
  the recorded shares with the account without the clamp that `repay` uses.
- `convert_p2pool_to_fixed.rs:338`: the conversion of the only pool loan withdraws one
  atom more from the vault than it books; what the repayment does not use stays in
  the market's token vault, and no ledger writes it off (a promotion does).
  `VaultSolvent` says that the vault is short of these atoms (`dust`) and of nothing
  else. The conversion also leaves the old loan on the user account's list.
- `market_helpers.rs:640`, `:1791`, `:2120`: a spread is not bounded by `u16::MAX` less the
  fee floor, so a curator can quote an ask that every fill must refuse, and each bid, crank
  or conversion that reaches it reverts (the exception in `WalksComplete`,
  `ConversionsComplete` and `CrossesGetFilled`).
- `place_order.rs:46`, `update_order.rs:34` call the rate the "Maximum borrower-paid
  rate": the borrower pays the larger of the bid and ask plus fee floor.
- `match_bid` does not compare an ask's stored term with the policy's `max_term`,
  which `match_ask` does: an ask whose policy was shortened is still filled by
  the crank (the exception in `NeverWalksPastACross`).
- Order references of bids that a fill consumed stay on the user account
  (`OrdersAddressable` is one-directional).
- `create_market.rs:1` ("Permissionless", the first caller becomes admin) and
  `global_config_admin.rs:4` (the first caller becomes `protocol_admin`): the
  contexts require the protocol admin and the upgrade authority.
- A pause also blocks repayment, liquidation and withdrawal, while interest and
  maturity run on.

## Proofs

36 theorems, listed in `PROJECT.json`, hold for **every** value of the constants.
They use nothing but the ASSUMEs of the modules they are about (`ScaleAssumption`,
`YearAssumption`, `LifecycleAssumption`, `LedgerAssumption`, `BookAssumption`,
`PriceAssumption`, `PoolAssumption`, `AccessAssumption`, `NodeAssumption`), which
TLC evaluates on the instances. They bound no amount, price, rate or set beyond what
the types of the program do, except that share values of the ledger and liability
share values of the pool are at most `SCALE * SCALE` (see above; marginfi starts
them at one atom), that a collateral price times any cap is not below the resolution
of fixed point, that names of sub-vaults are no names of accounts, and that the
order book starts with at most one resting ask (`PlaceOrderForSubVault` adds the
others).

### LoanLifecycleProofs

All nine properties that `loan_lifecycle` checks:

1. *The body.* Conservation is inductive with the type invariant, because each
   accrual splits one cumulative amount by subtraction and each payment moves
   the same amount between the two sides. Path independence needs that
   `last_accrued` never passes `now` and that rates, principal and start never
   change: the charge is a telescoping difference of one cumulative function.
   The fee split needs the cumulative curator part below the cumulative gross.
2. *Types.* That no bucket goes below zero is the hard part of `TypeOK`: it
   needs monotonicity of `mul_div`, that the curator's slice of a difference is at
   most the difference, and that the liquidation fee is capped.
3. *The seat.* `EncumbranceCoversLoan` is strengthened by superadditivity of the
   floored conversion: releasing floor(a) and then floor(b) releases at most
   floor(a + b). `SeatBackedByAccount` also needs that shares burned at today's
   share value are at most those released at the snapshot, from
   `shareValue >= snapshot`.
4. *Dust.* A refused final payment means two floors lost more than one atom of
   the residual; with conservation this bounds the lender's part.

### SubVaultLedgerProofs

All properties of `sub_vault_shares` and `sub_vaults_shared` but `VaultSolvent`:
`TypeOK`, `SharesMatchPositions`, `NoOwnerlessCapital`, `AssetsCoverPrincipal`,
`LedgerMatchesLoans`, `CountersMatchBook`, `NoOrphans` and the action property
`NoDilution`.

The invariants are not inductive one by one. A close-out subtracts figures of the
loan account from totals that were built from its node, so the two must agree and
the principal must be above zero (`SoundLoans`); a fill writes the node at
`matched_loan_sequence` and a creation the sub-vault at `next_sub_vault_id`, so
those beyond must be untouched; a cancelled ask must have been the only one of its
sub-vault (`OneAskEach`). `IInv` is `TypeOK`, `BookAt(v)` for each sub-vault (its
shares, totals and counters against positions, loans and asks), `SoundLoans`,
`OneAskEach` and `NoOrphans`. All instructions but one write one sub-vault and at most
one loan: `OthersKeepBook` disposes of all other sub-vaults, and `SetLemmas` says how a
total moves with the one loan that changed. A conversion writes every crossed
sub-vault and a loan for each (`ConvertInv`): since its asks belong to different
sub-vaults, each sub-vault gets at most one of the new loans (`CrossedOnce`), so that
its totals again move with one loan (`NewLoansGood`, `NotCrossed`). `NoDilution` is cross-multiplied
arithmetic: shares are minted at assets, which are at least principal, and
burned against a floored part of the principal.

### OrderBookProofs

All properties of `order_book` but the liveness of `CrossesGetFilled`: `TypeOK`,
`EncumbranceExact`, `SeatsBacked`, `BlocksAccounted`, `WalksComplete`,
`BorrowCountExact`, `OrdersAddressable` and the action properties `FillsHonourTerms`
and `NeverWalksPastACross`, for any number of borrowers, sub-vaults and orders, and any
crank budget.

The difficulty is that an instruction is a whole walk: an unbounded number of
fills inside one step, each writing the books, two seats, the queue and the
blocks. The invariant `Book(m, L, b, n)` therefore describes a market *between*
two writes: no two orders and no two loans share a sequence, counters are
cardinalities, blocks are accounted for, and each seat is encumbered for what its
bids and loans give back, plus at most one share for each loan ever made, plus
`n` shares of borrower `b` that are in flight from an order to a loan. `IInv` is
`Book` with nothing in flight, every bid listed on its owner's user account
(`Listed`), and the account covering all seats (`Backed`). Three layers:

1. *Primitive changes* (`LoanKeepsBook`, `DropKeepsBook`, `PutKeepsBook`,
   `MoveKeepsBook`, `ReleaseKeepsBook`, ...): one loan added, one bid dropped or
   put, shares moved on a seat, and how many shares that leaves in flight. Here the
   one share per loan comes from: the floors of two parts of a collateral lose at
   most one share against the floor of the whole (`SplitShares`).
2. *Walks* (`AskWalk`, `BidWalk`, `CrankKeeps`). `SetLemmas` turns a fold over a
   finite set into a function on its subsets, so that "what holds of the
   accumulator" is a set of subsets closed under adding the order met next. The
   invariant of a taking bid (`Taking`) also says that what is left of its collateral
   is never less than its principal's proportion, so a fill can always take its
   part; with a free block for every order still to meet, only `RateFits` can abort a
   walk: an aborted one has met an ask in `Overpriced`. That is `WalksComplete`, for a
   taking bid, the crank and both instructions of a curator
   (`WalksRunShortOfNothing`). `Since` says of every loan queued since the walk began that it
   honours its lender's terms, which gives `FillsHonourTerms`.
3. *Instructions*, one lemma per action: the walk, then what it does to the
   order references, the account and the residual of the taking bid.

`NeverWalksPastACross`, which speaks of bids placed with the vault account and of asks,
needs a second walk argument: for every order that a walk
has met, which gate kept it apart from the taker (`AskMet`, `BidMet`), and that the
gate still does when the walk ends. Rates, terms and wallets do not move; idle
atoms and the taker's principal only shrink; and a walk stops at a rate that all
later orders are beyond, since it meets them best first (`IsLast`). What is left is
the LTV gate: it refused a fill of one size, and later fills shrink the size. In
exact arithmetic a smaller fill of the same order has the same LTV. In the code's,
the share of collateral and the requirement round separately, so a smaller fill may
pass by a few atoms: `Short` says that a refused order lacks collateral for every
smaller fill but for two atoms (`RequiredBounds`, `SmallerAsks`), and `Left` that what is
left of the taker exceeds its proportion by less than an atom per fill. These are
the `FillsMade + 2` atoms of `Rounding`; a walk that filled nothing has none to spare. The
requirement divides by price and cap, and `PriceAssumption` says that no price is so
small that the divisor is zero (`required_collateral_at_ltv_cap` fails there).

`Book` and `Inv` take a mode. `"Exact"` is the one above. `"AtLeast"` drops the two
parts that settling a pool loan breaks (`open_borrow` as the number of loans, and the
upper bound of what is encumbered: see `settle_matured_loan.rs:340` and `:392` above).
Every lemma on changes, walks and instructions is proved for both, so that
`P2PoolProofs` can build on them.

### P2PoolProofs

All four properties of `p2pool`, that is `LiabilityAttributed`, `ConversionsComplete`,
`SeatsBacked` and `FillsHonourTerms` of `PoolSpec`, and three facts that no run
checks: with pool loans too `TypeOK` holds, no walk runs short and no block is lost
(`WalksStayComplete`), and the release at the end of a repayment or conversion is
always covered (`ReleasesCovered`).

`PoolInv` is `Inv("AtLeast")` and `Agree(Owed, liability, Gone)`: the shares that the
pool loans, queued and promoted, record, the shares that the account owes, and the
number of loans closed so far. Neither bound of `LiabilityAttributed` is inductive
alone, because a payment clamps the loan's record to the account, and it is the
account's being short that makes the record shrink by more than is burned.

1. *Rounding* (`BurnsAtMost`, `LeavesAtMost`, `PaidMeans`). The atoms of `s` shares,
   rounded up, convert back to at most an atom's shares more than `s`, and leave less
   than a share and a unit of scale. A remainder that counts as paid is less than two
   atoms. These are the 1 and the 2 in `LiabilityAttributed`, and the reason why a
   conversion always ends its loan (`ConversionPays`).
2. *Records*. A step of the order book moves records and account by the same amount
   (`BookKeepsPool`, from `Booked` in `OrderBookProofs`: it queues at most one pool loan,
   promotes a loan unchanged, or closes one that has no record). A payment takes the
   record away or shrinks it (`AgreeCloses`, `AgreeShrinks`).
3. *Payments* (`PaymentKeeps`). The seat gives up no more than the loan's shares at
   the snapshot, so the other loans stay covered, and no less than what the account
   pays out at today's share value, so that the seats stay backed.
4. *Conversion* (`RefinanceWalk`, `ConvertKeeps`). The walk queues fixed loans while
   the old one still stands: `Refinancing` is `Book` with the shares in flight that are
   promised twice. `AccsFor` keeps the collateral left in proportion to the principal
   left, so no fill takes more than there is, and the free blocks outnumber the asks
   still to meet, so none aborts but at an overpriced ask.

### AccessProofs

`TermsSound`, and the action properties `HandoverAuthorised` and `OnlyOpenScopesMove`.
`IInv` says that a role without an account is vacant, that a pending key is the one
the *present* holder signed for last (`RolesInv`: this fails if an acceptance, or a
removal and re-creation under the same id, leaves a nomination behind), that
sub-vault ids are handed out once (`IdsInv`), that fees are below their caps
(`FeesInv`), policies are valid (`SubsInv`), and that a fixed loan's lender is a
sub-vault of its market's debt bank with the liquidation gap (`LoansInv`). Each
context of `validation/loaders.rs` then yields what the instruction's moves need.

### Only model-checked

- `SubVaultLedger.VaultSolvent`: checked at a share value of 1. In general each
  conversion floors, and a share value that does not divide `SCALE * SCALE` loses
  part of a share at every operation, so it does not hold in this form for all
  constants; with rounding terms per operation it would be another property.
- `RedBlackTree` and its refinement of `PriorityList`: the loops of the fix-ups are
  recursive, and what they compute for every tree needs induction over data.
- Liveness (`CrossesGetFilled`) and reachability (the expected violations), which
  are outside this prover's reach.

## Plan

Done: all state machines of the program's own logic (loans, lender ledger,
order book, pool loans, access, tree), their runs, the refinement of the tree,
the crank's liveness, and the proofs of the loan, the lender ledger, the order
book, pool loans and the access rules. What would come next: an abstract
`LenderPool` (capital idle, lent or claimable) that `SubVaultLedger` implements under
a refinement mapping.

## Not modelled

- Oracle decoding and marginfi's interest-rate curve (`protocol/oracles.rs`,
  `protocol/marginfi_rate_calc.rs`): pure functions of external accounts. Their
  results are inputs of every module, chosen freely.
- CPI encoding, balance parsing and PDA derivation.
- The free list of hypertree beyond the number of its blocks.
- Yield indices and position rows shown to users, which no instruction reads.
- Mints of different decimals: amounts are in one unit.
- Instruction builders, logs, the TypeScript SDK, scripts, mocks and tests.
