--------------------------- MODULE SubVaultLedger ----------------------------
(***************************************************************************)
(* The lender side of the protocol: one GlobalVault with its sub-vaults,   *)
(* their depositors, the asks they rest in one market, the matched-loan    *)
(* queue, the promoted loans and the two marginfi accounts that hold the   *)
(* debt tokens (the vault's and the market's lender account).              *)
(*                                                                         *)
(* Every instruction that writes a sub-vault's ledger is an action here.   *)
(* Each runs atomically (one Solana instruction); what interleaves is the  *)
(* order in which depositors, curators, borrowers, keepers and admins send *)
(* them.  A check that fails reverts the instruction, so it is a guard.    *)
(*                                                                         *)
(* The borrower side of a loan (collateral, prices) is LoanLifecycle: here *)
(* an open loan may be liquidated at any moment, with or without bad debt. *)
(***************************************************************************)
EXTENDS LoanFixed, Sums, Sequences

CONSTANTS
    MaxSubVaults,      \* bound: sub-vaults ever created
    MaxLoans,          \* bound: fills ever matched (matched_loan_sequence)
    MaxTime,           \* bound: the clock stops here
    MaxShares,         \* bound: shares the vault's marginfi account may hold
    Depositors,
    DepositAmounts,    \* atoms a deposit may bring
    BurnAmounts,       \* sub-vault shares a withdrawal may burn
    AskRates,          \* rates a curator may quote (bps)
    BidRates,          \* rates a bid may offer (bps)
    Demands,           \* principal a bid may still want
    Installments,      \* atoms of a partial payment
    WithdrawAmounts,   \* atoms a borrower may withdraw, short of all it has
    ShareValues,       \* the debt bank's asset_share_value
    FeeFloorBps,       \* minimum borrower/lender spread
    OriginationBps,    \* fee_config.origination_bps
    ProtocolBps,       \* fee_config.liquidation_protocol_bps
    CuratorFeeBps,     \* curator_fee_bps of the sub-vaults
    Term,              \* term_seconds + fee_config.grace_period_seconds
    MinPartialRepay    \* MIN_PARTIAL_REPAY_FLOOR_ATOMS

ASSUME LedgerAssumption ==
    /\ MaxSubVaults \in Nat \ {0}
    /\ MaxLoans \in Nat \ {0}
    /\ MaxTime \in Nat \ {0}
    /\ MaxShares \in Nat
    /\ IsFiniteSet(Depositors)
    /\ DepositAmounts \subseteq Nat \ {0}
    /\ BurnAmounts \subseteq Nat \ {0}
    /\ AskRates \subseteq Nat
    /\ BidRates \subseteq Nat
    /\ Demands \subseteq Nat \ {0}
    /\ Installments \subseteq Nat \ {0}
    /\ WithdrawAmounts \subseteq Nat \ {0}
    /\ ShareValues \subseteq 1..(SCALE * SCALE)
    /\ FeeFloorBps \in Nat
    /\ OriginationBps \in 0..BPS_PER_UNIT
    /\ ProtocolBps \in 0..BPS_PER_UNIT
    /\ CuratorFeeBps \in 0..BPS_PER_UNIT
    /\ Term \in Nat
    /\ MinPartialRepay \in Nat

VARIABLES
    now,             \* Clock::unix_timestamp
    shareValue,      \* the debt bank's asset_share_value
    sub,             \* the SubVault tree of the GlobalVault
    next_id,         \* next_sub_vault_id
    position,        \* SubVaultDepositorSeat.shares per sub-vault and depositor
    asks,            \* the market's resting asks, at most one per sub-vault
    seat,            \* the sub-vaults' ClaimedSeats in the market
    loan,            \* the matched-loan queue and the loan accounts
    next_loan,       \* matched_loan_sequence
    vaultAccount,    \* shares on the vault's marginfi account
    lenderAccount,   \* shares on the market's lender marginfi account
    borrowerClaim,   \* the borrowers' debt_withdrawable_shares
    protocolClaim,   \* accumulated_protocol_fee_shares
    dust             \* atoms that conversions leave in the market's token vault

vars == <<now, shareValue, sub, next_id, position, asks, seat, loan, next_loan,
          vaultAccount, lenderAccount, borrowerClaim, protocolClaim, dust>>

SubVaultIds == 1..MaxSubVaults       \* 1-based; 0 is the sentinel
LoanIds == 1..MaxLoans

\* A SubVault: Absent before its creation, Removed after; is_sunset is Sunset.
SubVault ==
    [ status                  : {"Absent", "Open", "Sunset", "Removed"},
      total_shares            : Nat,
      total_assets            : Nat,
      total_principal         : Nat,
      deployed_principal      : Nat,
      encumbered_in_orders    : Nat,
      total_weighted_rate     : Nat,
      total_weighted_net_rate : Nat,
      accumulated_curator_fee : Nat,
      pending_claim           : Nat,
      open_orders_count       : Nat,
      open_loans_count        : Nat,
      last_accrue             : Nat,
      last_supply_share_value : Nat ]

ClaimedSeat == [ debt_withdrawable : Nat, open_lend_count : Nat ]

\* Queued is a MatchedLoan node, Presettled one with that flag, whose principal has
\* left the vault already; Active is a loan account and Closed a closed one.
MatchedLoan ==
    [ status      : {"Unused", "Queued", "Presettled", "Active", "Closed"},
      sub_vault   : SubVaultIds \cup {0},
      principal   : Nat,
      origination : Nat,
      lender_rate : Nat,
      borrower_rate : Nat,
      curator_fee : Nat,
      body        : Loans ]

Ask == [ sub_vault : SubVaultIds, rate : Nat ]

TypeOK ==
    /\ now \in Nat
    /\ shareValue \in ShareValues
    /\ sub \in [SubVaultIds -> SubVault]
    /\ next_id \in Nat
    /\ position \in [SubVaultIds -> [Depositors -> Nat]]
    /\ asks \subseteq Ask
    /\ seat \in [SubVaultIds -> ClaimedSeat]
    /\ loan \in [LoanIds -> MatchedLoan]
    /\ next_loan \in Nat
    /\ vaultAccount \in Nat
    /\ lenderAccount \in Nat
    /\ borrowerClaim \in Nat
    /\ protocolClaim \in Nat
    /\ dust \in Nat

-----------------------------------------------------------------------------
(* Records *)

SubVault_new_empty(status) ==
    [ status                  |-> status,
      total_shares            |-> 0,
      total_assets            |-> 0,
      total_principal         |-> 0,
      deployed_principal      |-> 0,
      encumbered_in_orders    |-> 0,
      total_weighted_rate     |-> 0,
      total_weighted_net_rate |-> 0,
      accumulated_curator_fee |-> 0,
      pending_claim           |-> 0,
      open_orders_count       |-> 0,
      open_loans_count        |-> 0,
      last_accrue             |-> 0,
      last_supply_share_value |-> 0 ]

NoBody == new_from_matched_loan_with_lender(0, 0, 0, 0, 0, 0)

NoLoan(status) ==
    [ status |-> status, sub_vault |-> 0, principal |-> 0, origination |-> 0,
      lender_rate |-> 0, borrower_rate |-> 0, curator_fee |-> 0, body |-> NoBody ]

\* The tree lookup finds the sub-vault.
Exists(v) == sub[v].status \in {"Open", "Sunset"}

\* Mutant: resting asks do not keep a sub-vault alive.
MUT_is_empty_ignores_orders(s) ==
    /\ s.total_shares = 0
    /\ s.total_assets = 0
    /\ s.total_principal = 0
    /\ s.deployed_principal = 0
    /\ s.encumbered_in_orders = 0
    /\ s.accumulated_curator_fee = 0
    /\ s.pending_claim = 0
    /\ s.open_loans_count = 0

is_empty(s) ==
    /\ s.total_shares = 0
    /\ s.total_assets = 0
    /\ s.total_principal = 0
    /\ s.deployed_principal = 0
    /\ s.encumbered_in_orders = 0
    /\ s.accumulated_curator_fee = 0
    /\ s.pending_claim = 0
    /\ s.open_orders_count = 0
    /\ s.open_loans_count = 0

Init ==
    /\ now = 1
    /\ shareValue \in ShareValues
    /\ sub = [v \in SubVaultIds |-> SubVault_new_empty("Absent")]
    /\ next_id = 1
    /\ position = [v \in SubVaultIds |-> [d \in Depositors |-> 0]]
    /\ asks = {}
    /\ seat = [v \in SubVaultIds |-> [debt_withdrawable |-> 0, open_lend_count |-> 0]]
    /\ loan = [l \in LoanIds |-> NoLoan("Unused")]
    /\ next_loan = 1
    /\ vaultAccount = 0
    /\ lenderAccount = 0
    /\ borrowerClaim = 0
    /\ protocolClaim = 0
    /\ dust = 0

\* Time passes and the bank's share value moves; it may fall (socialised loss).
Tick ==
    /\ now < MaxTime
    /\ now' = now + 1
    /\ shareValue' \in ShareValues
    /\ UNCHANGED <<sub, next_id, position, asks, seat, loan, next_loan,
                   vaultAccount, lenderAccount, borrowerClaim, protocolClaim, dust>>

-----------------------------------------------------------------------------
(* accrue_sub_vault *)

\* Mutant: the restore is forgotten.
MUT_restore_assets_principal_invariant_skipped(s) == s

restore_assets_principal_invariant(s) ==
    [s EXCEPT !.total_assets = MaxOf(@, s.total_principal)]

\* Principal minus deployed minus pending, both checked_sub.
IdleFits(s) == s.deployed_principal + s.pending_claim <= s.total_principal

IdleAtoms(s) == s.total_principal - s.deployed_principal - s.pending_claim

\* accrue_sub_vault returns an error, and the instruction reverts, otherwise.
CanAccrue(s, t) == t <= s.last_accrue \/ s.total_principal = 0 \/ IdleFits(s)

\* What the idle atoms are worth at share value asv.
IdleValue(s, asv) ==
    IF IdleAtoms(s) = 0 \/ s.last_supply_share_value = 0 THEN IdleAtoms(s)
    ELSE mul_div(IdleAtoms(s), asv, s.last_supply_share_value)

LoanYield(s, t) ==
    mul_div(s.total_weighted_net_rate, t - s.last_accrue, BPS_PER_UNIT * SECONDS_PER_YEAR)

Stamp(s, t, asv) == [s EXCEPT !.last_accrue = t, !.last_supply_share_value = asv]

\* Marks the idle atoms to market (assets and principal) and adds the loans'
\* estimated yield (assets only).
accrue_sub_vault(s, t, asv) ==
    LET idle == IdleAtoms(s)
        gain == SatSub(IdleValue(s, asv), idle)
        loss == SatSub(idle, IdleValue(s, asv))
    IN  IF t <= s.last_accrue THEN s
        ELSE IF s.total_principal = 0 THEN Stamp(s, t, asv)
        ELSE restore_assets_principal_invariant(Stamp(
               [s EXCEPT !.total_assets    = SatSub(@ + gain, loss) + LoanYield(s, t),
                         !.total_principal = SatSub(@ + gain, loss)], t, asv))

-----------------------------------------------------------------------------
(* marginfi (external): what a withdrawal of shares pays and burns *)

Paid(shares) == shares_to_amount(shares, shareValue)

Burned(shares) == amount_to_asset_shares(Paid(shares), shareValue)

Shares(atoms) == amount_to_asset_shares(atoms, shareValue)

-----------------------------------------------------------------------------
(* Sub-vault administration *)

CreateSubVault ==
    /\ next_id \in SubVaultIds
    /\ sub' = [sub EXCEPT ![next_id] = SubVault_new_empty("Open")]
    /\ next_id' = next_id + 1
    /\ UNCHANGED <<now, shareValue, position, asks, seat, loan, next_loan,
                   vaultAccount, lenderAccount, borrowerClaim, protocolClaim, dust>>

SetStatus(v, status) ==
    /\ Exists(v)
    /\ sub' = [sub EXCEPT ![v].status = status]
    /\ UNCHANGED <<now, shareValue, next_id, position, asks, seat, loan, next_loan,
                   vaultAccount, lenderAccount, borrowerClaim, protocolClaim, dust>>

SunsetSubVault(v) == SetStatus(v, "Sunset")

ResumeSubVault(v) == SetStatus(v, "Open")

RemoveSubVault(v) ==
    /\ sub[v].status = "Sunset"
    /\ is_empty(sub[v])
    /\ sub' = [sub EXCEPT ![v] = SubVault_new_empty("Removed")]
    /\ UNCHANGED <<now, shareValue, next_id, position, asks, seat, loan, next_loan,
                   vaultAccount, lenderAccount, borrowerClaim, protocolClaim, dust>>

-----------------------------------------------------------------------------
(* Depositors *)

\* Mutant: every deposit mints one share per atom.
MUT_SharesFor_at_par(s, credited) == credited

\* The first depositor of an empty sub-vault gets one share per atom; a later
\* one is charged the net asset value.
SharesFor(s, credited) ==
    IF s.total_shares = 0 THEN credited
    ELSE mul_div(credited, s.total_shares, s.total_assets)

\* Mutant: the total grows by the atoms, the position by the shares.
MUT_Deposited_counts_atoms(s, credited) ==
    [s EXCEPT !.total_shares    = @ + credited,
              !.total_principal = @ + credited,
              !.total_assets    = (IF s.total_shares = 0 THEN 0 ELSE @) + credited]

Deposited(s, credited) ==
    [s EXCEPT !.total_shares    = @ + SharesFor(s, credited),
              !.total_principal = @ + credited,
              !.total_assets    = (IF s.total_shares = 0 THEN 0 ELSE @) + credited]

GlobalVaultDeposit(d, v, amount) ==
    LET credited == Paid(Shares(amount))
        s        == accrue_sub_vault(sub[v], now, shareValue)
    IN  /\ credited > 0
        /\ vaultAccount + Shares(amount) <= MaxShares
        /\ sub[v].status = "Open"
        /\ CanAccrue(sub[v], now)
        /\ s.total_shares > 0 => s.total_assets > 0
        /\ SharesFor(s, credited) > 0
        /\ sub' = [sub EXCEPT ![v] = Deposited(s, credited)]
        /\ position' = [position EXCEPT ![v][d] = @ + SharesFor(s, credited)]
        /\ vaultAccount' = vaultAccount + Shares(amount)
        /\ UNCHANGED <<now, shareValue, next_id, asks, seat, loan, next_loan,
                       lenderAccount, borrowerClaim, protocolClaim, dust>>

\* Burning shares pays their part of the principal; the last share takes what
\* the marginfi account holds if that is less.
AtomsOut(s, burn) ==
    LET part == mul_div(burn, s.total_principal, s.total_shares)
    IN  IF burn = s.total_shares THEN MinOf(part, Paid(vaultAccount)) ELSE part

\* Principal neither deployed nor promised to a queued match.
sub_vault_idle(s) == SatSub(SatSub(s.total_principal, s.deployed_principal),
                            s.encumbered_in_orders)

\* Mutant: the last burn leaves what the account could not pay on the books.
MUT_Withdrawn_keeps_residue(s, burn) ==
    [s EXCEPT !.total_shares    = @ - burn,
              !.total_assets    = @ - AtomsOut(s, burn),
              !.total_principal = @ - AtomsOut(s, burn)]

Withdrawn(s, burn) ==
    LET out == AtomsOut(s, burn)
        t   == [s EXCEPT !.total_shares    = @ - burn,
                         !.total_assets    = @ - out,
                         !.total_principal = @ - out]
    IN  IF t.total_shares = 0
        THEN [t EXCEPT !.total_assets = 0, !.total_principal = 0]
        ELSE t

GlobalVaultWithdraw(d, v, burn) ==
    LET s   == accrue_sub_vault(sub[v], now, shareValue)
        out == AtomsOut(s, burn)
    IN  /\ Exists(v)
        /\ position[v][d] >= burn
        /\ s.total_shares >= burn
        /\ CanAccrue(sub[v], now)
        /\ \/ mul_div(burn, s.total_principal, s.total_shares) > 0
           \/ s.total_assets = 0
        /\ sub_vault_idle(s) >= out
        /\ Paid(vaultAccount) >= out
        /\ burn = s.total_shares => /\ s.deployed_principal = 0
                                    /\ s.encumbered_in_orders = 0
        /\ s.total_assets >= out
        /\ sub' = [sub EXCEPT ![v] = Withdrawn(s, burn)]
        /\ position' = [position EXCEPT ![v][d] = @ - burn]
        /\ vaultAccount' = vaultAccount - Burned(Shares(out))
        /\ UNCHANGED <<now, shareValue, next_id, asks, seat, loan, next_loan,
                       lenderAccount, borrowerClaim, protocolClaim, dust>>

-----------------------------------------------------------------------------
(* Asks *)

AsksOf(v) == {a \in asks : a.sub_vault = v}

\* place_order_for_sub_vault: at most one ask per (market, sub-vault).  The rate
\* is the bank's APR plus the sub-vault's spread.  The bids the new ask may take at
\* the end of the instruction are no part of this module's state: each fill it makes
\* is a MatchFill step, as for every other instruction that matches.
PlaceOrderForSubVault(v, rate) ==
    /\ sub[v].status = "Open"
    /\ AsksOf(v) = {}
    /\ asks' = asks \cup {[sub_vault |-> v, rate |-> rate]}
    /\ seat' = [seat EXCEPT ![v].open_lend_count = @ + 1]
    /\ sub' = [sub EXCEPT ![v].open_orders_count = @ + 1]
    /\ UNCHANGED <<now, shareValue, next_id, position, loan, next_loan,
                   vaultAccount, lenderAccount, borrowerClaim, protocolClaim, dust>>

\* update_order_for_sub_vault: cancel and rest again at the current rate.
UpdateOrderForSubVault(v, rate) ==
    /\ sub[v].status = "Open"
    /\ AsksOf(v) # {}
    /\ seat[v].open_lend_count >= 1
    /\ sub[v].open_orders_count >= 1
    /\ asks' = (asks \ AsksOf(v)) \cup {[sub_vault |-> v, rate |-> rate]}
    /\ UNCHANGED <<now, shareValue, sub, next_id, position, seat, loan, next_loan,
                   vaultAccount, lenderAccount, borrowerClaim, protocolClaim, dust>>

\* cancel_order_for_sub_vault, and admin_cancel_sub_vault_order once sunset.
CancelOrderForSubVault(v) ==
    /\ Exists(v)
    /\ AsksOf(v) # {}
    /\ seat[v].open_lend_count >= 1
    /\ sub[v].open_orders_count >= 1
    /\ asks' = asks \ AsksOf(v)
    /\ seat' = [seat EXCEPT ![v].open_lend_count = @ - 1]
    /\ sub' = [sub EXCEPT ![v].open_orders_count = @ - 1]
    /\ UNCHANGED <<now, shareValue, next_id, position, loan, next_loan,
                   vaultAccount, lenderAccount, borrowerClaim, protocolClaim, dust>>

-----------------------------------------------------------------------------
(* Matching and promotion *)

MARGINFI_ROUNDING_RESERVE == 1

MatchIdle(s) == SatSub(sub_vault_idle(s), MARGINFI_ROUNDING_RESERVE)

MatchedNode(a, bid_rate, principal) ==
    [ status        |-> "Queued",
      sub_vault     |-> a.sub_vault,
      principal     |-> principal,
      origination   |-> mul_div(principal, OriginationBps, BPS_PER_UNIT),
      lender_rate   |-> a.rate,
      borrower_rate |-> MaxOf(bid_rate, a.rate + FeeFloorBps),
      curator_fee   |-> CuratorFeeBps,
      body          |-> NoBody ]

\* What a fill takes from the sub-vault: the walks do this when they queue a node.
Reserve(s, fill) ==
    [s EXCEPT !.encumbered_in_orders = @ + fill, !.open_loans_count = @ + 1]

\* One fill of match_order: a bid against a resting ask.  place_order, update_order,
\* match_crank and the two curator instructions run it in a loop; the bid, whatever
\* its origin, is the pair of its rate and the principal it still wants.  An ask the
\* scan skips (own sub-vault, term, LTV cap, rate floor), and one whose floored rate
\* does not fit a u16, is a fill that does not occur.
MatchFill(a, bid_rate, demand) ==
    LET v    == a.sub_vault
        fill == MinOf(demand, MatchIdle(sub[v]))
    IN  /\ next_loan \in LoanIds
        /\ bid_rate >= a.rate
        /\ sub[v].status = "Open"
        /\ MatchIdle(sub[v]) > 0
        /\ sub' = [sub EXCEPT ![v] = Reserve(@, fill)]
        /\ loan' = [loan EXCEPT ![next_loan] = MatchedNode(a, bid_rate, fill)]
        /\ next_loan' = next_loan + 1
        /\ seat' = [seat EXCEPT ![v].open_lend_count = @ + 1]
        /\ UNCHANGED <<now, shareValue, next_id, position, asks,
                       vaultAccount, lenderAccount, borrowerClaim, protocolClaim, dust>>

weighted_delta(principal, rate) == principal * rate

net_weighted_delta(principal, rate, curator_fee) ==
    mul_div(weighted_delta(principal, rate), BPS_PER_UNIT - curator_fee, BPS_PER_UNIT)

\* do_vault_settle withdraws one atom more than the principal, or everything
\* when that is all the account holds.
DrainsVault(principal) == principal + 1 >= Paid(vaultAccount)

CoverShares(principal) == amount_to_asset_shares_ceil(principal + 1, shareValue)

ActualAtoms(principal) ==
    IF DrainsVault(principal) THEN Paid(vaultAccount) ELSE Paid(CoverShares(principal))

VaultAfterSettle(principal) ==
    IF DrainsVault(principal) THEN 0 ELSE vaultAccount - Burned(CoverShares(principal))

\* Mutant: the spare atom stays in total_principal and total_assets.
MUT_Deploy_keeps_surplus(s, n, surplus) ==
    [s EXCEPT
        !.deployed_principal      = @ + n.principal,
        !.total_weighted_rate     = @ + weighted_delta(n.principal, n.lender_rate),
        !.total_weighted_net_rate =
            @ + net_weighted_delta(n.principal, n.lender_rate, n.curator_fee),
        !.encumbered_in_orders    = @ - n.principal]

\* The ledger after do_vault_settle: the fill moves from encumbered to deployed
\* and the surplus atoms, left in the staging account, are written off.
Deploy(s, n, surplus) ==
    LET t == [s EXCEPT
                !.deployed_principal      = @ + n.principal,
                !.total_weighted_rate     = @ + weighted_delta(n.principal, n.lender_rate),
                !.total_weighted_net_rate =
                    @ + net_weighted_delta(n.principal, n.lender_rate, n.curator_fee),
                !.encumbered_in_orders    = @ - n.principal]
    IN  IF surplus = 0 THEN t
        ELSE restore_assets_principal_invariant(
               [t EXCEPT !.total_principal = @ - surplus, !.total_assets = @ - surplus])

ProcessMatchedLoan(l) ==
    LET n       == loan[l]
        v       == n.sub_vault
        net     == net_principal(n.principal, n.origination)
        actual  == ActualAtoms(n.principal)
        surplus == actual - n.principal
        s       == accrue_sub_vault(sub[v], now, shareValue)
    IN  /\ n.status = "Queued"
        /\ net > 0
        /\ Paid(vaultAccount) >= n.principal
        /\ actual >= n.principal
        /\ Exists(v)
        /\ CanAccrue(sub[v], now)
        /\ s.encumbered_in_orders >= n.principal
        /\ s.total_principal >= surplus /\ s.total_assets >= surplus
        /\ sub' = [sub EXCEPT ![v] = Deploy(s, n, surplus)]
        /\ loan' = [loan EXCEPT ![l].status = "Active",
                                ![l].body = new_from_matched_loan_with_lender(
                                    n.principal, net, n.lender_rate, n.borrower_rate,
                                    n.curator_fee, now)]
        /\ vaultAccount' = VaultAfterSettle(n.principal)
        /\ lenderAccount' = lenderAccount + Shares(n.principal)
        /\ borrowerClaim' = borrowerClaim + Shares(net)
        /\ protocolClaim' = protocolClaim + Shares(n.origination)
        /\ UNCHANGED <<now, shareValue, next_id, position, asks, seat, next_loan, dust>>

\* The promotion of a presettled node only makes it a loan account: its lender has
\* paid, and its interest runs from the match.
ProcessPresettledLoan(l) ==
    /\ loan[l].status = "Presettled"
    /\ loan' = [loan EXCEPT ![l].status = "Active"]
    /\ UNCHANGED <<now, shareValue, sub, next_id, position, asks, seat, next_loan,
                   vaultAccount, lenderAccount, borrowerClaim, protocolClaim, dust>>

-----------------------------------------------------------------------------
(* Refinancing: convert_p2pool_to_fixed pays a pool loan off with the capital  *)
(* of the asks it crosses, and settles with their sub-vaults at once           *)

\* The principal that the i-th ask of the walk gives: all its sub-vault can lend, or
\* what the earlier ones have left of the live debt.
CrossFill(order, live, i) ==
    LET lendable == [j \in DOMAIN order |-> MatchIdle(sub[order[j].sub_vault])]
    IN  MinOf(lendable[i], SatSub(live, Sum(1..(i - 1), lendable)))

\* The node carries no origination fee; body is the loan it will be promoted to.
PresettledNode(a, max_rate, principal) ==
    LET borrower_rate == MaxOf(max_rate, a.rate + FeeFloorBps)
    IN  [ status        |-> "Presettled",
          sub_vault     |-> a.sub_vault,
          principal     |-> principal,
          origination   |-> 0,
          lender_rate   |-> a.rate,
          borrower_rate |-> borrower_rate,
          curator_fee   |-> CuratorFeeBps,
          body          |-> new_from_matched_loan_with_lender(
                                principal, principal, a.rate, borrower_rate,
                                CuratorFeeBps, now) ]

\* Mutant: the crossed principal is deployed and stays encumbered too.
MUT_Refinanced_stays_encumbered(s, n) ==
    [Deploy(accrue_sub_vault(Reserve(s, n.principal), now, shareValue), n, 0)
        EXCEPT !.encumbered_in_orders = @ + n.principal]

\* A crossed sub-vault: the walk's reserve, and at once what a promotion does.
Refinanced(s, n) ==
    Deploy(accrue_sub_vault(Reserve(s, n.principal), now, shareValue), n, 0)

\* What leaves the vault's account: an atom more than the live debt when the loan is
\* all that the borrower's marginfi account owes.
FundingShares(live, whole) ==
    amount_to_asset_shares_ceil(IF whole THEN live + 1 ELSE live, shareValue)

\* order lists the asks that the scan crosses, best first (one it skips is not in it);
\* together they cover the live debt exactly.  The pool is repaid that much: what was
\* withdrawn beyond it stays in the market's token vault, and no ledger writes it off.
ConvertP2PoolToFixed(order, max_rate, live, whole) ==
    LET fill    == [i \in DOMAIN order |-> CrossFill(order, live, i)]
        node    == [i \in DOMAIN order |-> PresettledNode(order[i], max_rate, fill[i])]
        at(v)   == CHOOSE i \in DOMAIN order : order[i].sub_vault = v
        crossed == {order[i].sub_vault : i \in DOMAIN order}
        created == next_loan..(next_loan + Len(order) - 1)
        shares  == FundingShares(live, whole)
    IN  /\ created \subseteq LoanIds
        /\ \A i, j \in DOMAIN order : i < j => /\ order[i].rate <= order[j].rate
                                              /\ order[i].sub_vault # order[j].sub_vault
        /\ \A i \in DOMAIN order : /\ order[i].rate <= max_rate
                                   /\ sub[order[i].sub_vault].status = "Open"
                                   /\ fill[i] > 0
                                   /\ CanAccrue(sub[order[i].sub_vault], now)
        /\ Sum(DOMAIN order, fill) = live
        /\ vaultAccount >= Burned(shares)
        /\ Paid(shares) >= live
        /\ sub' = [v \in SubVaultIds |->
                     IF v \in crossed THEN Refinanced(sub[v], node[at(v)]) ELSE sub[v]]
        /\ seat' = [v \in SubVaultIds |->
                      IF v \in crossed THEN [seat[v] EXCEPT !.open_lend_count = @ + 1]
                      ELSE seat[v]]
        /\ loan' = [l \in LoanIds |->
                      IF l \in created THEN node[l - next_loan + 1] ELSE loan[l]]
        /\ next_loan' = next_loan + Len(order)
        /\ vaultAccount' = vaultAccount - Burned(shares)
        /\ dust' = dust + (Paid(shares) - live)
        /\ UNCHANGED <<now, shareValue, next_id, position, asks,
                       lenderAccount, borrowerClaim, protocolClaim>>

-----------------------------------------------------------------------------
(* Payments: repay, liquidate_loan and settle_matured_loan share the lender's *)
(* side.  body is the loan after the payment.                                 *)

\* Fee shares are booked once, by the payment that closes the loan.
ProtocolFeeShares(body) ==
    IF body.outstanding_debt = 0 THEN Shares(body.accumulated_protocol_fee) ELSE 0

LenderClaimShares(body, amount) == SatSub(Shares(amount), ProtocolFeeShares(body))

\* What the sub-vault had estimated for the loan over its lifetime.
estimated_accrued(body) ==
    mul_div(net_weighted_delta(body.principal_debt, body.lender_rate, body.curator_fee),
            now - body.started_at, BPS_PER_UNIT * SECONDS_PER_YEAR)

\* i128 delta applied to a u64: added when positive, saturating when negative.
AddSigned(x, delta) == IF delta >= 0 THEN x + delta ELSE SatSub(x, 0 - delta)

\* Mutant: the closed loan is still counted.
MUT_CloseOut_keeps_count(s, body) ==
    LET p        == body.principal_debt
        realized == body.lender_claimable - p
    IN  restore_assets_principal_invariant([s EXCEPT
            !.total_weighted_rate     = @ - weighted_delta(p, body.lender_rate),
            !.total_weighted_net_rate =
                @ - net_weighted_delta(p, body.lender_rate, body.curator_fee),
            !.deployed_principal      = @ - p,
            !.total_principal         = AddSigned(@, realized),
            !.total_assets            = AddSigned(@, realized - estimated_accrued(body)),
            !.pending_claim           = @ + body.lender_claimable,
            !.accumulated_curator_fee = @ + body.accumulated_curator_fee])

CloseOut(s, body) ==
    LET p        == body.principal_debt
        realized == body.lender_claimable - p
        t        == [s EXCEPT
            !.total_weighted_rate     = @ - weighted_delta(p, body.lender_rate),
            !.total_weighted_net_rate =
                @ - net_weighted_delta(p, body.lender_rate, body.curator_fee),
            !.deployed_principal      = @ - p,
            !.open_loans_count        = @ - 1,
            !.total_principal         = AddSigned(@, realized),
            !.total_assets            = AddSigned(@, realized - estimated_accrued(body))]
    IN  [restore_assets_principal_invariant(t) EXCEPT
            !.pending_claim           = @ + body.lender_claimable,
            !.accumulated_curator_fee = @ + body.accumulated_curator_fee]

CanCloseOut(s, body) ==
    /\ s.total_weighted_rate >= weighted_delta(body.principal_debt, body.lender_rate)
    /\ s.total_weighted_net_rate >=
           net_weighted_delta(body.principal_debt, body.lender_rate, body.curator_fee)
    /\ s.deployed_principal >= body.principal_debt
    /\ s.open_loans_count >= 1

\* The payment's atoms go to the lender account; the payment that clears the
\* debt closes the loan out of the ledger and closes its account.  liquidate and
\* settle test credited_shares > 0 first: no payment of an atom or more fails
\* that while a share is worth at most 2^48 atoms (LedgerAssumption).
Resolve(l, amount, body) ==
    LET v    == loan[l].sub_vault
        full == body.outstanding_debt = 0
        s    == accrue_sub_vault(sub[v], now, shareValue)
    IN  /\ lenderAccount' = lenderAccount + Shares(amount)
        /\ protocolClaim' = protocolClaim + ProtocolFeeShares(body)
        /\ IF full
           THEN /\ seat[v].open_lend_count >= 1
                /\ Exists(v)
                /\ CanAccrue(sub[v], now)
                /\ CanCloseOut(s, body)
                /\ seat' = [seat EXCEPT
                              ![v].debt_withdrawable = @ + LenderClaimShares(body, amount),
                              ![v].open_lend_count = @ - 1]
                /\ sub' = [sub EXCEPT ![v] = CloseOut(s, body)]
                /\ loan' = [loan EXCEPT ![l] = NoLoan("Closed")]
           ELSE /\ seat' = [seat EXCEPT
                              ![v].debt_withdrawable = @ + LenderClaimShares(body, amount)]
                /\ loan' = [loan EXCEPT ![l].body = body]
                /\ UNCHANGED sub
        /\ UNCHANGED <<now, shareValue, next_id, position, asks, next_loan,
                       vaultAccount, borrowerClaim, dust>>

Accrued(l) == accrue_loan(loan[l].body, now)

Repay(l, amount) ==
    /\ loan[l].status = "Active"
    /\ CanResolve(Accrued(l), amount)
    /\ Resolve(l, amount, RepaidBody(Accrued(l), amount))

LiquidateLoan(l, amount, bad_debt) ==
    /\ loan[l].status = "Active"
    /\ PartialAllowed(Accrued(l).outstanding_debt, amount, MinPartialRepay)
    /\ CanResolve(Accrued(l), amount)
    /\ Resolve(l, amount, LiquidatedBody(Accrued(l), amount, ProtocolBps, bad_debt))

SettleMaturedLoan(l, amount) ==
    /\ loan[l].status = "Active"
    /\ now > loan[l].body.started_at + Term
    /\ PartialAllowed(Accrued(l).outstanding_debt, amount, MinPartialRepay)
    /\ CanResolve(Accrued(l), amount)
    /\ Resolve(l, amount, SettledBody(Accrued(l), amount, ProtocolBps))

-----------------------------------------------------------------------------
(* Sweeps and claims *)

\* Mutant: plain subtraction, as if pending_claim had counted every payment.
MUT_Swept_unsaturated(s, atoms) == [s EXCEPT !.pending_claim = @ - atoms]

Swept(s, atoms) == [s EXCEPT !.pending_claim = SatSub(@, atoms)]

\* The permissionless sweep of a seat's claim into the vault's account; a claim
\* below one atom is forfeited.
ClaimRepaymentForSubVault(v) ==
    LET claim == seat[v].debt_withdrawable
        atoms == Paid(claim)
    IN  /\ claim > 0
        /\ lenderAccount >= Burned(claim)
        /\ atoms > 0 => Exists(v)
        /\ lenderAccount' = lenderAccount - Burned(claim)
        /\ vaultAccount' = vaultAccount + Shares(atoms)
        /\ seat' = [seat EXCEPT ![v].debt_withdrawable =
                        IF Burned(claim) = 0 THEN 0 ELSE SatSub(@, Burned(claim))]
        /\ sub' = [sub EXCEPT ![v] = Swept(@, atoms)]
        /\ UNCHANGED <<now, shareValue, next_id, position, asks, loan, next_loan,
                       borrowerClaim, protocolClaim, dust>>

ClaimCuratorFee(v) ==
    LET fee == sub[v].accumulated_curator_fee
    IN  /\ Exists(v)
        /\ fee > 0
        /\ vaultAccount >= Burned(Shares(fee))
        /\ vaultAccount' = vaultAccount - Burned(Shares(fee))
        /\ sub' = [sub EXCEPT ![v].accumulated_curator_fee = SatSub(@, Paid(Shares(fee)))]
        /\ UNCHANGED <<now, shareValue, next_id, position, asks, seat, loan, next_loan,
                       lenderAccount, borrowerClaim, protocolClaim, dust>>

ProtocolFeeClaim ==
    /\ protocolClaim > 0
    /\ lenderAccount >= Burned(protocolClaim)
    /\ lenderAccount' = lenderAccount - Burned(protocolClaim)
    /\ protocolClaim' = 0
    /\ UNCHANGED <<now, shareValue, sub, next_id, position, asks, seat, loan, next_loan,
                   vaultAccount, borrowerClaim, dust>>

\* withdraw, debt side: what a borrower asks for (everything, or an amount up to
\* its claim) is capped by the account; withdraw_all writes the rest off.
Withdraw(requested, withdraw_all) ==
    LET expected == MinOf(requested, lenderAccount)
    IN  /\ requested <= borrowerClaim
        /\ expected > 0
        /\ borrowerClaim' = IF withdraw_all THEN 0 ELSE borrowerClaim - expected
        /\ lenderAccount' = lenderAccount - Burned(expected)
        /\ UNCHANGED <<now, shareValue, sub, next_id, position, asks, seat, loan,
                       next_loan, vaultAccount, protocolClaim, dust>>

-----------------------------------------------------------------------------
Payments(l) == {a \in Installments : a < Accrued(l).outstanding_debt}
                 \cup {Accrued(l).outstanding_debt}

Next ==
    \/ Tick
    \/ CreateSubVault
    \/ \E v \in SubVaultIds :
         \/ SunsetSubVault(v)
         \/ ResumeSubVault(v)
         \/ RemoveSubVault(v)
         \/ CancelOrderForSubVault(v)
         \/ ClaimRepaymentForSubVault(v)
         \/ ClaimCuratorFee(v)
         \/ \E rate \in AskRates : \/ PlaceOrderForSubVault(v, rate)
                                   \/ UpdateOrderForSubVault(v, rate)
         \/ \E d \in Depositors :
              \/ \E amount \in DepositAmounts : GlobalVaultDeposit(d, v, amount)
              \/ \E burn \in BurnAmounts : GlobalVaultWithdraw(d, v, burn)
    \/ \E a \in asks, bid_rate \in BidRates, demand \in Demands :
         MatchFill(a, bid_rate, demand)
    \/ \E n \in SubVaultIds, max_rate \in BidRates, live \in Demands, whole \in BOOLEAN :
         \E order \in [1..n -> asks] : ConvertP2PoolToFixed(order, max_rate, live, whole)
    \/ \E l \in LoanIds :
         \/ ProcessMatchedLoan(l)
         \/ ProcessPresettledLoan(l)
         \/ \E amount \in Payments(l) :
              \/ Repay(l, amount)
              \/ \E bad_debt \in BOOLEAN : LiquidateLoan(l, amount, bad_debt)
              \/ SettleMaturedLoan(l, amount)
    \/ ProtocolFeeClaim
    \/ Withdraw(borrowerClaim, TRUE)
    \/ \E amount \in WithdrawAmounts : Withdraw(Shares(amount), FALSE)

Spec == Init /\ [][Next]_vars

-----------------------------------------------------------------------------
(* Properties *)

\* The principal is out of the vault's account.
Drawn == {"Presettled", "Active"}

\* The loan is not closed.
Uncleared == {"Queued"} \cup Drawn

Open(l, v) == loan[l].status \in Uncleared /\ loan[l].sub_vault = v

OpenLoans(v) == {l \in LoanIds : Open(l, v)}

\* What loan l contributes to a total of sub-vault v while its status is among those.
Contribution(l, v, statuses, amount) ==
    IF loan[l].status \in statuses /\ loan[l].sub_vault = v THEN amount ELSE 0

SumOver(v, statuses, amount(_)) ==
    Sum(LoanIds, [l \in LoanIds |-> Contribution(l, v, statuses, amount(loan[l]))])

PrincipalOf(n) == n.principal
WeightedOf(n) == weighted_delta(n.principal, n.lender_rate)
NetWeightedOf(n) == net_weighted_delta(n.principal, n.lender_rate, n.curator_fee)

\* The sub-vault totals, each maintained by increments in the walks, the promotions, the
\* conversions and the close-outs, are exactly the sums over the matched-loan queue and
\* the open loan accounts, so no checked_sub of a promotion, a conversion or a close-out
\* can fail on them.
LedgerMatchesLoans ==
    \A v \in SubVaultIds :
        /\ sub[v].deployed_principal = SumOver(v, Drawn, PrincipalOf)
        /\ sub[v].encumbered_in_orders = SumOver(v, {"Queued"}, PrincipalOf)
        /\ sub[v].total_weighted_rate = SumOver(v, Drawn, WeightedOf)
        /\ sub[v].total_weighted_net_rate = SumOver(v, Drawn, NetWeightedOf)

\* The counters that gate removal and close-out agree with the book: open orders
\* with the resting asks, open loans with the queue and the loan accounts, and the
\* seat's open_lend_count with both together.
CountersMatchBook ==
    \A v \in SubVaultIds :
        /\ sub[v].open_orders_count = Cardinality(AsksOf(v))
        /\ sub[v].open_loans_count = Cardinality(OpenLoans(v))
        /\ seat[v].open_lend_count = Cardinality(AsksOf(v)) + Cardinality(OpenLoans(v))

\* However sunset, resume and removal interleave with matching and payments, no
\* open loan and no resting ask is left without its sub-vault, which a promotion
\* or a close-out needs to find.
NoOrphans ==
    /\ \A l \in LoanIds : loan[l].status \in Uncleared => Exists(loan[l].sub_vault)
    /\ \A a \in asks : Exists(a.sub_vault)

\* A sub-vault's shares are exactly its depositors' positions, also across the
\* burn of the last share and the removal of the sub-vault.
SharesMatchPositions ==
    \A v \in SubVaultIds : sub[v].total_shares = Sum(Depositors, position[v])

\* Capital always has an owner: a sub-vault without shares holds no principal and
\* has none in flight, so the first depositor who follows buys nothing but its own.
NoOwnerlessCapital ==
    \A v \in SubVaultIds :
        sub[v].total_shares = 0 => /\ sub[v].total_principal = 0
                                   /\ sub[v].deployed_principal = 0
                                   /\ sub[v].encumbered_in_orders = 0

\* Net asset value never falls below the redeemable principal, whatever marks,
\* fees, write-offs and shortfalls were booked: entry is never below exit price.
AssetsCoverPrincipal ==
    \A v \in SubVaultIds : sub[v].total_assets >= sub[v].total_principal

DilutionFree(v) ==
    ( /\ sub[v].total_shares > 0 /\ sub'[v].total_shares > 0
      /\ sub'[v].total_shares # sub[v].total_shares
      /\ shareValue >= sub[v].last_supply_share_value )
    => sub'[v].total_principal * sub[v].total_shares
         >= sub[v].total_principal * sub'[v].total_shares

\* Nobody's deposit or withdrawal lowers what a share of the others redeems:
\* minting at net asset value and burning at principal both round for them (unless
\* the bank itself marked the idle atoms down since the last accrual).
NoDilution == [][\A v \in SubVaultIds : DilutionFree(v)]_vars

SubVaultSum(f(_)) == Sum(SubVaultIds, [v \in SubVaultIds |-> f(v)])

Sweepable(v) == seat[v].debt_withdrawable
DeployedShares(v) == Shares(sub[v].deployed_principal)
OwedShares(v) == Shares(sub[v].total_principal + sub[v].accumulated_curator_fee)

\* At a fixed share value the vault's account, the claims it can sweep and the
\* capital out on loans cover the principal of all sub-vaults and the curators' fees,
\* short of nothing but the conversions' spare atoms: the ones of promotions, partial
\* payments, fee splits, shortfalls and write-offs never leave the books above the
\* custody.  (A conversion's spare atom does: it leaves the vault's account, no ledger
\* writes it off and nothing brings it back.)
VaultSolvent ==
    vaultAccount + Shares(dust) + SubVaultSum(Sweepable)
      + SubVaultSum(DeployedShares) >= SubVaultSum(OwedShares)

\* protocol-design.md: pending_claim_atoms "are still held in a market lender
\* integration account until the repayment sweep runs": with nothing left to sweep
\* there is nothing pending.
PendingIsUnswept ==
    \A v \in SubVaultIds :
        Paid(seat[v].debt_withdrawable) = 0 => sub[v].pending_claim = 0

\* The test suite's vault-idle invariant, "what guarantees a depositor's
\* withdrawable atoms are physically backed".
VaultIdleInvariant ==
    \A v \in SubVaultIds :
        sub[v].total_principal >= sub[v].deployed_principal + sub[v].encumbered_in_orders

\* The tests' "borrower + protocol share claims must stay backed by market
\* integration shares".
MarketClaimsBacked == borrowerClaim + protocolClaim <= lenderAccount

=============================================================================
