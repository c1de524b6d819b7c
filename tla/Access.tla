------------------------------- MODULE Access -------------------------------
(***************************************************************************)
(* Who may run which instruction on which accounts: the pause switches,    *)
(* the two-step handover of every role, the parameters each role sets, and *)
(* the account contexts (validation/loaders.rs) all instructions pass      *)
(* through.                                                                *)
(*                                                                         *)
(* One action is one instruction.  The caller chooses every account; the   *)
(* accounts that belong to a market (token vaults, integration accounts,   *)
(* signer, banks, oracles) or to a vault (staging, integration account,    *)
(* signer, bank) are abstracted to the market or vault they belong to      *)
(* (`am`, `av`), which the context compares with the market or vault it    *)
(* loaded.  What the instruction computes is the other modules' business:  *)
(* here it records in `moved` whose value it moved.                        *)
(***************************************************************************)
EXTENDS Naturals, FiniteSets

CONSTANTS
    Keys,              \* wallets
    Borrowers,         \* bound: the wallets that trade as borrowers
    UpgradeAuthority,  \* the one the loader's ProgramData account names
    GLOBAL_CONFIG,     \* the singleton config account
    Markets,
    Vaults,            \* one per marginfi bank: the vault PDA is keyed by the bank
    DebtBank,          \* the vault of each market's debt bank
    Policies,          \* risk parameters a sub-vault may be created with
    PolicyOverrides,   \* the fields an update_sub_vault may give
    FeeDefault,        \* FeeConfig::default
    FeeCap,            \* the cap on each field
    FeeOverrides,      \* the fields a create_market or set_fee_config may give
    BPS_PER_UNIT,
    MIN_LIQ_GAP_BPS,
    MaxSubVaults,      \* bound: sub-vaults ever created in each vault
    MaxLoans,          \* bound: loans open at a time
    Edited,            \* bound: the config, markets and vaults whose roles, pauses and
                       \* parameters are edited
    MaxEdits,          \* bound: how often
    Foreign,           \* a market or vault outside the model, open, and its accounts
    NIL                \* Pubkey::default(), DataIndex NIL

ASSUME AccessAssumption ==
    /\ UpgradeAuthority \in Keys /\ Borrowers \subseteq Keys /\ NIL \notin Keys
    /\ DebtBank \in [Markets -> Vaults]
    /\ Foreign \notin Vaults /\ NIL \notin Markets \cup Vaults
    /\ \A f \in DOMAIN FeeDefault : FeeDefault[f] <= FeeCap[f]
    /\ \A o \in FeeOverrides : DOMAIN o \subseteq DOMAIN FeeDefault
    /\ \A p \in Policies : {"max_ltv", "liq_ltv", "max_term"} = DOMAIN p
    /\ \A o \in PolicyOverrides : DOMAIN o \subseteq {"max_ltv", "liq_ltv", "max_term"}
    /\ MaxSubVaults \in [Vaults -> Nat] /\ MaxLoans \in Nat /\ MaxEdits \in Nat

VARIABLES
    paused,   \* is_paused of the config, each market and vault; its domain
              \* is the accounts that exist
    roles,    \* the holder and the pending holder of each role
    said,     \* history: the last key each key has signed a nomination of, by role
    fees,     \* MarketFixed.fee_config
    subs,     \* the sub-vaults
    next_id,  \* GlobalVaultFixed.next_sub_vault_id
    bids,     \* the markets' resting bids, by borrower
    loans,    \* matched-loan nodes and loan accounts
    moved,    \* markets and vaults whose value the last instruction moved
    edits

vars == <<paused, roles, said, fees, subs, next_id, bids, loans, moved, edits>>

SubVaultIds == UNION { {v} \X (1..MaxSubVaults[v]) : v \in Vaults }

\* A sub-vault is a node of its vault's tree, no account of its own.
ASSUME NodeAssumption == SubVaultIds \cap ({GLOBAL_CONFIG} \cup Markets \cup Vaults) = {}

MarketAccounts == Markets \cup {Foreign}

VaultAccounts == Vaults \cup {Foreign}

Roles == {GLOBAL_CONFIG} \cup Markets \cup Vaults \cup SubVaultIds

Exists(scope) == scope \in DOMAIN paused

Holder(r) == roles[r].holder

\* f with x mapped to y, in its domain or not.
With(f, x, y) == [z \in DOMAIN f \cup {x} |-> IF z = x THEN y ELSE f[z]]

\* A field the caller leaves out keeps its value.
Overridden(target, o) == [f \in DOMAIN target |-> IF f \in DOMAIN o THEN o[f] ELSE target[f]]

\* A role comes into being with its account.
Given(r, k) == [roles EXCEPT ![r] = [holder |-> k, pending |-> NIL]]

NothingMoves == moved' = [markets |-> {}, vaults |-> {}]

\* The last conjunct of an edit; one that changes nothing is a stuttering step.
Edit(scope) ==
    /\ scope \in Edited /\ edits < MaxEdits /\ edits' = edits + 1
    /\ <<paused, roles, fees, subs>>' # <<paused, roles, fees, subs>>

books == <<subs, next_id, bids, loans>>

-----------------------------------------------------------------------------
(* Gates *)

load_global_config_no_pause == Exists(GLOBAL_CONFIG)

require_global_not_paused == ~paused[GLOBAL_CONFIG]

load_global_config == load_global_config_no_pause /\ require_global_not_paused

require_market_not_paused(m) == Exists(m) /\ ~paused[m]

require_vault_not_paused(v) == v = Foreign \/ (Exists(v) /\ ~paused[v])

require_vault_mint_matches_market(v, m) == DebtBank[m] = v

\* The gate of an instruction on a market, and of one on a vault.
OpenMarket(m) == load_global_config /\ require_market_not_paused(m)

OpenVault(v) == load_global_config /\ require_vault_not_paused(v)

-----------------------------------------------------------------------------
(* Account contexts: on a market *)

ClaimSeatContext(m) == OpenMarket(m)

DepositContext(m, am) == OpenMarket(m) /\ am = m

WithdrawContext(m, am) == OpenMarket(m) /\ am = m

CancelOrderContext(m) == OpenMarket(m)

\* The vault is optional; without it no ask can be taken.
PlaceOrderContext(m, am, v) ==
    /\ OpenMarket(m) /\ am = m
    /\ v # NIL => DebtBank[m] = v /\ require_vault_not_paused(v)

ProtocolFeeClaimContext(k, m, am) == OpenMarket(m) /\ am = m /\ k = Holder(GLOBAL_CONFIG)

\* Mutant: the settlement leg trusts the market's gate and skips the vault's.
MUT_load_vault_settle_accounts_no_pause(m, v, av) ==
    Exists(v) /\ DebtBank[m] = v /\ av = v

load_vault_settle_accounts(m, v, av) ==
    /\ require_vault_not_paused(v)
    /\ DebtBank[m] = v
    /\ av = v

\* A pool loan and a converted one settle nothing with the vault.
SettlesVault(l) == l.lender # NIL /\ ~l.presettled

ProcessMatchedLoanContext(m, am, l, v, av) ==
    /\ OpenMarket(m) /\ am = m
    /\ l.market = m /\ l.state = "matched"
    /\ IF SettlesVault(l) THEN load_vault_settle_accounts(m, v, av) ELSE v = NIL /\ av = NIL

\* The vault of a loan's lender, which a close path of a Fixed loan must load.
LenderVault(l, v, av) ==
    IF l.lender = NIL THEN v = NIL /\ av = NIL
    ELSE v = l.lender[1] /\ require_vault_not_paused(v) /\ av = v

RepayContext(m, am, l, v, av) ==
    /\ OpenMarket(m) /\ am = m
    /\ l.market = m /\ l.state = "active"
    /\ LenderVault(l, v, av)

SettleMaturedLoanContext(m, am, l, v, av) == RepayContext(m, am, l, v, av)

ConvertP2PoolToFixedContext(m, am, l, v, av) ==
    /\ OpenMarket(m) /\ am = m
    /\ l.market = m /\ l.state = "active" /\ l.lender = NIL
    /\ DebtBank[m] = v /\ require_vault_not_paused(v) /\ av = v

\* Read-only: they pass or fail and change nothing.
CheckLtvLiquidatableContext(m, am, l) == OpenMarket(m) /\ am = m /\ l.market = m

CheckMaturityLiquidatableContext(m, l) == OpenMarket(m) /\ l.market = m

ClaimRepaymentForSubVaultContext(m, am, v, av) ==
    /\ OpenMarket(m) /\ am = m
    /\ require_vault_not_paused(v) /\ av = v
    /\ DebtBank[m] = v

-----------------------------------------------------------------------------
(* Account contexts: on a vault *)

GlobalVaultDepositContext(v, av) == OpenVault(v) /\ av = v

GlobalVaultWithdrawContext(v, av) == OpenVault(v) /\ av = v

ClaimCuratorFeeContext(v, av) == OpenVault(v) /\ av = v

SubVaultMutationContext(v) == OpenVault(v)

CreatePoolSubVaultContext(k, v) == OpenVault(v) /\ k = Holder(GLOBAL_CONFIG)

RemoveSubVaultContext(k, v) == OpenVault(v) /\ k = Holder(v)

\* Both run while anything is paused: an admin can always wind a sub-vault down.
SunsetSubVaultContext(k, v) == load_global_config_no_pause /\ Exists(v) /\ k = Holder(v)

ResumeSubVaultContext(k, v) == load_global_config_no_pause /\ Exists(v) /\ k = Holder(v)

AdminCancelSubVaultOrderContext(k, v, m) ==
    /\ load_global_config_no_pause
    /\ Exists(v) /\ Exists(m) /\ k = Holder(v)
    /\ require_vault_mint_matches_market(v, m)

PlaceOrderForSubVaultContext(v, m) ==
    /\ OpenVault(v) /\ require_market_not_paused(m)
    /\ require_vault_mint_matches_market(v, m)

CancelOrderForSubVaultContext(v, m) ==
    /\ OpenVault(v) /\ require_market_not_paused(m)
    /\ require_vault_mint_matches_market(v, m)

MatchCrankContext(v, m) ==
    /\ OpenVault(v) /\ require_market_not_paused(m)
    /\ require_vault_mint_matches_market(v, m)

-----------------------------------------------------------------------------
(* The config, markets and vaults come into being *)

Init ==
    /\ paused = [x \in {} |-> FALSE]
    /\ roles = [r \in Roles |-> [holder |-> NIL, pending |-> NIL]]
    /\ said = [r \in Roles |-> [k \in Keys |-> NIL]]
    /\ fees = [m \in Markets |-> FeeDefault]
    /\ subs = [x \in {} |-> NIL]
    /\ next_id = [v \in Vaults |-> 1]
    /\ bids = {}
    /\ loans = {}
    /\ moved = [markets |-> {}, vaults |-> {}]
    /\ edits = 0

CreateGlobalConfig(k) ==
    /\ ~Exists(GLOBAL_CONFIG)
    /\ k = UpgradeAuthority
    /\ paused' = With(paused, GLOBAL_CONFIG, FALSE)
    /\ roles' = Given(GLOBAL_CONFIG, k)
    /\ NothingMoves
    /\ UNCHANGED <<said, fees, books, edits>>

validate_fee_config_overrides(o) == \A f \in DOMAIN o : o[f] <= FeeCap[f]

apply_fee_config_overrides(target, o) == Overridden(target, o)

CreateMarket(k, m, o) ==
    /\ validate_fee_config_overrides(o)
    /\ load_global_config /\ k = Holder(GLOBAL_CONFIG)
    /\ ~Exists(m)
    /\ paused' = With(paused, m, FALSE)
    /\ roles' = Given(m, k)
    /\ fees' = [fees EXCEPT ![m] = apply_fee_config_overrides(FeeDefault, o)]
    /\ NothingMoves
    /\ UNCHANGED <<said, books, edits>>

\* Anyone may create the vault of a bank that has none, and administers it.
CreateVault(k, v) ==
    /\ load_global_config
    /\ ~Exists(v)
    /\ paused' = With(paused, v, FALSE)
    /\ roles' = Given(v, k)
    /\ NothingMoves
    /\ UNCHANGED <<said, fees, books, edits>>

SetFeeConfig(k, m, o) ==
    /\ load_global_config /\ Exists(m) /\ k = Holder(m)
    /\ validate_fee_config_overrides(o)
    /\ fees' = [fees EXCEPT ![m] = apply_fee_config_overrides(@, o)]
    /\ NothingMoves
    /\ UNCHANGED <<paused, roles, said, books>>
    /\ Edit(m)

-----------------------------------------------------------------------------
(* Pauses: none of them is stopped by a pause *)

SetPause(k, scope, p) ==
    /\ Exists(scope) /\ k = Holder(scope)
    /\ paused' = [paused EXCEPT ![scope] = p]
    /\ NothingMoves
    /\ UNCHANGED <<roles, said, fees, books>>
    /\ Edit(scope)

SetGlobalPause(k, p) == load_global_config_no_pause /\ SetPause(k, GLOBAL_CONFIG, p)

SetMarketPause(k, m, p) == load_global_config_no_pause /\ SetPause(k, m, p)

SetVaultPause(k, v, p) == load_global_config_no_pause /\ SetPause(k, v, p)

-----------------------------------------------------------------------------
(* Two-step handovers: none of them is stopped by a pause *)

\* Overwrites an earlier nomination; the default key withdraws it.
Nominate(k, r, new) ==
    /\ roles' = [roles EXCEPT ![r].pending = new]
    /\ said' = [said EXCEPT ![r][k] = new]
    /\ NothingMoves
    /\ UNCHANGED <<paused, fees, books>>
    /\ Edit(IF r \in DOMAIN subs THEN r[1] ELSE r)

Accept(k, r) ==
    /\ roles[r].pending = k /\ roles[r].pending # NIL
    /\ roles' = [roles EXCEPT ![r] = [holder |-> @.pending, pending |-> NIL]]
    /\ said' = [said EXCEPT ![r] = [x \in Keys |-> NIL]]
    /\ NothingMoves
    /\ UNCHANGED <<paused, fees, books, edits>>

TransferProtocolAdmin(k, new) ==
    load_global_config_no_pause /\ k = Holder(GLOBAL_CONFIG) /\ Nominate(k, GLOBAL_CONFIG, new)

AcceptProtocolAdmin(k) == load_global_config_no_pause /\ Accept(k, GLOBAL_CONFIG)

TransferMarketAdmin(k, m, new) ==
    load_global_config_no_pause /\ Exists(m) /\ k = Holder(m) /\ Nominate(k, m, new)

AcceptMarketAdmin(k, m) == load_global_config_no_pause /\ Exists(m) /\ Accept(k, m)

TransferGlobalVaultAdmin(k, v, new) ==
    load_global_config_no_pause /\ Exists(v) /\ k = Holder(v) /\ Nominate(k, v, new)

AcceptGlobalVaultAdmin(k, v) == load_global_config_no_pause /\ Exists(v) /\ Accept(k, v)

\* Mutant: the signer is not compared with the curator.
MUT_TransferCurator_any_signer(k, s, new) ==
    load_global_config_no_pause /\ s \in DOMAIN subs /\ Nominate(k, s, new)

\* Of a Private sub-vault too, whose curator is its owner.
TransferCurator(k, s, new) ==
    /\ load_global_config_no_pause
    /\ s \in DOMAIN subs /\ k = Holder(s)
    /\ Nominate(k, s, new)

AcceptCurator(k, s) == load_global_config_no_pause /\ s \in DOMAIN subs /\ Accept(k, s)

-----------------------------------------------------------------------------
(* Sub-vaults and their parameters *)

validate_sub_vault_risk_params(p) ==
    /\ p.max_ltv > 0 /\ p.max_ltv < BPS_PER_UNIT
    /\ p.liq_ltv <= BPS_PER_UNIT
    /\ p.liq_ltv >= p.max_ltv + MIN_LIQ_GAP_BPS
    /\ p.max_term > 0

append_sub_vault(v, kind, curator, p) ==
    /\ next_id[v] <= MaxSubVaults[v]
    /\ subs' = With(subs, <<v, next_id[v]>>, [ kind |-> kind, policy |-> p, sunset |-> FALSE,
                                               depositors |-> {}, asks |-> {} ])
    /\ next_id' = [next_id EXCEPT ![v] = @ + 1]
    /\ roles' = Given(<<v, next_id[v]>>, curator)
    /\ NothingMoves
    /\ UNCHANGED <<paused, said, fees, bids, loans, edits>>

CreatePoolSubVault(k, v, curator, p) ==
    /\ CreatePoolSubVaultContext(k, v)
    /\ validate_sub_vault_risk_params(p)
    /\ curator # NIL
    /\ append_sub_vault(v, "Pool", curator, p)

CreatePrivateSubVault(k, v, p) ==
    /\ SubVaultMutationContext(v)
    /\ validate_sub_vault_risk_params(p)
    /\ append_sub_vault(v, "Private", k, p)

\* Mutant: each field given is checked in its own range, the pair is not.
MUT_AcceptsUpdate_given_only(o, p) ==
    /\ "max_ltv" \in DOMAIN o => o.max_ltv > 0 /\ o.max_ltv < BPS_PER_UNIT
    /\ "liq_ltv" \in DOMAIN o => o.liq_ltv <= BPS_PER_UNIT
    /\ "max_term" \in DOMAIN o => o.max_term > 0

\* The resulting policy is checked, not the fields given.
AcceptsUpdate(o, p) == validate_sub_vault_risk_params(Overridden(p, o))

ChangeSub(s, sub) ==
    /\ subs' = [subs EXCEPT ![s] = sub]
    /\ UNCHANGED <<paused, roles, said, fees, next_id, bids, loans>>

UpdateSubVault(k, s, o) ==
    /\ SubVaultMutationContext(s[1])
    /\ s \in DOMAIN subs /\ k = Holder(s) /\ ~subs[s].sunset
    /\ AcceptsUpdate(o, subs[s].policy)
    /\ ChangeSub(s, [subs[s] EXCEPT !.policy = Overridden(@, o)])
    /\ NothingMoves
    /\ Edit(s[1])

SunsetSubVault(k, s) ==
    /\ SunsetSubVaultContext(k, s[1]) /\ s \in DOMAIN subs
    /\ ChangeSub(s, [subs[s] EXCEPT !.sunset = TRUE])
    /\ NothingMoves
    /\ Edit(s[1])

ResumeSubVault(k, s) ==
    /\ ResumeSubVaultContext(k, s[1]) /\ s \in DOMAIN subs
    /\ ChangeSub(s, [subs[s] EXCEPT !.sunset = FALSE])
    /\ NothingMoves
    /\ Edit(s[1])

is_empty(s) ==
    subs[s].depositors = {} /\ subs[s].asks = {} /\ \A l \in loans : l.lender # s

\* The id is not used again.
RemoveSubVault(k, s) ==
    /\ RemoveSubVaultContext(k, s[1])
    /\ s \in DOMAIN subs /\ subs[s].sunset
    /\ is_empty(s)
    /\ subs' = [x \in DOMAIN subs \ {s} |-> subs[x]]
    /\ roles' = Given(s, NIL)
    /\ said' = [said EXCEPT ![s] = [x \in Keys |-> NIL]]
    /\ NothingMoves
    /\ UNCHANGED <<paused, fees, next_id, bids, loans, edits>>

-----------------------------------------------------------------------------
(* Instructions that move value *)

Trade(ms, vs) ==
    /\ moved' = [markets |-> ms \ {NIL}, vaults |-> vs \ {NIL}]
    /\ UNCHANGED <<paused, roles, said, fees, next_id, edits>>

\* The pair in force when the loan is matched is stamped on it and stays.
Matched(id, m, b, s, presettled) ==
    [ id |-> id, market |-> m, borrower |-> b, lender |-> s, state |-> "matched",
      presettled |-> presettled,
      max_ltv |-> IF s = NIL THEN 0 ELSE subs[s].policy.max_ltv,
      liq_ltv |-> IF s = NIL THEN BPS_PER_UNIT ELSE subs[s].policy.liq_ltv ]

MayMatch == Cardinality(loans) < MaxLoans

FreeId == CHOOSE i \in 1..MaxLoans : \A l \in loans : l.id # i

\* The asks of market m that borrower b can take from vault v: never one it curates.
AskersFor(m, v, b) ==
    { s \in DOMAIN subs : s[1] = v /\ m \in subs[s].asks /\ ~subs[s].sunset /\ Holder(s) # b }

ClaimSeat(k, m) ==
    /\ ClaimSeatContext(m)
    /\ Trade({m}, {})
    /\ UNCHANGED <<subs, bids, loans>>

Deposit(k, m, am) ==
    /\ DepositContext(m, am)
    /\ Trade({m, am}, {})
    /\ UNCHANGED <<subs, bids, loans>>

Withdraw(k, m, am) ==
    /\ WithdrawContext(m, am)
    /\ Trade({m, am}, {})
    /\ UNCHANGED <<subs, bids, loans>>

\* Takes an ask, borrows from the pool, or rests.
PlaceOrder(k, m, am, v) ==
    /\ PlaceOrderContext(m, am, v)
    /\ Trade({m, am}, {v})
    /\ \/ /\ MayMatch
          /\ \E s \in AskersFor(m, v, k) \cup {NIL} :
                loans' = loans \cup {Matched(FreeId, m, k, s, FALSE)}
          /\ UNCHANGED bids
       \/ bids' = bids \cup {<<m, k>>} /\ UNCHANGED loans
    /\ UNCHANGED subs

UpdateOrder(k, m) ==
    /\ CancelOrderContext(m)
    /\ <<m, k>> \in bids
    /\ Trade({m}, {})
    /\ UNCHANGED <<subs, bids, loans>>

CancelOrder(k, m) ==
    /\ CancelOrderContext(m)
    /\ <<m, k>> \in bids
    /\ bids' = bids \ {<<m, k>>}
    /\ Trade({m}, {})
    /\ UNCHANGED <<subs, loans>>

\* A resting bid of market m meets the ask of s, and is spent or stays with its residual.
TakesBid(s, m) ==
    \E b \in {k \in Keys : <<m, k>> \in bids /\ k # Holder(s)} :
        /\ MayMatch
        /\ loans' = loans \cup {Matched(FreeId, m, b, s, FALSE)}
        /\ bids' \in {bids, bids \ {<<m, b>>}}

PlaceOrderForSubVault(k, s, m) ==
    /\ PlaceOrderForSubVaultContext(s[1], m)
    /\ s \in DOMAIN subs /\ ~subs[s].sunset /\ k = Holder(s)
    /\ m \notin subs[s].asks
    /\ subs' = [subs EXCEPT ![s].asks = @ \cup {m}]
    /\ TakesBid(s, m) \/ UNCHANGED <<bids, loans>>
    /\ Trade({m}, {s[1]})

UpdateOrderForSubVault(k, s, m) ==
    /\ PlaceOrderForSubVaultContext(s[1], m)
    /\ s \in DOMAIN subs /\ ~subs[s].sunset /\ k = Holder(s)
    /\ m \in subs[s].asks
    /\ TakesBid(s, m) \/ UNCHANGED <<bids, loans>>
    /\ Trade({m}, {s[1]})
    /\ UNCHANGED subs

CancelOrderForSubVault(k, s, m) ==
    /\ CancelOrderForSubVaultContext(s[1], m)
    /\ s \in DOMAIN subs /\ k = Holder(s)
    /\ m \in subs[s].asks
    /\ subs' = [subs EXCEPT ![s].asks = @ \ {m}]
    /\ Trade({m}, {s[1]})
    /\ UNCHANGED <<bids, loans>>

\* An ask reserves no atoms: nothing moves, and no pause stops it.
AdminCancelSubVaultOrder(k, s, m) ==
    /\ AdminCancelSubVaultOrderContext(k, s[1], m)
    /\ s \in DOMAIN subs /\ subs[s].sunset
    /\ m \in subs[s].asks
    /\ ChangeSub(s, [subs[s] EXCEPT !.asks = @ \ {m}])
    /\ NothingMoves
    /\ UNCHANGED edits

MatchCrank(k, m, v) ==
    /\ MatchCrankContext(v, m)
    /\ \E s \in DOMAIN subs : s[1] = v /\ m \in subs[s].asks /\ ~subs[s].sunset /\ TakesBid(s, m)
    /\ Trade({m}, {v})
    /\ UNCHANGED subs

ProcessMatchedLoan(k, m, am, l, v, av) ==
    /\ ProcessMatchedLoanContext(m, am, l, v, av)
    /\ loans' = (loans \ {l}) \cup {[l EXCEPT !.state = "active"]}
    /\ Trade({m, am}, {v, av})
    /\ UNCHANGED <<subs, bids>>

\* Pays part of the loan or closes it.
Repay(k, m, am, l, v, av) ==
    /\ RepayContext(m, am, l, v, av)
    /\ k = l.borrower
    /\ loans' \in {loans, loans \ {l}}
    /\ Trade({m, am}, {v, av})
    /\ UNCHANGED <<subs, bids>>

\* LTV-gated and maturity-gated; both load the same context.
LiquidateLoan(k, m, am, l, v, av) ==
    /\ SettleMaturedLoanContext(m, am, l, v, av)
    /\ loans' \in {loans, loans \ {l}}
    /\ Trade({m, am}, {v, av})
    /\ UNCHANGED <<subs, bids>>

SettleMaturedLoan(k, m, am, l, v, av) ==
    /\ SettleMaturedLoanContext(m, am, l, v, av)
    /\ loans' \in {loans, loans \ {l}}
    /\ Trade({m, am}, {v, av})
    /\ UNCHANGED <<subs, bids>>

\* The pool loan becomes a Fixed one of the sub-vaults whose asks it takes.
ConvertP2PoolToFixed(k, m, am, l, v, av) ==
    /\ ConvertP2PoolToFixedContext(m, am, l, v, av)
    /\ k = l.borrower
    /\ \E s \in AskersFor(m, v, k) :
          loans' = (loans \ {l}) \cup {Matched(l.id, m, k, s, TRUE)}
    /\ Trade({m, am}, {v, av})
    /\ UNCHANGED <<subs, bids>>

\* Permissionless reads and display copies.
CheckLiquidatable(k, m, am, l) ==
    /\ CheckLtvLiquidatableContext(m, am, l) \/ CheckMaturityLiquidatableContext(m, l)
    /\ l.state = "active"
    /\ Trade({}, {})
    /\ UNCHANGED <<subs, bids, loans>>

SyncMarketPosition(k, m) ==
    /\ load_global_config /\ Exists(m)
    /\ Trade({}, {})
    /\ UNCHANGED <<subs, bids, loans>>

ClaimRepaymentForSubVault(k, m, am, s, av) ==
    /\ ClaimRepaymentForSubVaultContext(m, am, s[1], av)
    /\ s \in DOMAIN subs
    /\ Trade({m, am}, {s[1], av})
    /\ UNCHANGED <<subs, bids, loans>>

ProtocolFeeClaim(k, m, am) ==
    /\ ProtocolFeeClaimContext(k, m, am)
    /\ Trade({m, am}, {})
    /\ UNCHANGED <<subs, bids, loans>>

ClaimCuratorFee(k, s, av) ==
    /\ ClaimCuratorFeeContext(s[1], av)
    /\ s \in DOMAIN subs /\ k = Holder(s)
    /\ Trade({}, {s[1], av})
    /\ UNCHANGED <<subs, bids, loans>>

GlobalVaultDeposit(k, s, av) ==
    /\ GlobalVaultDepositContext(s[1], av)
    /\ s \in DOMAIN subs /\ ~subs[s].sunset
    /\ subs[s].kind = "Private" => k = Holder(s)
    /\ subs' = [subs EXCEPT ![s].depositors = @ \cup {k}]
    /\ Trade({}, {s[1], av})
    /\ UNCHANGED <<bids, loans>>

\* Burns part or all of the signer's shares.
GlobalVaultWithdraw(k, s, av) ==
    /\ GlobalVaultWithdrawContext(s[1], av)
    /\ s \in DOMAIN subs /\ k \in subs[s].depositors
    /\ subs[s].kind = "Private" => k = Holder(s)
    /\ subs' \in {subs, [subs EXCEPT ![s].depositors = @ \ {k}]}
    /\ Trade({}, {s[1], av})
    /\ UNCHANGED <<bids, loans>>

-----------------------------------------------------------------------------
(* Specification *)

\* A holder that names itself hands over nothing.
Nominees(r) == (Keys \ {Holder(r)}) \cup {NIL}

Administer(k) ==
    \/ CreateGlobalConfig(k)
    \/ \E p \in BOOLEAN : SetGlobalPause(k, p)
    \/ \E new \in Nominees(GLOBAL_CONFIG) : TransferProtocolAdmin(k, new)
    \/ AcceptProtocolAdmin(k)
    \/ \E m \in Markets :
          \/ \E o \in FeeOverrides : CreateMarket(k, m, o) \/ SetFeeConfig(k, m, o)
          \/ \E p \in BOOLEAN : SetMarketPause(k, m, p)
          \/ \E new \in Nominees(m) : TransferMarketAdmin(k, m, new)
          \/ AcceptMarketAdmin(k, m)
    \/ \E v \in Vaults :
          \/ CreateVault(k, v)
          \/ \E p \in BOOLEAN : SetVaultPause(k, v, p)
          \/ \E new \in Nominees(v) : TransferGlobalVaultAdmin(k, v, new)
          \/ AcceptGlobalVaultAdmin(k, v)
          \/ \E c \in Keys \cup {NIL}, p \in Policies : CreatePoolSubVault(k, v, c, p)
          \/ \E p \in Policies : CreatePrivateSubVault(k, v, p)

Curate(k) ==
    \E s \in SubVaultIds :
        \/ \E new \in Nominees(s) : TransferCurator(k, s, new)
        \/ AcceptCurator(k, s)
        \/ \E o \in PolicyOverrides : UpdateSubVault(k, s, o)
        \/ SunsetSubVault(k, s) \/ ResumeSubVault(k, s) \/ RemoveSubVault(k, s)
        \/ \E av \in VaultAccounts : \/ GlobalVaultDeposit(k, s, av) \/ GlobalVaultWithdraw(k, s, av)
                              \/ ClaimCuratorFee(k, s, av)
        \/ \E m \in Markets :
              \/ PlaceOrderForSubVault(k, s, m) \/ UpdateOrderForSubVault(k, s, m)
              \/ CancelOrderForSubVault(k, s, m) \/ AdminCancelSubVaultOrder(k, s, m)
              \/ \E am \in MarketAccounts, av \in VaultAccounts : ClaimRepaymentForSubVault(k, m, am, s, av)

Borrow(k) ==
    \E m \in Markets :
        \/ ClaimSeat(k, m) \/ UpdateOrder(k, m) \/ CancelOrder(k, m) \/ SyncMarketPosition(k, m)
        \/ \E v \in VaultAccounts : MatchCrank(k, m, v)
        \/ \E am \in MarketAccounts :
              \/ Deposit(k, m, am) \/ Withdraw(k, m, am) \/ ProtocolFeeClaim(k, m, am)
              \/ \E v \in VaultAccounts \cup {NIL} : PlaceOrder(k, m, am, v)
              \/ \E l \in loans :
                    \/ CheckLiquidatable(k, m, am, l)
                    \/ \E v, av \in VaultAccounts \cup {NIL} :
                          \/ ProcessMatchedLoan(k, m, am, l, v, av)
                          \/ Repay(k, m, am, l, v, av)
                          \/ LiquidateLoan(k, m, am, l, v, av)
                          \/ SettleMaturedLoan(k, m, am, l, v, av)
                          \/ ConvertP2PoolToFixed(k, m, am, l, v, av)

Next ==
    \/ \E k \in Keys : Administer(k) \/ Curate(k)
    \/ \E k \in Borrowers : Borrow(k)

Spec == Init /\ [][Next]_vars

\* For TLC: nothing reads moved, which every step sets anew.
NoMoved == <<paused, roles, said, fees, subs, next_id, bids, loans, edits>>

-----------------------------------------------------------------------------
(* Properties *)

\* A role passes only to the key its holder last signed for, in this tenure: no
\* overwritten, withdrawn or foreign nomination is ever accepted (admin_transfer.rs,
\* global_config_admin.rs).  A new role goes to a real key, and only the removal of
\* its sub-vault leaves a role without one.
HandoverAuthorised ==
    [][\A r \in Roles : Holder(r)' # Holder(r) =>
          \/ Holder(r) = NIL /\ Holder(r)' \in Keys
          \/ Holder(r) # NIL /\ Holder(r)' \in Keys /\ said[r][Holder(r)] = Holder(r)'
          \/ r \in DOMAIN subs /\ r \notin DOMAIN subs']_vars

\* Whatever accounts the caller passes, an instruction moves value only where nothing
\* is paused, of one market at most, and of no vault but the one of that market's
\* debt bank (the contexts of loaders.rs).
OnlyOpenScopesMove ==
    [][LET ms == moved'.markets
           vs == moved'.vaults
       IN  ms \cup vs # {} =>
              /\ ms \cup vs \subseteq DOMAIN paused
              /\ Cardinality(ms) <= 1 /\ Cardinality(vs) <= 1
              /\ \A m \in ms : vs \subseteq {DebtBank[m]}
              /\ \A x \in ms \cup vs \cup {GLOBAL_CONFIG} : ~paused[x]]_vars

\* However parameters were overridden, in whatever order: every fee is within its cap,
\* every sub-vault and every loan matched under it, still queued or open, leaves the
\* liquidation gap (create_sub_vault.rs: "no loan is born liquidatable"), and a loan's
\* lender is a sub-vault that still exists, of its market's debt bank.
TermsSound ==
    /\ \A m \in Markets, f \in DOMAIN FeeDefault : fees[m][f] <= FeeCap[f]
    /\ \A s \in DOMAIN subs : validate_sub_vault_risk_params(subs[s].policy)
    /\ \A l \in loans : l.lender # NIL =>
          /\ l.liq_ltv >= l.max_ltv + MIN_LIQ_GAP_BPS
          /\ l.lender \in DOMAIN subs
          /\ DebtBank[l.market] = l.lender[1]

\* A Private sub-vault's shares are its curator's alone: "this is defense-in-depth so a
\* stray Private seat can never exist" (global_vault_withdraw.rs).
PrivateSoleOwner ==
    \A s \in DOMAIN subs :
        subs[s].kind = "Private" => subs[s].depositors \subseteq {Holder(s)}

=============================================================================
