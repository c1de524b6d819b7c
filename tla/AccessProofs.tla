---------------------------- MODULE AccessProofs -----------------------------
(***************************************************************************)
(* Proofs about Access for every set of keys, markets, vaults, policies    *)
(* and fee overrides: every role changes hands as its holder signed, every *)
(* parameter stays within its limits, and value moves only where nothing   *)
(* is paused, of one market and its debt bank's vault.                     *)
(*                                                                         *)
(* None of the three is inductive by itself.  A handover needs the pending *)
(* key to be the one the present holder signed for last, a creation needs  *)
(* the roles of accounts and sub-vaults that do not exist to be vacant,    *)
(* and the contexts of the close paths need the loan's lender to be of the *)
(* market's debt bank, which is a fact about the fill that made the loan.  *)
(***************************************************************************)
EXTENDS Access, FiniteSetTheorems, TLAPS

-----------------------------------------------------------------------------
(* The inductive invariant *)

Accounts == {GLOBAL_CONFIG} \cup Markets \cup Vaults

RoleRecord == [holder : Keys \cup {NIL}, pending : Keys \cup {NIL}]

\* A role without an account is vacant; a pending key is the one its present
\* holder signed for last.
RolesInv ==
    /\ roles \in [Roles -> RoleRecord]
    /\ said \in [Roles -> [Keys -> Keys \cup {NIL}]]
    /\ DOMAIN subs \subseteq SubVaultIds
    /\ \A r \in Accounts : r \notin DOMAIN paused => roles[r].holder = NIL
    /\ \A s \in SubVaultIds : s \notin DOMAIN subs => roles[s].holder = NIL
    /\ \A r \in Roles : roles[r].pending # NIL =>
          /\ roles[r].holder \in Keys
          /\ said[r][roles[r].holder] = roles[r].pending

\* Ids are handed out once.
IdsInv ==
    /\ next_id \in [Vaults -> Nat \ {0}]
    /\ \A s \in DOMAIN subs : s[2] < next_id[s[1]]

FeesInv ==
    /\ DOMAIN fees = Markets
    /\ \A m \in Markets :
          /\ DOMAIN fees[m] = DOMAIN FeeDefault
          /\ \A f \in DOMAIN FeeDefault : fees[m][f] <= FeeCap[f]

GoodSub(x) ==
    /\ x = [ kind |-> x.kind, policy |-> x.policy, sunset |-> x.sunset,
             depositors |-> x.depositors, asks |-> x.asks ]
    /\ validate_sub_vault_risk_params(x.policy)

SubsInv == \A s \in DOMAIN subs : GoodSub(subs[s])

\* A loan, and the terms of its match.
LoanShape(l) ==
    l = [ id |-> l.id, market |-> l.market, borrower |-> l.borrower, lender |-> l.lender,
          state |-> l.state, presettled |-> l.presettled, max_ltv |-> l.max_ltv,
          liq_ltv |-> l.liq_ltv ]

GoodLoan(l) ==
    /\ LoanShape(l)
    /\ l.lender # NIL => /\ l.liq_ltv >= l.max_ltv + MIN_LIQ_GAP_BPS
                         /\ l.lender \in DOMAIN subs
                         /\ DebtBank[l.market] = l.lender[1]

LoansInv == \A l \in loans : GoodLoan(l)

IInv == RolesInv /\ IdsInv /\ FeesInv /\ SubsInv /\ LoansInv

\* The two action properties, of one step.
HandoverStep ==
    \A r \in Roles : Holder(r)' # Holder(r) =>
          \/ Holder(r) = NIL /\ Holder(r)' \in Keys
          \/ Holder(r) # NIL /\ Holder(r)' \in Keys /\ said[r][Holder(r)] = Holder(r)'
          \/ r \in DOMAIN subs /\ r \notin DOMAIN subs'

MoveStep ==
    LET ms == moved'.markets
        vs == moved'.vaults
    IN  ms \cup vs # {} =>
           /\ ms \cup vs \subseteq DOMAIN paused
           /\ Cardinality(ms) <= 1 /\ Cardinality(vs) <= 1
           /\ \A m \in ms : vs \subseteq {DebtBank[m]}
           /\ \A x \in ms \cup vs \cup {GLOBAL_CONFIG} : ~paused[x]

\* What is shown of every instruction.
Sound == IInv' /\ HandoverStep /\ MoveStep

-----------------------------------------------------------------------------
(* Facts about the operators *)

\* A sub-vault's first component is its vault.
LEMMA SubVaultOf ==
    ASSUME NEW s \in SubVaultIds
    PROVE  s[1] \in Vaults /\ s[2] \in Nat /\ s = <<s[1], s[2]>>
<1>1. PICK v \in Vaults : s \in {v} \X (1..MaxSubVaults[v])
  BY DEF SubVaultIds
<1> QED BY <1>1

\* A sub-vault's name is never an account's, and both kinds of name hold a role.
LEMMA NodesAreNoAccounts ==
    /\ \A s \in SubVaultIds : s \notin Accounts
    /\ \A r \in Roles : r \in Accounts \/ r \in SubVaultIds
    /\ Accounts \subseteq Roles /\ SubVaultIds \subseteq Roles
  BY NodeAssumption DEF Accounts, Roles

\* With writes one point.
LEMMA WithFacts ==
    ASSUME NEW f, NEW x, NEW y
    PROVE  /\ DOMAIN With(f, x, y) = DOMAIN f \cup {x}
           /\ With(f, x, y)[x] = y
           /\ \A z \in DOMAIN f : z # x => With(f, x, y)[z] = f[z]
  BY DEF With

\* A set within a singleton has at most one element.
LEMMA AtMostOne ==
    ASSUME NEW S, NEW a, S \subseteq {a}
    PROVE  Cardinality(S) <= 1
<1>1. CASE S = {}
  <2>1. Cardinality(S) = 0 BY <1>1, FS_EmptySet
  <2> QED BY <2>1
<1>2. CASE S = {a}
  <2>1. Cardinality(S) = 1 BY <1>2, FS_Singleton
  <2> QED BY <2>1
<1> QED BY <1>1, <1>2

\* Nothing moves.
LEMMA StillMoves == ASSUME NothingMoves PROVE MoveStep
  BY DEF NothingMoves, MoveStep

\* What moves is one market and one vault of an open scope.
LEMMA OpenMoves ==
    ASSUME NEW ms, NEW vs, NEW a, NEW b, moved' = [markets |-> ms, vaults |-> vs],
           ms \subseteq {a}, vs \subseteq {b}, ~paused[GLOBAL_CONFIG],
           a \in ms => a \in DOMAIN paused /\ ~paused[a],
           b \in vs => b \in DOMAIN paused /\ ~paused[b],
           a \in ms /\ b \in vs => DebtBank[a] = b
    PROVE  MoveStep
<1>1. Cardinality(ms) <= 1 /\ Cardinality(vs) <= 1
  BY AtMostOne
<1>2. moved'.markets = ms /\ moved'.vaults = vs
  OBVIOUS
<1> QED BY <1>1, <1>2, Zenon DEF MoveStep

-----------------------------------------------------------------------------
(* Instructions that leave the roles and the parameters alone *)

\* What keeps the accounts, the roles, the ids and the set of sub-vaults keeps RolesInv.
LEMMA RolesKept ==
    ASSUME IInv, UNCHANGED <<roles, said, next_id>>, DOMAIN paused' = DOMAIN paused,
           DOMAIN subs' = DOMAIN subs
    PROVE  RolesInv' /\ IdsInv' /\ HandoverStep
<1>1. RolesInv' BY DEF IInv, RolesInv
<1>2. IdsInv' BY DEF IInv, IdsInv
<1>3. HandoverStep BY DEF HandoverStep, Holder
<1> QED BY <1>1, <1>2, <1>3

\* Loans change only by new matches on good terms.
LoansGrowWell == \A l \in loans' : l \in loans \/ GoodLoan(l)

\* The loans stay sound when no sub-vault goes and every new loan is sound.
LEMMA LoansKept ==
    ASSUME IInv, LoansGrowWell, DOMAIN subs \subseteq DOMAIN subs'
    PROVE  LoansInv'
  BY DEF IInv, LoansInv, LoansGrowWell, GoodLoan, LoanShape

\* An instruction that only moves money or loans keeps the invariant and hands no
\* role over.
LEMMA TradeKeeps ==
    ASSUME IInv, UNCHANGED <<paused, roles, said, fees, next_id, subs>>, LoansGrowWell
    PROVE  IInv' /\ HandoverStep
<1>1. RolesInv' /\ IdsInv' /\ HandoverStep BY RolesKept
<1>2. LoansInv' BY LoansKept
<1>3. FeesInv' BY DEF IInv, FeesInv
<1>4. SubsInv' BY DEF IInv, SubsInv
<1> QED BY <1>1, <1>2, <1>3, <1>4 DEF IInv

\* One sub-vault is rewritten.
LEMMA SubWrite ==
    ASSUME IInv, NEW s \in DOMAIN subs, NEW x, GoodSub(x),
           UNCHANGED <<paused, roles, said, fees, next_id>>, subs' = [subs EXCEPT ![s] = x],
           LoansGrowWell
    PROVE  IInv' /\ HandoverStep
<1>0. DOMAIN subs' = DOMAIN subs OBVIOUS
<1>1. RolesInv' /\ IdsInv' /\ HandoverStep BY <1>0, RolesKept
<1>2. LoansInv' BY <1>0, LoansKept
<1>3. FeesInv' BY DEF IInv, FeesInv
<1>4. SubsInv' BY <1>0 DEF IInv, SubsInv
<1> QED BY <1>1, <1>2, <1>3, <1>4 DEF IInv

\* A step that adds no loan adds no unsound one.
LEMMA SameLoansGrowWell == ASSUME loans' \subseteq loans PROVE LoansGrowWell
  BY DEF LoansGrowWell

\* A match with a sub-vault of the market's debt bank, or with the pool, is good.
LEMMA MatchedIsGood ==
    ASSUME IInv, NEW id, NEW m, NEW b, NEW s, NEW pre,
           s = NIL \/ (s \in DOMAIN subs /\ DebtBank[m] = s[1])
    PROVE  GoodLoan(Matched(id, m, b, s, pre))
<1> DEFINE l == Matched(id, m, b, s, pre)
<1>1. LoanShape(l) /\ l.lender = s /\ l.market = m
  BY DEF Matched, LoanShape
<1>2. ASSUME s # NIL PROVE l.liq_ltv >= l.max_ltv + MIN_LIQ_GAP_BPS
  <2>1. l.liq_ltv = subs[s].policy.liq_ltv /\ l.max_ltv = subs[s].policy.max_ltv
    BY <1>2 DEF Matched
  <2>2. subs[s].policy.liq_ltv >= subs[s].policy.max_ltv + MIN_LIQ_GAP_BPS
    BY <1>2 DEF IInv, SubsInv, GoodSub, validate_sub_vault_risk_params
  <2> QED BY <2>1, <2>2
<1> HIDE DEF l
<1> QED BY <1>1, <1>2 DEF GoodLoan, l

-----------------------------------------------------------------------------
(* Instructions that move value *)

\* A vault of the model that passes the gate exists and is not paused.
LEMMA GatedVault ==
    ASSUME NEW v \in Vaults, require_vault_not_paused(v)
    PROVE  v \in DOMAIN paused /\ ~paused[v]
  BY AccessAssumption DEF require_vault_not_paused, Exists

\* Value of market m and, if it is one, of vault v.
LEMMA TradeMoves ==
    ASSUME NEW m, NEW v, NEW ms, NEW vs, Trade(ms, vs), ms \subseteq {m}, vs \subseteq {v},
           load_global_config,
           ms # {} => m \in DOMAIN paused /\ ~paused[m],
           v # NIL /\ vs # {} => v \in DOMAIN paused /\ ~paused[v],
           v # NIL /\ vs # {} /\ ms # {} => DebtBank[m] = v
    PROVE  MoveStep
<1>1. moved' = [markets |-> ms \ {NIL}, vaults |-> vs \ {NIL}]
  BY DEF Trade
<1>2. ~paused[GLOBAL_CONFIG]
  BY DEF load_global_config, require_global_not_paused
<1>3. PICK a, b : a = ms \ {NIL} /\ b = vs \ {NIL} OBVIOUS
<1>4. /\ a \subseteq {m} /\ b \subseteq {v}
      /\ m \in a => m \in DOMAIN paused /\ ~paused[m]
      /\ v \in b => v \in DOMAIN paused /\ ~paused[v]
      /\ m \in a /\ v \in b => DebtBank[m] = v
  BY <1>3
<1>5. moved' = [markets |-> a, vaults |-> b] BY <1>1, <1>3
<1> QED BY <1>2, <1>4, <1>5, OpenMoves

\* claim_seat, deposit, withdraw, update_order, cancel_order, protocol_fee_claim and
\* the read-only instructions.
LEMMA MarketOnly ==
    ASSUME IInv, NEW m, NEW ms, ms \subseteq {m}, ms # {} => OpenMarket(m),
           load_global_config, Trade(ms, {}), UNCHANGED <<subs, loans>>
    PROVE  Sound
<1>1. MoveStep
  <2>1. ms # {} => m \in DOMAIN paused /\ ~paused[m]
    BY DEF OpenMarket, require_market_not_paused, Exists
  <2> QED BY <2>1, TradeMoves
<1>2. IInv' /\ HandoverStep
  <2>1. LoansGrowWell BY DEF LoansGrowWell
  <2> QED BY <2>1, TradeKeeps DEF Trade
<1> QED BY <1>1, <1>2 DEF Sound

\* The instructions of a borrower on one market, which change no loan.
LEMMA MarketSound ==
    ASSUME IInv, NEW k, NEW m \in Markets, NEW am, NEW l,
           \/ ClaimSeat(k, m) \/ Deposit(k, m, am) \/ Withdraw(k, m, am)
           \/ UpdateOrder(k, m) \/ CancelOrder(k, m) \/ ProtocolFeeClaim(k, m, am)
           \/ CheckLiquidatable(k, m, am, l) \/ SyncMarketPosition(k, m)
    PROVE  Sound
<1>1. CASE ClaimSeat(k, m) \/ UpdateOrder(k, m) \/ CancelOrder(k, m)
  <2>1. OpenMarket(m) /\ Trade({m}, {}) /\ UNCHANGED <<subs, loans>>
    BY <1>1 DEF ClaimSeat, UpdateOrder, CancelOrder, ClaimSeatContext, CancelOrderContext
  <2>2. load_global_config BY <2>1 DEF OpenMarket
  <2> QED BY <2>1, <2>2, MarketOnly
<1>2. CASE Deposit(k, m, am) \/ Withdraw(k, m, am) \/ ProtocolFeeClaim(k, m, am)
  <2>1. OpenMarket(m) /\ am = m /\ Trade({m, am}, {}) /\ UNCHANGED <<subs, loans>>
    BY <1>2 DEF Deposit, Withdraw, ProtocolFeeClaim, DepositContext, WithdrawContext,
                ProtocolFeeClaimContext
  <2>2. load_global_config BY <2>1 DEF OpenMarket
  <2>3. {m, am} \subseteq {m} BY <2>1
  <2> QED BY <2>1, <2>2, <2>3, MarketOnly
<1>3. CASE CheckLiquidatable(k, m, am, l) \/ SyncMarketPosition(k, m)
  <2>1. load_global_config /\ Trade({}, {}) /\ UNCHANGED <<subs, loans>>
    BY <1>3 DEF CheckLiquidatable, SyncMarketPosition, CheckLtvLiquidatableContext,
                CheckMaturityLiquidatableContext, OpenMarket
  <2> QED BY <2>1, MarketOnly
<1> QED BY <1>1, <1>2, <1>3

\* A trade on market m and vault v (none when v is NIL) that passes their gates.
GatedPair(m, v) ==
    /\ OpenMarket(m)
    /\ v # NIL => DebtBank[m] = v /\ require_vault_not_paused(v)

\* Money of a market and of a vault moves only behind both their gates.
LEMMA PairMoves ==
    ASSUME NEW m \in Markets, NEW v, GatedPair(m, v), NEW ms, NEW vs, Trade(ms, vs),
           ms \subseteq {m}, vs \subseteq {v}
    PROVE  MoveStep
<1>1. load_global_config /\ m \in DOMAIN paused /\ ~paused[m]
  BY DEF GatedPair, OpenMarket, require_market_not_paused, Exists
<1>2. v # NIL => v \in Vaults /\ DebtBank[m] = v /\ require_vault_not_paused(v)
  BY AccessAssumption DEF GatedPair
<1>3. v # NIL => v \in DOMAIN paused /\ ~paused[v]
  BY <1>2, GatedVault
<1> QED BY <1>1, <1>2, <1>3, TradeMoves

\* place_order: takes an ask of the vault it loaded, borrows from the pool, or rests.
LEMMA PlaceOrderSound ==
    ASSUME IInv, NEW k, NEW m \in Markets, NEW am, NEW v, PlaceOrder(k, m, am, v)
    PROVE  Sound
<1>1. GatedPair(m, v) /\ am = m /\ Trade({m, am}, {v}) /\ UNCHANGED subs
  BY DEF PlaceOrder, PlaceOrderContext, GatedPair
<1>2. MoveStep
  <2>1. {m, am} \subseteq {m} BY <1>1
  <2> QED BY <1>1, <2>1, PairMoves
<1>3. LoansGrowWell
  <2>1. CASE UNCHANGED loans BY <2>1, SameLoansGrowWell
  <2>2. CASE \E s \in AskersFor(m, v, k) \cup {NIL} :
                loans' = loans \cup {Matched(FreeId, m, k, s, FALSE)}
    <3>1. PICK s \in AskersFor(m, v, k) \cup {NIL} :
                loans' = loans \cup {Matched(FreeId, m, k, s, FALSE)}
      BY <2>2
    <3>2. s = NIL \/ (s \in DOMAIN subs /\ s[1] = v) BY DEF AskersFor
    <3>3. ASSUME s # NIL PROVE DebtBank[m] = s[1]
      <4>1. s \in SubVaultIds /\ s[1] = v BY <3>2, <3>3 DEF IInv, RolesInv
      <4>2. v \in Vaults BY <4>1, SubVaultOf
      <4>3. v # NIL BY <4>2, AccessAssumption
      <4> QED BY <1>1, <4>1, <4>3 DEF GatedPair
    <3>4. GoodLoan(Matched(FreeId, m, k, s, FALSE)) BY <3>2, <3>3, MatchedIsGood
    <3> QED BY <3>1, <3>4 DEF LoansGrowWell
  <2> QED BY <2>1, <2>2 DEF PlaceOrder
<1>4. IInv' /\ HandoverStep BY <1>1, <1>3, TradeKeeps DEF Trade
<1> QED BY <1>2, <1>4 DEF Sound

\* A resting bid meets an ask of the market's debt bank.
LEMMA TakesBidGood ==
    ASSUME IInv, NEW s \in DOMAIN subs, NEW m, DebtBank[m] = s[1], TakesBid(s, m)
    PROVE  LoansGrowWell
<1>1. PICK b : loans' = loans \cup {Matched(FreeId, m, b, s, FALSE)} BY DEF TakesBid
<1>2. GoodLoan(Matched(FreeId, m, b, s, FALSE)) BY MatchedIsGood
<1> QED BY <1>1, <1>2 DEF LoansGrowWell

\* match_crank: the vault it names is of the market's debt bank.
LEMMA MatchCrankSound ==
    ASSUME IInv, NEW k, NEW m \in Markets, NEW v, MatchCrank(k, m, v)
    PROVE  Sound
<1>1. /\ OpenVault(v) /\ require_market_not_paused(m) /\ DebtBank[m] = v
      /\ Trade({m}, {v}) /\ UNCHANGED subs
  BY DEF MatchCrank, MatchCrankContext, require_vault_mint_matches_market
<1>2. GatedPair(m, v) BY <1>1 DEF GatedPair, OpenMarket, OpenVault
<1>3. MoveStep BY <1>1, <1>2, PairMoves
<1>4. LoansGrowWell
  <2>1. PICK s \in DOMAIN subs : s[1] = v /\ TakesBid(s, m) BY DEF MatchCrank
  <2> QED BY <1>1, <2>1, TakesBidGood
<1>5. IInv' /\ HandoverStep BY <1>1, <1>4, TradeKeeps DEF Trade
<1> QED BY <1>3, <1>5 DEF Sound

\* The instructions on one loan: the accounts they load are of its market and of its
\* lender's vault.
LEMMA LoanContext ==
    ASSUME IInv, NEW m \in Markets, NEW am, NEW l \in loans, NEW v, NEW av,
           \/ ProcessMatchedLoanContext(m, am, l, v, av)
           \/ RepayContext(m, am, l, v, av)
           \/ ConvertP2PoolToFixedContext(m, am, l, v, av)
    PROVE  GatedPair(m, v) /\ am = m /\ av = v /\ l.market = m
<1>1. GoodLoan(l) BY DEF IInv, LoansInv
<1>2. CASE ProcessMatchedLoanContext(m, am, l, v, av)
  BY <1>2 DEF ProcessMatchedLoanContext, load_vault_settle_accounts, GatedPair
<1>3. CASE RepayContext(m, am, l, v, av)
  <2>1. OpenMarket(m) /\ am = m /\ l.market = m /\ LenderVault(l, v, av)
    BY <1>3 DEF RepayContext
  <2>2. CASE l.lender = NIL BY <2>1, <2>2 DEF LenderVault, GatedPair
  <2>3. CASE l.lender # NIL
    BY <1>1, <2>1, <2>3 DEF LenderVault, GatedPair, GoodLoan
  <2> QED BY <2>2, <2>3
<1>4. CASE ConvertP2PoolToFixedContext(m, am, l, v, av)
  BY <1>4 DEF ConvertP2PoolToFixedContext, GatedPair
<1> QED BY <1>2, <1>3, <1>4

\* Promotion, repayment, liquidation, settlement and conversion.
LEMMA LoanSound ==
    ASSUME IInv, NEW k, NEW m \in Markets, NEW am, NEW l \in loans, NEW v, NEW av,
           \/ ProcessMatchedLoan(k, m, am, l, v, av)
           \/ Repay(k, m, am, l, v, av)
           \/ LiquidateLoan(k, m, am, l, v, av)
           \/ SettleMaturedLoan(k, m, am, l, v, av)
           \/ ConvertP2PoolToFixed(k, m, am, l, v, av)
    PROVE  Sound
<1>1. /\ Trade({m, am}, {v, av}) /\ UNCHANGED subs
      /\ GatedPair(m, v) /\ am = m /\ av = v /\ l.market = m
  BY LoanContext DEF ProcessMatchedLoan, Repay, LiquidateLoan, SettleMaturedLoan,
                     ConvertP2PoolToFixed, SettleMaturedLoanContext
<1>2. MoveStep
  <2>1. {m, am} \subseteq {m} /\ {v, av} \subseteq {v} BY <1>1
  <2> QED BY <1>1, <2>1, PairMoves
<1>3. LoansGrowWell
  <2>1. CASE ProcessMatchedLoan(k, m, am, l, v, av)
    <3> DEFINE n == [l EXCEPT !.state = "active"]
    <3>1. loans' = (loans \ {l}) \cup {n} BY <2>1 DEF ProcessMatchedLoan
    <3>2. GoodLoan(l) BY DEF IInv, LoansInv
    <3>3. /\ LoanShape(n) /\ n.lender = l.lender /\ n.market = l.market
          /\ n.max_ltv = l.max_ltv /\ n.liq_ltv = l.liq_ltv
      BY <3>2 DEF GoodLoan, LoanShape
    <3> HIDE DEF n
    <3>4. GoodLoan(n) BY <3>2, <3>3 DEF GoodLoan
    <3> QED BY <3>1, <3>4 DEF LoansGrowWell
  <2>2. CASE \/ Repay(k, m, am, l, v, av) \/ LiquidateLoan(k, m, am, l, v, av)
             \/ SettleMaturedLoan(k, m, am, l, v, av)
    <3>1. loans' \subseteq loans BY <2>2 DEF Repay, LiquidateLoan, SettleMaturedLoan
    <3> QED BY <3>1, SameLoansGrowWell
  <2>3. CASE ConvertP2PoolToFixed(k, m, am, l, v, av)
    <3>1. PICK s \in AskersFor(m, v, k) :
             loans' = (loans \ {l}) \cup {Matched(l.id, m, k, s, TRUE)}
      BY <2>3 DEF ConvertP2PoolToFixed
    <3>2. s \in DOMAIN subs /\ s[1] = v BY DEF AskersFor
    <3>3. DebtBank[m] = v
      BY <2>3 DEF ConvertP2PoolToFixed, ConvertP2PoolToFixedContext
    <3>4. GoodLoan(Matched(l.id, m, k, s, TRUE)) BY <3>2, <3>3, MatchedIsGood
    <3> QED BY <3>1, <3>4 DEF LoansGrowWell
  <2> QED BY <2>1, <2>2, <2>3
<1>4. IInv' /\ HandoverStep BY <1>1, <1>3, TradeKeeps DEF Trade
<1> QED BY <1>2, <1>4 DEF Sound

-----------------------------------------------------------------------------
(* Sub-vaults *)

\* A sub-vault's parts.
LEMMA SubParts ==
    ASSUME NEW x, GoodSub(x), NEW y
    PROVE  /\ GoodSub([x EXCEPT !.sunset = y])
           /\ GoodSub([x EXCEPT !.asks = y])
           /\ GoodSub([x EXCEPT !.depositors = y])
           /\ validate_sub_vault_risk_params(y) => GoodSub([x EXCEPT !.policy = y])
<1>1. x = [ kind |-> x.kind, policy |-> x.policy, sunset |-> x.sunset,
            depositors |-> x.depositors, asks |-> x.asks ]
  BY DEF GoodSub
<1>2. GoodSub([x EXCEPT !.sunset = y]) BY <1>1 DEF GoodSub
<1>3. GoodSub([x EXCEPT !.asks = y]) BY <1>1 DEF GoodSub
<1>4. GoodSub([x EXCEPT !.depositors = y]) BY <1>1 DEF GoodSub
<1>5. validate_sub_vault_risk_params(y) => GoodSub([x EXCEPT !.policy = y]) BY <1>1 DEF GoodSub
<1> QED BY <1>2, <1>3, <1>4, <1>5

\* update_sub_vault, sunset, resume, and the admin's cancellation.
LEMMA SubEditSound ==
    ASSUME IInv, NEW k, NEW s \in SubVaultIds, NEW o, NEW m,
           \/ UpdateSubVault(k, s, o) \/ SunsetSubVault(k, s) \/ ResumeSubVault(k, s)
           \/ AdminCancelSubVaultOrder(k, s, m)
    PROVE  Sound
<1>0. s \in DOMAIN subs /\ NothingMoves
      /\ UNCHANGED <<paused, roles, said, fees, next_id>> /\ UNCHANGED loans
  BY DEF UpdateSubVault, SunsetSubVault, ResumeSubVault, AdminCancelSubVaultOrder, ChangeSub
<1>1. GoodSub(subs[s]) BY <1>0 DEF IInv, SubsInv
<1>2. \E x : GoodSub(x) /\ subs' = [subs EXCEPT ![s] = x]
  <2>1. CASE UpdateSubVault(k, s, o)
    <3>1. /\ subs' = [subs EXCEPT ![s] = [subs[s] EXCEPT !.policy = Overridden(@, o)]]
          /\ validate_sub_vault_risk_params(Overridden(subs[s].policy, o))
      BY <2>1 DEF UpdateSubVault, ChangeSub, AcceptsUpdate
    <3>2. PICK y : y = Overridden(subs[s].policy, o) OBVIOUS
    <3>3. GoodSub([subs[s] EXCEPT !.policy = y]) BY <1>1, <3>1, <3>2, SubParts
    <3> QED BY <3>1, <3>2, <3>3
  <2>2. CASE SunsetSubVault(k, s)
    <3>1. subs' = [subs EXCEPT ![s] = [subs[s] EXCEPT !.sunset = TRUE]]
      BY <2>2 DEF SunsetSubVault, ChangeSub
    <3> QED BY <1>1, <3>1, SubParts
  <2>3. CASE ResumeSubVault(k, s)
    <3>1. subs' = [subs EXCEPT ![s] = [subs[s] EXCEPT !.sunset = FALSE]]
      BY <2>3 DEF ResumeSubVault, ChangeSub
    <3> QED BY <1>1, <3>1, SubParts
  <2>4. CASE AdminCancelSubVaultOrder(k, s, m)
    <3>1. subs' = [subs EXCEPT ![s] = [subs[s] EXCEPT !.asks = @ \ {m}]]
      BY <2>4 DEF AdminCancelSubVaultOrder, ChangeSub
    <3>2. PICK y : y = subs[s].asks \ {m} OBVIOUS
    <3>3. GoodSub([subs[s] EXCEPT !.asks = y]) BY <1>1, SubParts
    <3> QED BY <3>1, <3>2, <3>3
  <2> QED BY <2>1, <2>2, <2>3, <2>4
<1>3. LoansGrowWell BY <1>0 DEF LoansGrowWell
<1>4. IInv' /\ HandoverStep BY <1>0, <1>2, <1>3, SubWrite
<1>5. MoveStep BY <1>0, StillMoves
<1> QED BY <1>4, <1>5 DEF Sound

\* place_order_for_sub_vault, update_order_for_sub_vault, cancel_order_for_sub_vault.
LEMMA AskSound ==
    ASSUME IInv, NEW k, NEW s \in SubVaultIds, NEW m \in Markets,
           \/ PlaceOrderForSubVault(k, s, m) \/ UpdateOrderForSubVault(k, s, m)
           \/ CancelOrderForSubVault(k, s, m)
    PROVE  Sound
<1>0. /\ s \in DOMAIN subs /\ Trade({m}, {s[1]})
      /\ OpenVault(s[1]) /\ require_market_not_paused(m) /\ DebtBank[m] = s[1]
  BY DEF PlaceOrderForSubVault, UpdateOrderForSubVault, CancelOrderForSubVault,
         PlaceOrderForSubVaultContext, CancelOrderForSubVaultContext,
         require_vault_mint_matches_market
<1>1. GatedPair(m, s[1]) BY <1>0 DEF GatedPair, OpenMarket, OpenVault
<1>2. MoveStep BY <1>0, <1>1, PairMoves
<1>3. LoansGrowWell
  <2>1. TakesBid(s, m) \/ UNCHANGED loans
    BY DEF PlaceOrderForSubVault, UpdateOrderForSubVault, CancelOrderForSubVault
  <2>2. CASE UNCHANGED loans BY <2>2 DEF LoansGrowWell
  <2>3. CASE TakesBid(s, m) BY <1>0, <2>3, TakesBidGood
  <2> QED BY <2>1, <2>2, <2>3
<1>4. GoodSub(subs[s]) BY <1>0 DEF IInv, SubsInv
<1>5. IInv' /\ HandoverStep
  <2>1. CASE UpdateOrderForSubVault(k, s, m)
    <3>1. UNCHANGED subs BY <2>1 DEF UpdateOrderForSubVault
    <3> QED BY <1>0, <1>3, <3>1, TradeKeeps DEF Trade
  <2>2. ASSUME NEW y, subs' = [subs EXCEPT ![s] = [subs[s] EXCEPT !.asks = y]]
        PROVE  IInv' /\ HandoverStep
    <3>1. GoodSub([subs[s] EXCEPT !.asks = y]) BY <1>4, SubParts
    <3> QED BY <1>0, <1>3, <2>2, <3>1, SubWrite DEF Trade
  <2>3. CASE PlaceOrderForSubVault(k, s, m)
    <3>1. subs' = [subs EXCEPT ![s].asks = @ \cup {m}] BY <2>3 DEF PlaceOrderForSubVault
    <3> QED BY <2>2, <3>1
  <2>4. CASE CancelOrderForSubVault(k, s, m)
    <3>1. subs' = [subs EXCEPT ![s].asks = @ \ {m}] BY <2>4 DEF CancelOrderForSubVault
    <3> QED BY <2>2, <3>1
  <2> QED BY <2>1, <2>3, <2>4
<1> QED BY <1>2, <1>5 DEF Sound

\* global_vault_deposit, global_vault_withdraw and claim_curator_fee.
LEMMA VaultSound ==
    ASSUME IInv, NEW k, NEW s \in SubVaultIds, NEW av,
           \/ GlobalVaultDeposit(k, s, av) \/ GlobalVaultWithdraw(k, s, av)
           \/ ClaimCuratorFee(k, s, av)
    PROVE  Sound
<1>0. /\ s \in DOMAIN subs /\ Trade({}, {s[1], av}) /\ OpenVault(s[1]) /\ av = s[1]
      /\ UNCHANGED loans
  BY DEF GlobalVaultDeposit, GlobalVaultWithdraw, ClaimCuratorFee, GlobalVaultDepositContext,
         GlobalVaultWithdrawContext, ClaimCuratorFeeContext
<1>1. MoveStep
  <2>1. s[1] \in Vaults BY SubVaultOf
  <2>2. load_global_config /\ s[1] \in DOMAIN paused /\ ~paused[s[1]]
    BY <1>0, <2>1, GatedVault DEF OpenVault
  <2>3. {s[1], av} \subseteq {s[1]} BY <1>0
  <2> QED BY <1>0, <2>2, <2>3, TradeMoves
<1>2. LoansGrowWell BY <1>0 DEF LoansGrowWell
<1>3. GoodSub(subs[s]) BY <1>0 DEF IInv, SubsInv
<1>4. IInv' /\ HandoverStep
  <2>1. CASE UNCHANGED subs BY <1>0, <1>2, <2>1, TradeKeeps DEF Trade
  <2>2. ASSUME NEW y, subs' = [subs EXCEPT ![s] = [subs[s] EXCEPT !.depositors = y]]
        PROVE  IInv' /\ HandoverStep
    <3>1. GoodSub([subs[s] EXCEPT !.depositors = y]) BY <1>3, SubParts
    <3> QED BY <1>0, <1>2, <2>2, <3>1, SubWrite DEF Trade
  <2>3. \/ UNCHANGED subs
        \/ subs' = [subs EXCEPT ![s].depositors = @ \cup {k}]
        \/ subs' = [subs EXCEPT ![s].depositors = @ \ {k}]
    BY DEF GlobalVaultDeposit, GlobalVaultWithdraw, ClaimCuratorFee
  <2> QED BY <2>1, <2>2, <2>3
<1> QED BY <1>1, <1>4 DEF Sound

\* claim_repayment_for_sub_vault: market and vault are gated and belong together.
LEMMA ClaimRepaymentSound ==
    ASSUME IInv, NEW k, NEW s \in SubVaultIds, NEW m \in Markets, NEW am, NEW av,
           ClaimRepaymentForSubVault(k, m, am, s, av)
    PROVE  Sound
<1>0. /\ Trade({m, am}, {s[1], av}) /\ OpenMarket(m) /\ am = m /\ av = s[1]
      /\ require_vault_not_paused(s[1]) /\ DebtBank[m] = s[1] /\ UNCHANGED <<subs, loans>>
  BY DEF ClaimRepaymentForSubVault, ClaimRepaymentForSubVaultContext
<1>1. MoveStep
  <2>1. {m, am} \subseteq {m} /\ {s[1], av} \subseteq {s[1]} BY <1>0
  <2>2. GatedPair(m, s[1]) BY <1>0 DEF GatedPair
  <2> QED BY <1>0, <2>1, <2>2, PairMoves
<1>2. LoansGrowWell BY <1>0 DEF LoansGrowWell
<1>3. IInv' /\ HandoverStep BY <1>0, <1>2, TradeKeeps DEF Trade
<1> QED BY <1>1, <1>3 DEF Sound

-----------------------------------------------------------------------------
(* Roles *)

\* One role is rewritten, and what exists changes at most there.
OneRole(r, y) ==
    /\ roles' = [roles EXCEPT ![r] = y]
    /\ said' \in [Roles -> [Keys -> Keys \cup {NIL}]]
    /\ \A q \in Roles : q # r => said'[q] = said[q]
    /\ y.pending # NIL => y.holder \in Keys /\ said'[r][y.holder] = y.pending
    /\ DOMAIN subs' \subseteq SubVaultIds
    /\ \A q \in Accounts : q # r => (q \in DOMAIN paused => q \in DOMAIN paused')
    /\ \A q \in Accounts : q # r => (q \in DOMAIN paused' => q \in DOMAIN paused)
    /\ \A q \in SubVaultIds : q # r => (q \in DOMAIN subs' <=> q \in DOMAIN subs)
    /\ r \in Accounts /\ r \notin DOMAIN paused' => y.holder = NIL
    /\ r \in SubVaultIds /\ r \notin DOMAIN subs' => y.holder = NIL

\* A role's record changes hands only as a hand-over: a first holder, a nominee the
\* holder named, or the role of a sub-vault that is removed.
LEMMA RoleWrite ==
    ASSUME NEW r \in Roles, NEW y \in RoleRecord, IInv, OneRole(r, y),
           y.holder # Holder(r) =>
              \/ Holder(r) = NIL /\ y.holder \in Keys
              \/ Holder(r) # NIL /\ y.holder \in Keys /\ said[r][Holder(r)] = y.holder
              \/ r \in DOMAIN subs /\ r \notin DOMAIN subs'
    PROVE  RolesInv' /\ HandoverStep
<1>1. roles \in [Roles -> RoleRecord] BY DEF IInv, RolesInv
<1>2. /\ roles' \in [Roles -> RoleRecord] /\ roles'[r] = y
      /\ \A q \in Roles : q # r => roles'[q] = roles[q]
  BY <1>1 DEF OneRole
<1>3. \A q \in Accounts : q \notin DOMAIN paused' => roles'[q].holder = NIL
  BY <1>2, NodesAreNoAccounts DEF IInv, RolesInv, OneRole
<1>4. \A q \in SubVaultIds : q \notin DOMAIN subs' => roles'[q].holder = NIL
  BY <1>2, NodesAreNoAccounts DEF IInv, RolesInv, OneRole
<1>5. \A q \in Roles : roles'[q].pending # NIL =>
          /\ roles'[q].holder \in Keys
          /\ said'[q][roles'[q].holder] = roles'[q].pending
  <2> TAKE q \in Roles
  <2>1. CASE q = r BY <1>2, <2>1 DEF OneRole
  <2>2. CASE q # r BY <1>2, <2>2 DEF OneRole, IInv, RolesInv
  <2> QED BY <2>1, <2>2
<1>6. RolesInv' BY <1>2, <1>3, <1>4, <1>5 DEF RolesInv, OneRole
<1>7. HandoverStep
  <2> SUFFICES ASSUME NEW q \in Roles, Holder(q)' # Holder(q)
               PROVE  \/ Holder(q) = NIL /\ Holder(q)' \in Keys
                      \/ Holder(q) # NIL /\ Holder(q)' \in Keys /\ said[q][Holder(q)] = Holder(q)'
                      \/ q \in DOMAIN subs /\ q \notin DOMAIN subs'
    BY DEF HandoverStep
  <2>1. Holder(q)' = roles'[q].holder BY DEF Holder
  <2>2. q = r BY <1>2, <2>1 DEF Holder
  <2>3. Holder(q)' = y.holder BY <1>2, <2>1, <2>2
  <2> QED BY <2>2, <2>3
<1> QED BY <1>6, <1>7

\* create_global_config, create_market and create_vault: the role was vacant.
LEMMA AccountSound ==
    ASSUME NEW x \in Accounts, NEW k \in Keys, IInv, ~Exists(x),
           paused' = With(paused, x, FALSE), roles' = Given(x, k), NothingMoves, FeesInv',
           UNCHANGED <<said, subs, next_id, loans>>
    PROVE  Sound
<1> DEFINE y == [holder |-> k, pending |-> NIL]
<1>1. x \in Roles /\ y \in RoleRecord /\ y.holder = k /\ y.pending = NIL
  BY NodesAreNoAccounts DEF RoleRecord
<1>2. roles' = [roles EXCEPT ![x] = y] BY DEF Given
<1> HIDE DEF y
<1>3. DOMAIN paused' = DOMAIN paused \cup {x} BY WithFacts
<1>4. Holder(x) = NIL BY DEF IInv, RolesInv, Exists, Holder
<1>5. x \notin SubVaultIds BY NodesAreNoAccounts
<1>6. OneRole(x, y) BY <1>1, <1>2, <1>3, <1>5 DEF OneRole, IInv, RolesInv
<1>7. RolesInv' /\ HandoverStep BY <1>1, <1>4, <1>6, RoleWrite
<1>8. IdsInv' BY DEF IInv, IdsInv
<1>9. SubsInv' BY DEF IInv, SubsInv
<1>10. LoansInv'
  <2>1. LoansGrowWell BY SameLoansGrowWell
  <2> QED BY <2>1, LoansKept
<1>11. MoveStep BY StillMoves
<1> QED BY <1>7, <1>8, <1>9, <1>10, <1>11 DEF Sound, IInv

\* The overrides a fee instruction accepts leave every field within its cap.
LEMMA FeeWrite ==
    ASSUME NEW m \in Markets, NEW o, NEW t, IInv, validate_fee_config_overrides(o),
           DOMAIN t = DOMAIN FeeDefault, \A f \in DOMAIN FeeDefault : t[f] <= FeeCap[f],
           fees' = [fees EXCEPT ![m] = Overridden(t, o)]
    PROVE  FeesInv'
<1>1. PICK z : z = Overridden(t, o) OBVIOUS
<1>2. DOMAIN z = DOMAIN FeeDefault /\ \A f \in DOMAIN FeeDefault : z[f] <= FeeCap[f]
  BY <1>1 DEF Overridden, validate_fee_config_overrides
<1>3. fees' = [fees EXCEPT ![m] = z] BY <1>1
<1> QED BY <1>2, <1>3 DEF IInv, FeesInv

\* The creation of the global config, a market or a vault gives a role its first
\* holder.
LEMMA CreateSound ==
    ASSUME IInv, NEW k \in Keys, NEW m, NEW v, NEW o,
           \/ CreateGlobalConfig(k)
           \/ m \in Markets /\ CreateMarket(k, m, o)
           \/ v \in Vaults /\ CreateVault(k, v)
    PROVE  Sound
<1>0. GLOBAL_CONFIG \in Accounts /\ Markets \subseteq Accounts /\ Vaults \subseteq Accounts
  BY DEF Accounts
<1>1. CASE CreateGlobalConfig(k)
  <2>1. FeesInv' BY <1>1 DEF CreateGlobalConfig, IInv, FeesInv
  <2> QED BY <1>0, <1>1, <2>1, AccountSound DEF CreateGlobalConfig, books
<1>2. CASE m \in Markets /\ CreateMarket(k, m, o)
  <2>1. /\ fees' = [fees EXCEPT ![m] = Overridden(FeeDefault, o)]
        /\ validate_fee_config_overrides(o)
    BY <1>2 DEF CreateMarket, apply_fee_config_overrides
  <2>2. FeesInv' BY <1>2, <2>1, FeeWrite, AccessAssumption
  <2> QED BY <1>0, <1>2, <2>2, AccountSound DEF CreateMarket, books
<1>3. CASE v \in Vaults /\ CreateVault(k, v)
  <2>1. FeesInv' BY <1>3 DEF CreateVault, IInv, FeesInv
  <2> QED BY <1>0, <1>3, <2>1, AccountSound DEF CreateVault, books
<1> QED BY <1>1, <1>2, <1>3

\* set_fee_config, and the three pauses.
LEMMA SettingSound ==
    ASSUME IInv, NEW k, NEW m, NEW scope, NEW o, NEW p,
           \/ m \in Markets /\ SetFeeConfig(k, m, o)
           \/ SetPause(k, scope, p)
    PROVE  Sound
<1>0. NothingMoves /\ UNCHANGED <<roles, said, subs, next_id, loans>>
  BY DEF SetFeeConfig, SetPause, books
<1>1. FeesInv'
  <2>1. CASE m \in Markets /\ SetFeeConfig(k, m, o)
    <3>1. PICK t : t = fees[m] OBVIOUS
    <3>2. DOMAIN t = DOMAIN FeeDefault /\ \A f \in DOMAIN FeeDefault : t[f] <= FeeCap[f]
      BY <2>1, <3>1 DEF IInv, FeesInv
    <3>3. /\ fees' = [fees EXCEPT ![m] = Overridden(t, o)]
          /\ validate_fee_config_overrides(o)
      BY <2>1, <3>1 DEF SetFeeConfig, apply_fee_config_overrides
    <3> QED BY <2>1, <3>2, <3>3, FeeWrite
  <2>2. CASE SetPause(k, scope, p) BY <2>2 DEF SetPause, IInv, FeesInv
  <2> QED BY <2>1, <2>2
<1>2. DOMAIN paused' = DOMAIN paused BY DEF SetFeeConfig, SetPause
<1>3. RolesInv' /\ IdsInv' /\ HandoverStep BY <1>0, <1>2, RolesKept
<1>4. SubsInv' BY <1>0 DEF IInv, SubsInv
<1>5. LoansInv'
  <2>1. LoansGrowWell BY <1>0, SameLoansGrowWell
  <2> QED BY <1>0, <2>1, LoansKept
<1>6. MoveStep BY <1>0, StillMoves
<1> QED BY <1>1, <1>3, <1>4, <1>5, <1>6 DEF Sound, IInv

\* What a handover leaves alone.
LEMMA HandoverRest ==
    ASSUME IInv, NothingMoves, UNCHANGED <<paused, fees, books>>
    PROVE  IdsInv' /\ FeesInv' /\ SubsInv' /\ LoansInv' /\ MoveStep
<1>0. UNCHANGED <<fees, subs, next_id, loans>> BY DEF books
<1>1. IdsInv' BY <1>0 DEF IInv, IdsInv
<1>2. FeesInv' BY <1>0 DEF IInv, FeesInv
<1>3. SubsInv' BY <1>0 DEF IInv, SubsInv
<1>4. LoansInv'
  <2>1. LoansGrowWell BY <1>0, SameLoansGrowWell
  <2> QED BY <1>0, <2>1, LoansKept
<1> QED BY <1>1, <1>2, <1>3, <1>4, StillMoves

\* A holder signs for a new key: the nomination and the history agree.
LEMMA NominateSound ==
    ASSUME IInv, NEW r \in Roles, NEW k \in Keys, NEW new \in Keys \cup {NIL},
           k = Holder(r), Nominate(k, r, new)
    PROVE  Sound
<1>0. /\ NothingMoves /\ UNCHANGED <<paused, fees, books>>
      /\ roles' = [roles EXCEPT ![r].pending = new]
      /\ said' = [said EXCEPT ![r][k] = new]
  BY DEF Nominate
<1>1. roles \in [Roles -> RoleRecord] /\ said \in [Roles -> [Keys -> Keys \cup {NIL}]]
  BY DEF IInv, RolesInv
<1>2. PICK y : y = [holder |-> k, pending |-> new] OBVIOUS
<1>3. y \in RoleRecord /\ y.holder = k /\ y.pending = new BY <1>2 DEF RoleRecord
<1>4. roles' = [roles EXCEPT ![r] = y]
  <2>1. roles[r] \in RoleRecord BY <1>1
  <2>2. [roles[r] EXCEPT !.pending = new] = y BY <1>2, <2>1 DEF RoleRecord, Holder
  <2> QED BY <1>0, <2>2
<1>5. /\ said' \in [Roles -> [Keys -> Keys \cup {NIL}]] /\ said'[r][k] = new
      /\ \A q \in Roles : q # r => said'[q] = said[q]
  BY <1>0, <1>1
<1>6. DOMAIN paused' = DOMAIN paused /\ DOMAIN subs' = DOMAIN subs BY <1>0 DEF books
<1>7. /\ r \in Accounts /\ r \notin DOMAIN paused => k = NIL
      /\ r \in SubVaultIds /\ r \notin DOMAIN subs => k = NIL
  BY DEF IInv, RolesInv, Holder
<1>8. OneRole(r, y) BY <1>3, <1>4, <1>5, <1>6, <1>7 DEF OneRole, IInv, RolesInv
<1>9. RolesInv' /\ HandoverStep BY <1>3, <1>8, RoleWrite
<1> QED BY <1>0, <1>9, HandoverRest DEF Sound, IInv

\* The key accepted is the one the present holder signed for.
LEMMA AcceptSound ==
    ASSUME IInv, NEW r \in Roles, NEW k \in Keys, Accept(k, r)
    PROVE  Sound
<1>0. /\ NothingMoves /\ UNCHANGED <<paused, fees, books>>
      /\ roles[r].pending = k /\ k # NIL
      /\ roles' = [roles EXCEPT ![r] = [holder |-> @.pending, pending |-> NIL]]
      /\ said' = [said EXCEPT ![r] = [x \in Keys |-> NIL]]
  BY DEF Accept
<1>1. roles \in [Roles -> RoleRecord] /\ said \in [Roles -> [Keys -> Keys \cup {NIL}]]
  BY DEF IInv, RolesInv
<1>2. PICK y : y = [holder |-> k, pending |-> NIL] OBVIOUS
<1>3. y \in RoleRecord /\ y.holder = k /\ y.pending = NIL BY <1>2 DEF RoleRecord
<1>4. roles' = [roles EXCEPT ![r] = y] BY <1>0, <1>1, <1>2
<1>5. /\ said' \in [Roles -> [Keys -> Keys \cup {NIL}]]
      /\ \A q \in Roles : q # r => said'[q] = said[q]
  BY <1>0, <1>1
<1>6. DOMAIN paused' = DOMAIN paused /\ DOMAIN subs' = DOMAIN subs BY <1>0 DEF books
<1>7. roles[r].holder \in Keys /\ said[r][roles[r].holder] = k
  BY <1>0 DEF IInv, RolesInv
<1>8. NIL \notin Keys BY AccessAssumption
<1>9. /\ r \in Accounts => r \in DOMAIN paused
      /\ r \in SubVaultIds => r \in DOMAIN subs
  BY <1>7, <1>8 DEF IInv, RolesInv
<1>10. OneRole(r, y) BY <1>3, <1>4, <1>5, <1>6, <1>9 DEF OneRole, IInv, RolesInv
<1>11. RolesInv' /\ HandoverStep BY <1>3, <1>7, <1>8, <1>10, RoleWrite DEF Holder
<1> QED BY <1>0, <1>11, HandoverRest DEF Sound, IInv

\* create_pool_sub_vault and create_private_sub_vault: the id was never used.
LEMMA AppendSound ==
    ASSUME IInv, NEW v \in Vaults, NEW kind, NEW curator \in Keys, NEW p,
           validate_sub_vault_risk_params(p), append_sub_vault(v, kind, curator, p)
    PROVE  Sound
<1>1. PICK s : s = <<v, next_id[v]>> OBVIOUS
<1>2. PICK x : x = [ kind |-> kind, policy |-> p, sunset |-> FALSE, depositors |-> {},
                     asks |-> {} ]
  OBVIOUS
<1>3. /\ next_id[v] <= MaxSubVaults[v] /\ subs' = With(subs, s, x)
      /\ next_id' = [next_id EXCEPT ![v] = @ + 1] /\ roles' = Given(s, curator)
      /\ NothingMoves /\ UNCHANGED <<paused, said, fees, loans>>
  BY <1>1, <1>2 DEF append_sub_vault
<1>4. next_id \in [Vaults -> Nat \ {0}] /\ MaxSubVaults[v] \in Nat
  BY AccessAssumption DEF IInv, IdsInv
<1>5. s \in SubVaultIds /\ s[1] = v /\ s[2] = next_id[v]
  <2>1. next_id[v] \in 1..MaxSubVaults[v] BY <1>3, <1>4
  <2>2. s \in {v} \X (1..MaxSubVaults[v]) BY <1>1, <2>1
  <2> QED BY <1>1, <2>2 DEF SubVaultIds
<1>6. s \notin DOMAIN subs BY <1>4, <1>5 DEF IInv, IdsInv
<1>7. /\ DOMAIN subs' = DOMAIN subs \cup {s} /\ subs'[s] = x
      /\ \A z \in DOMAIN subs : subs'[z] = subs[z]
  <2>1. /\ DOMAIN With(subs, s, x) = DOMAIN subs \cup {s}
        /\ With(subs, s, x)[s] = x
        /\ \A z \in DOMAIN subs : z # s => With(subs, s, x)[z] = subs[z]
    BY DEF With
  <2> QED BY <1>3, <1>6, <2>1, Zenon
<1>8. GoodSub(x) BY <1>2 DEF GoodSub
<1>9. RolesInv' /\ HandoverStep
  <2>1. PICK y : y = [holder |-> curator, pending |-> NIL] OBVIOUS
  <2>2. y \in RoleRecord /\ y.holder = curator /\ y.pending = NIL BY <2>1 DEF RoleRecord
  <2>3. roles' = [roles EXCEPT ![s] = y] BY <1>3, <2>1 DEF Given
  <2>4. s \in Roles /\ s \notin Accounts BY <1>5, NodesAreNoAccounts
  <2>5. Holder(s) = NIL BY <1>5, <1>6 DEF IInv, RolesInv, Holder
  <2>6. OneRole(s, y) BY <1>3, <1>5, <1>7, <2>2, <2>3, <2>4 DEF OneRole, IInv, RolesInv
  <2> QED BY <2>2, <2>4, <2>5, <2>6, RoleWrite
<1>10. IdsInv'
  <2>1. next_id' \in [Vaults -> Nat \ {0}] BY <1>3, <1>4
  <2>2. ASSUME NEW z \in DOMAIN subs' PROVE z[2] < next_id'[z[1]]
    <3>1. CASE z = s BY <1>3, <1>4, <1>5, <3>1
    <3>2. CASE z # s
      <4>1. z \in DOMAIN subs /\ z \in SubVaultIds BY <1>7, <3>2 DEF IInv, RolesInv
      <4>2. z[1] \in Vaults /\ z[2] \in Nat BY <4>1, SubVaultOf
      <4>3. z[2] < next_id[z[1]] BY <4>1 DEF IInv, IdsInv
      <4> QED BY <1>3, <1>4, <4>2, <4>3
    <3> QED BY <3>1, <3>2
  <2> QED BY <2>1, <2>2 DEF IdsInv
<1>11. SubsInv' BY <1>7, <1>8 DEF IInv, SubsInv
<1>12. FeesInv' BY <1>3 DEF IInv, FeesInv
<1>13. LoansInv'
  <2>1. LoansGrowWell BY <1>3, SameLoansGrowWell
  <2> QED BY <1>7, <2>1, LoansKept
<1>14. MoveStep BY <1>3, StillMoves
<1> QED BY <1>9, <1>10, <1>11, <1>12, <1>13, <1>14 DEF Sound, IInv

\* remove_sub_vault: no loan is left behind without its lender.
LEMMA RemoveSound ==
    ASSUME IInv, NEW k, NEW s \in SubVaultIds, RemoveSubVault(k, s)
    PROVE  Sound
<1>1. /\ s \in DOMAIN subs /\ \A l \in loans : l.lender # s
      /\ subs' = [x \in DOMAIN subs \ {s} |-> subs[x]]
      /\ roles' = Given(s, NIL) /\ said' = [said EXCEPT ![s] = [x \in Keys |-> NIL]]
      /\ NothingMoves /\ UNCHANGED <<paused, fees, next_id, loans>>
  BY DEF RemoveSubVault, is_empty
<1>2. /\ DOMAIN subs' = DOMAIN subs \ {s}
      /\ \A x \in DOMAIN subs' : subs'[x] = subs[x]
  BY <1>1
<1>3. RolesInv' /\ HandoverStep
  <2>1. PICK y : y = [holder |-> NIL, pending |-> NIL] OBVIOUS
  <2>2. y \in RoleRecord /\ y.holder = NIL /\ y.pending = NIL BY <2>1 DEF RoleRecord
  <2>3. roles' = [roles EXCEPT ![s] = y] BY <1>1, <2>1 DEF Given
  <2>4. s \in Roles /\ s \notin Accounts BY NodesAreNoAccounts
  <2>5. /\ said' \in [Roles -> [Keys -> Keys \cup {NIL}]]
        /\ \A q \in Roles : q # s => said'[q] = said[q]
    BY <1>1, <2>4 DEF IInv, RolesInv
  <2>6. OneRole(s, y)
    BY <1>1, <1>2, <2>2, <2>3, <2>4, <2>5 DEF OneRole, IInv, RolesInv
  <2> QED BY <1>1, <1>2, <2>2, <2>4, <2>6, RoleWrite
<1>4. IdsInv' BY <1>1, <1>2 DEF IInv, IdsInv
<1>5. SubsInv' BY <1>2 DEF IInv, SubsInv
<1>6. FeesInv' BY <1>1 DEF IInv, FeesInv
<1>7. LoansInv'
  <2> SUFFICES ASSUME NEW l \in loans PROVE GoodLoan(l)' BY <1>1 DEF LoansInv
  <2>1. GoodLoan(l) BY DEF IInv, LoansInv
  <2>2. l.lender # s BY <1>1
  <2> QED BY <1>2, <2>1, <2>2 DEF GoodLoan, LoanShape
<1>8. MoveStep BY <1>1, StillMoves
<1> QED BY <1>3, <1>4, <1>5, <1>6, <1>7, <1>8 DEF Sound, IInv

-----------------------------------------------------------------------------
(* Every step *)

\* The invariant holds at first: nothing exists and nobody holds a role.
LEMMA InitInv == ASSUME Init PROVE IInv
<1>1. RolesInv
  <2>1. roles \in [Roles -> RoleRecord] BY DEF Init, RoleRecord
  <2>2. said \in [Roles -> [Keys -> Keys \cup {NIL}]] BY DEF Init
  <2>3. DOMAIN subs = {} BY DEF Init
  <2>4. \A r \in Roles : roles[r].holder = NIL /\ roles[r].pending = NIL BY DEF Init
  <2> QED BY <2>1, <2>2, <2>3, <2>4, NodesAreNoAccounts DEF RolesInv
<1>2. IdsInv BY DEF Init, IdsInv
<1>3. FeesInv BY AccessAssumption DEF Init, FeesInv
<1>4. SubsInv BY DEF Init, SubsInv
<1>5. LoansInv BY DEF Init, LoansInv
<1> QED BY <1>1, <1>2, <1>3, <1>4, <1>5 DEF IInv

\* Every administrative instruction.
LEMMA AdministerSound ==
    ASSUME IInv, NEW k \in Keys, Administer(k)
    PROVE  Sound
<1>0. GLOBAL_CONFIG \in Roles /\ Markets \subseteq Roles /\ Vaults \subseteq Roles
  BY DEF Roles
<1>1. ASSUME NEW r \in Roles, NEW new \in Nominees(r), k = Holder(r), Nominate(k, r, new)
      PROVE  Sound
  <2>1. new \in Keys \cup {NIL} BY DEF Nominees
  <2> QED BY <1>1, <2>1, NominateSound
<1>2. CASE \/ CreateGlobalConfig(k)
           \/ \E p \in BOOLEAN : SetGlobalPause(k, p)
           \/ \E new \in Nominees(GLOBAL_CONFIG) : TransferProtocolAdmin(k, new)
           \/ AcceptProtocolAdmin(k)
  <2>1. CASE CreateGlobalConfig(k) BY <2>1, CreateSound
  <2>2. CASE \E p \in BOOLEAN : SetGlobalPause(k, p)
    BY <2>2, SettingSound DEF SetGlobalPause
  <2>3. CASE \E new \in Nominees(GLOBAL_CONFIG) : TransferProtocolAdmin(k, new)
    BY <1>0, <1>1, <2>3 DEF TransferProtocolAdmin
  <2>4. CASE AcceptProtocolAdmin(k)
    BY <1>0, <2>4, AcceptSound DEF AcceptProtocolAdmin
  <2> QED BY <1>2, <2>1, <2>2, <2>3, <2>4
<1>3. ASSUME NEW m \in Markets,
             \/ \E o \in FeeOverrides : CreateMarket(k, m, o) \/ SetFeeConfig(k, m, o)
             \/ \E p \in BOOLEAN : SetMarketPause(k, m, p)
             \/ \E new \in Nominees(m) : TransferMarketAdmin(k, m, new)
             \/ AcceptMarketAdmin(k, m)
      PROVE  Sound
  <2>1. CASE \E o \in FeeOverrides : CreateMarket(k, m, o) \/ SetFeeConfig(k, m, o)
    BY <2>1, CreateSound, SettingSound
  <2>2. CASE \E p \in BOOLEAN : SetMarketPause(k, m, p)
    BY <2>2, SettingSound DEF SetMarketPause
  <2>3. CASE \E new \in Nominees(m) : TransferMarketAdmin(k, m, new)
    BY <1>0, <1>1, <2>3 DEF TransferMarketAdmin
  <2>4. CASE AcceptMarketAdmin(k, m)
    BY <1>0, <2>4, AcceptSound DEF AcceptMarketAdmin
  <2> QED BY <1>3, <2>1, <2>2, <2>3, <2>4
<1>4. ASSUME NEW v \in Vaults,
             \/ CreateVault(k, v)
             \/ \E p \in BOOLEAN : SetVaultPause(k, v, p)
             \/ \E new \in Nominees(v) : TransferGlobalVaultAdmin(k, v, new)
             \/ AcceptGlobalVaultAdmin(k, v)
             \/ \E c \in Keys \cup {NIL}, p \in Policies : CreatePoolSubVault(k, v, c, p)
             \/ \E p \in Policies : CreatePrivateSubVault(k, v, p)
      PROVE  Sound
  <2>1. CASE CreateVault(k, v) BY <2>1, CreateSound
  <2>2. CASE \E p \in BOOLEAN : SetVaultPause(k, v, p)
    BY <2>2, SettingSound DEF SetVaultPause
  <2>3. CASE \E new \in Nominees(v) : TransferGlobalVaultAdmin(k, v, new)
    BY <1>0, <1>1, <2>3 DEF TransferGlobalVaultAdmin
  <2>4. CASE AcceptGlobalVaultAdmin(k, v)
    BY <1>0, <2>4, AcceptSound DEF AcceptGlobalVaultAdmin
  <2>5. CASE \E c \in Keys \cup {NIL}, p \in Policies : CreatePoolSubVault(k, v, c, p)
    BY <2>5, AppendSound DEF CreatePoolSubVault
  <2>6. CASE \E p \in Policies : CreatePrivateSubVault(k, v, p)
    BY <2>6, AppendSound DEF CreatePrivateSubVault
  <2> QED BY <1>4, <2>1, <2>2, <2>3, <2>4, <2>5, <2>6
<1> QED BY <1>2, <1>3, <1>4 DEF Administer

\* Every instruction of a curator.
LEMMA CurateSound ==
    ASSUME IInv, NEW k \in Keys, Curate(k)
    PROVE  Sound
<1>1. PICK s \in SubVaultIds :
        \/ \E new \in Nominees(s) : TransferCurator(k, s, new)
        \/ AcceptCurator(k, s)
        \/ \E o \in PolicyOverrides : UpdateSubVault(k, s, o)
        \/ SunsetSubVault(k, s) \/ ResumeSubVault(k, s) \/ RemoveSubVault(k, s)
        \/ \E av \in VaultAccounts : \/ GlobalVaultDeposit(k, s, av)
                                     \/ GlobalVaultWithdraw(k, s, av)
                                     \/ ClaimCuratorFee(k, s, av)
        \/ \E m \in Markets :
              \/ PlaceOrderForSubVault(k, s, m) \/ UpdateOrderForSubVault(k, s, m)
              \/ CancelOrderForSubVault(k, s, m) \/ AdminCancelSubVaultOrder(k, s, m)
              \/ \E am \in MarketAccounts, av \in VaultAccounts :
                    ClaimRepaymentForSubVault(k, m, am, s, av)
  BY DEF Curate
<1>2. s \in Roles BY NodesAreNoAccounts
<1>3. CASE \E new \in Nominees(s) : TransferCurator(k, s, new)
  BY <1>2, <1>3, NominateSound DEF TransferCurator, Nominees
<1>4. CASE AcceptCurator(k, s) BY <1>2, <1>4, AcceptSound DEF AcceptCurator
<1>5. CASE \/ \E o \in PolicyOverrides : UpdateSubVault(k, s, o)
           \/ SunsetSubVault(k, s) \/ ResumeSubVault(k, s)
  BY <1>5, SubEditSound
<1>6. CASE RemoveSubVault(k, s) BY <1>6, RemoveSound
<1>7. CASE \E av \in VaultAccounts : \/ GlobalVaultDeposit(k, s, av)
                                     \/ GlobalVaultWithdraw(k, s, av)
                                     \/ ClaimCuratorFee(k, s, av)
  BY <1>7, VaultSound
<1>8. CASE \E m \in Markets :
              \/ PlaceOrderForSubVault(k, s, m) \/ UpdateOrderForSubVault(k, s, m)
              \/ CancelOrderForSubVault(k, s, m) \/ AdminCancelSubVaultOrder(k, s, m)
              \/ \E am \in MarketAccounts, av \in VaultAccounts :
                    ClaimRepaymentForSubVault(k, m, am, s, av)
  BY <1>8, AskSound, SubEditSound, ClaimRepaymentSound
<1> QED BY <1>1, <1>3, <1>4, <1>5, <1>6, <1>7, <1>8

\* Every instruction of a borrower or a keeper.
LEMMA BorrowSound ==
    ASSUME IInv, NEW k, Borrow(k)
    PROVE  Sound
<1>1. PICK m \in Markets :
        \/ ClaimSeat(k, m) \/ UpdateOrder(k, m) \/ CancelOrder(k, m) \/ SyncMarketPosition(k, m)
        \/ \E v \in VaultAccounts : MatchCrank(k, m, v)
        \/ \E am \in MarketAccounts :
              \/ Deposit(k, m, am) \/ Withdraw(k, m, am) \/ ProtocolFeeClaim(k, m, am)
              \/ \E v \in VaultAccounts \cup {NIL} : PlaceOrder(k, m, am, v)
              \/ \E l \in loans :
                    \/ CheckLiquidatable(k, m, am, l)
                    \/ \E v, av \in VaultAccounts \cup {NIL} :
                          \/ ProcessMatchedLoan(k, m, am, l, v, av)
                          \/ Repay(k, m, am, l, v, av)
                          \/ LiquidateLoan(k, m, am, l, v, av)
                          \/ SettleMaturedLoan(k, m, am, l, v, av)
                          \/ ConvertP2PoolToFixed(k, m, am, l, v, av)
  BY DEF Borrow
<1>2. CASE \/ ClaimSeat(k, m) \/ UpdateOrder(k, m) \/ CancelOrder(k, m)
           \/ SyncMarketPosition(k, m)
  BY <1>2, MarketSound
<1>3. CASE \E v \in VaultAccounts : MatchCrank(k, m, v) BY <1>3, MatchCrankSound
<1>4. ASSUME NEW am \in MarketAccounts,
             \/ Deposit(k, m, am) \/ Withdraw(k, m, am) \/ ProtocolFeeClaim(k, m, am)
             \/ \E l \in loans : CheckLiquidatable(k, m, am, l)
             \/ \E v \in VaultAccounts \cup {NIL} : PlaceOrder(k, m, am, v)
      PROVE  Sound
  BY <1>4, MarketSound, PlaceOrderSound
<1>5. ASSUME NEW am \in MarketAccounts, NEW l \in loans,
             \E v, av \in VaultAccounts \cup {NIL} :
                 \/ ProcessMatchedLoan(k, m, am, l, v, av)
                 \/ Repay(k, m, am, l, v, av)
                 \/ LiquidateLoan(k, m, am, l, v, av)
                 \/ SettleMaturedLoan(k, m, am, l, v, av)
                 \/ ConvertP2PoolToFixed(k, m, am, l, v, av)
      PROVE  Sound
  BY <1>5, LoanSound
<1> QED BY <1>1, <1>2, <1>3, <1>4, <1>5

\* Every step.
LEMMA NextSound ==
    ASSUME IInv, Next
    PROVE  Sound
<1>1. ASSUME NEW k \in Keys, Administer(k) \/ Curate(k) PROVE Sound
  BY <1>1, AdministerSound, CurateSound
<1>2. ASSUME NEW k \in Borrowers, Borrow(k) PROVE Sound
  BY <1>2, BorrowSound
<1> QED BY <1>1, <1>2 DEF Next

\* The invariant is inductive.
LEMMA StepInv == IInv /\ [Next]_vars => IInv'
<1> SUFFICES ASSUME IInv, [Next]_vars PROVE IInv' OBVIOUS
<1>1. CASE Next BY <1>1, NextSound DEF Sound
<1>2. CASE UNCHANGED vars
  <2>0. UNCHANGED <<paused, roles, said, fees, next_id, subs>> /\ UNCHANGED loans
    BY <1>2 DEF vars
  <2>1. LoansGrowWell BY <2>0, SameLoansGrowWell
  <2> QED BY <2>0, <2>1, TradeKeeps
<1> QED BY <1>1, <1>2

\* The invariant holds in every reachable state.
LEMMA InvAlways == Spec => []IInv
<1>1. Init => IInv BY InitInv
<1> QED BY <1>1, StepInv, PTL DEF Spec

\* Whatever overrides arrive in whatever order, every fee is within its cap, every
\* sub-vault's policy and the pair stamped on every loan leave the liquidation gap, and
\* a loan's lender exists and is of its market's debt bank (update_sub_vault.rs and
\* set_fee_config.rs check the result, remove_sub_vault.rs that no loan is left).
THEOREM TermsSoundHolds == Spec => []TermsSound
<1>1. IInv => TermsSound
  BY DEF IInv, FeesInv, SubsInv, LoansInv, GoodSub, GoodLoan, TermsSound
<1> QED BY <1>1, InvAlways, PTL

\* Every role of the config, of any market, vault and sub-vault passes only to the key
\* its holder signed for last (admin_transfer.rs, global_config_admin.rs, curator
\* transfer), whoever signs and however nominations are overwritten.
THEOREM HandoverAuthorisedHolds == Spec => HandoverAuthorised
<1>1. IInv /\ [Next]_vars =>
        [\A r \in Roles : Holder(r)' # Holder(r) =>
          \/ Holder(r) = NIL /\ Holder(r)' \in Keys
          \/ Holder(r) # NIL /\ Holder(r)' \in Keys /\ said[r][Holder(r)] = Holder(r)'
          \/ r \in DOMAIN subs /\ r \notin DOMAIN subs']_vars
  BY NextSound DEF Sound, HandoverStep
<1> QED BY <1>1, InvAlways, PTL DEF Spec, HandoverAuthorised

\* Whatever accounts are passed, an instruction moves value of one market at most and
\* of no vault but its debt bank's, and only while the config, that market and that
\* vault are not paused (every context of loaders.rs).
THEOREM OnlyOpenScopesMoveHolds == Spec => OnlyOpenScopesMove
<1>1. IInv /\ [Next]_vars =>
        [LET ms == moved'.markets
             vs == moved'.vaults
         IN  ms \cup vs # {} =>
                /\ ms \cup vs \subseteq DOMAIN paused
                /\ Cardinality(ms) <= 1 /\ Cardinality(vs) <= 1
                /\ \A m \in ms : vs \subseteq {DebtBank[m]}
                /\ \A x \in ms \cup vs \cup {GLOBAL_CONFIG} : ~paused[x]]_vars
  BY NextSound DEF Sound, MoveStep
<1> QED BY <1>1, InvAlways, PTL DEF Spec, OnlyOpenScopesMove

=============================================================================
