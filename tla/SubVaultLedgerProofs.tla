------------------------ MODULE SubVaultLedgerProofs -------------------------
(***************************************************************************)
(* Proofs about SubVaultLedger for every value of its constants: the type  *)
(* invariant, the agreement of every total and counter with what it        *)
(* summarises, and that deposits and withdrawals never dilute.             *)
(*                                                                         *)
(* The invariants the runs check are not inductive one by one.  A close-   *)
(* out needs the loan account to carry the terms of the node the totals    *)
(* were built from, and a principal above zero; a fill needs the nodes     *)
(* beyond matched_loan_sequence, and a creation the sub-vaults beyond      *)
(* next_sub_vault_id, to be untouched; a cancelled ask must have been the  *)
(* only one of its sub-vault.  IInv adds those facts.                      *)
(*                                                                         *)
(* Every instruction but the conversion writes at most one sub-vault and   *)
(* one loan.  BookAt(v) collects what is said of one sub-vault;            *)
(* OthersKeepBook shows that the others keep it, so each action is left    *)
(* with the sub-vault it writes.  A conversion writes as many as its walk  *)
(* crosses, each with a new loan of its own: NotCrossed and CrossedOnce    *)
(* say what that does to the sums and the counts of one of them.           *)
(***************************************************************************)
EXTENDS SubVaultLedger, LoanFixedLemmas, SetLemmas

-----------------------------------------------------------------------------
(* The inductive invariant *)

\* What node n contributes to a total of sub-vault v: a queued one to what is
\* encumbered, a presettled or active one to what is deployed and to the weighted rates.
CountedStatus(kind) == IF kind = "encumbered" THEN {"Queued"} ELSE Drawn

PartOf(kind, n, v) ==
    IF n.sub_vault = v /\ n.status \in CountedStatus(kind)
    THEN CASE kind = "weighted" -> WeightedOf(n)
           [] kind = "net"      -> NetWeightedOf(n)
           [] OTHER             -> n.principal
    ELSE 0

Total(kind, nodes, v) == Sum(LoanIds, [l \in LoanIds |-> PartOf(kind, nodes[l], v)])

TotalsAt(v) ==
    /\ sub[v].deployed_principal = Total("deployed", loan, v)
    /\ sub[v].encumbered_in_orders = Total("encumbered", loan, v)
    /\ sub[v].total_weighted_rate = Total("weighted", loan, v)
    /\ sub[v].total_weighted_net_rate = Total("net", loan, v)

CountersAt(v) ==
    /\ sub[v].open_orders_count = Cardinality(AsksOf(v))
    /\ sub[v].open_loans_count = Cardinality(OpenLoans(v))
    /\ seat[v].open_lend_count = Cardinality(AsksOf(v)) + Cardinality(OpenLoans(v))

\* A sub-vault's own figures.
SoundSub(s) ==
    /\ s \in SubVault
    /\ s.total_assets >= s.total_principal
    /\ s.total_shares = 0 => /\ s.total_principal = 0
                             /\ s.deployed_principal = 0
                             /\ s.encumbered_in_orders = 0

BookAt(v) ==
    /\ SoundSub(sub[v])
    /\ sub[v].total_shares = Sum(Depositors, position[v])
    /\ TotalsAt(v)
    /\ CountersAt(v)
    /\ v >= next_id => sub[v] = SubVault_new_empty("Absent")

\* An open node has its sub-vault; a loan account has the terms of its node.
SoundNode(n, t) ==
    /\ n \in MatchedLoan
    /\ n.curator_fee <= BPS_PER_UNIT
    /\ n.lender_rate <= n.borrower_rate
    /\ n.status \in Uncleared => n.sub_vault \in SubVaultIds
    /\ n.status \in Drawn =>
          /\ n.principal > 0
          /\ n.body.principal_debt = n.principal
          /\ n.body.lender_rate = n.lender_rate
          /\ n.body.curator_fee = n.curator_fee
          /\ TermsOK(n.body)
          /\ n.body.last_accrued <= t
          /\ n.body.state = "Active"
          /\ n.body.outstanding_debt > 0

SoundLoans ==
    \A l \in LoanIds : SoundNode(loan[l], now) /\ (l >= next_loan => loan[l].status = "Unused")

OneAskEach == \A a, b \in asks : a.sub_vault = b.sub_vault => a = b

IInv ==
    /\ TypeOK
    /\ \A v \in SubVaultIds : BookAt(v)
    /\ SoundLoans
    /\ OneAskEach
    /\ NoOrphans

-----------------------------------------------------------------------------
(* Sub-vault records *)

\* Writing one field of a sub-vault keeps it a sub-vault.
LEMMA SubUpdate ==
    ASSUME NEW s \in SubVault, NEW x \in Nat
    PROVE  /\ [s EXCEPT !.total_shares = x] \in SubVault
           /\ [s EXCEPT !.total_assets = x] \in SubVault
           /\ [s EXCEPT !.total_principal = x] \in SubVault
           /\ [s EXCEPT !.deployed_principal = x] \in SubVault
           /\ [s EXCEPT !.encumbered_in_orders = x] \in SubVault
           /\ [s EXCEPT !.total_weighted_rate = x] \in SubVault
           /\ [s EXCEPT !.total_weighted_net_rate = x] \in SubVault
           /\ [s EXCEPT !.accumulated_curator_fee = x] \in SubVault
           /\ [s EXCEPT !.pending_claim = x] \in SubVault
           /\ [s EXCEPT !.open_orders_count = x] \in SubVault
           /\ [s EXCEPT !.open_loans_count = x] \in SubVault
           /\ [s EXCEPT !.last_accrue = x] \in SubVault
           /\ [s EXCEPT !.last_supply_share_value = x] \in SubVault
  BY SMT DEF SubVault

\* Its fields are natural numbers.
LEMMA SubFields ==
    ASSUME NEW s \in SubVault
    PROVE  /\ s.total_shares \in Nat /\ s.total_assets \in Nat
           /\ s.total_principal \in Nat /\ s.deployed_principal \in Nat
           /\ s.encumbered_in_orders \in Nat /\ s.total_weighted_rate \in Nat
           /\ s.total_weighted_net_rate \in Nat /\ s.accumulated_curator_fee \in Nat
           /\ s.pending_claim \in Nat /\ s.open_orders_count \in Nat
           /\ s.open_loans_count \in Nat /\ s.last_accrue \in Nat
           /\ s.last_supply_share_value \in Nat
  BY SMT DEF SubVault

\* A new sub-vault has nothing.
LEMMA NewSub ==
    ASSUME NEW status \in {"Absent", "Open", "Sunset", "Removed"}
    PROVE  LET s == SubVault_new_empty(status)
           IN  /\ SoundSub(s) /\ s.status = status /\ s.total_shares = 0
               /\ s.deployed_principal = 0 /\ s.encumbered_in_orders = 0
               /\ s.total_weighted_rate = 0 /\ s.total_weighted_net_rate = 0
               /\ s.open_orders_count = 0 /\ s.open_loans_count = 0
  BY SMT DEF SubVault_new_empty, SoundSub, SubVault

\* The figures no accrual touches.
SameBooks(s, a) ==
    /\ a.status = s.status
    /\ a.total_shares = s.total_shares
    /\ a.deployed_principal = s.deployed_principal
    /\ a.encumbered_in_orders = s.encumbered_in_orders
    /\ a.total_weighted_rate = s.total_weighted_rate
    /\ a.total_weighted_net_rate = s.total_weighted_net_rate
    /\ a.accumulated_curator_fee = s.accumulated_curator_fee
    /\ a.pending_claim = s.pending_claim
    /\ a.open_orders_count = s.open_orders_count
    /\ a.open_loans_count = s.open_loans_count

\* A floored product over a positive number is a natural number.
LEMMA MulDivTyped ==
    ASSUME NEW a \in Nat, NEW b \in Nat, NEW c \in Nat \ {0}
    PROVE  mul_div(a, b, c) \in Nat
<1>1. a * b \in Nat
  BY SMT
<1> QED BY <1>1, DivFloor DEF mul_div

\* Restoring raises the assets to the principal and touches nothing else.
LEMMA RestoreFacts ==
    ASSUME NEW s \in SubVault
    PROVE  LET r == restore_assets_principal_invariant(s)
           IN  /\ r \in SubVault /\ SameBooks(s, r)
               /\ r.total_principal = s.total_principal
               /\ r.total_assets >= r.total_principal
<1> DEFINE x == MaxOf(s.total_assets, s.total_principal)
<1>1. x \in Nat /\ x >= s.total_principal
  BY SubFields, SMT DEF MaxOf
<1>2. restore_assets_principal_invariant(s) = [s EXCEPT !.total_assets = x]
  BY DEF restore_assets_principal_invariant
<1> HIDE DEF x
<1>3. [s EXCEPT !.total_assets = x] \in SubVault
  BY <1>1, SubUpdate
<1> DEFINE r == [s EXCEPT !.total_assets = x]
<1>4. SameBooks(s, r) /\ r.total_principal = s.total_principal /\ r.total_assets = x
  BY SMT DEF SameBooks, SubVault
<1> QED BY <1>1, <1>2, <1>3, <1>4

\* The idle atoms are worth a natural number of atoms, and no fewer than they are
\* when the bank's share value has not fallen.
LEMMA IdleFacts ==
    ASSUME NEW s \in SubVault, NEW asv \in Nat \ {0}, IdleFits(s)
    PROVE  /\ IdleAtoms(s) \in Nat
           /\ IdleValue(s, asv) \in Nat
           /\ asv >= s.last_supply_share_value => IdleValue(s, asv) >= IdleAtoms(s)
<1> DEFINE i == IdleAtoms(s)
           p == s.last_supply_share_value
<1>1. i \in Nat /\ p \in Nat
  BY SubFields, SMT DEF IdleAtoms, IdleFits
<1> HIDE DEF i, p
<1>2. CASE i = 0 \/ p = 0
  BY <1>1, <1>2, SMT DEF IdleValue, i, p
<1>3. CASE ~(i = 0 \/ p = 0)
  <2>1. IdleValue(s, asv) = (i * asv) \div p
    BY <1>3 DEF IdleValue, mul_div, i, p
  <2>2. (i * asv) \div p \in Nat
    <3>1. i * asv \in Nat BY <1>1, SMT
    <3> QED BY <1>1, <1>3, <3>1, DivFloor
  <2>3. ASSUME asv >= p PROVE (i * asv) \div p >= i
    <3>1. i * asv \in Nat /\ i * asv >= i * p
      BY <1>1, <2>3, SMT
    <3> DEFINE y == i * asv
    <3>2. y \in Nat /\ y >= i * p BY <3>1
    <3> HIDE DEF y
    <3>3. y \div p >= i BY <1>1, <1>3, <3>2, SMT
    <3> QED BY <3>3 DEF y
  <2> QED BY <1>1, <2>1, <2>2, <2>3 DEF i, p
<1> QED BY <1>2, <1>3

\* accrue_sub_vault keeps a sub-vault sound, touches assets and principal only, and
\* lowers the principal only when the bank's share value has fallen.
LEMMA AccrueSub ==
    ASSUME NEW s, SoundSub(s), NEW t \in Nat, NEW asv \in Nat \ {0}, CanAccrue(s, t)
    PROVE  LET a == accrue_sub_vault(s, t, asv)
           IN  /\ SoundSub(a) /\ SameBooks(s, a)
               /\ asv >= s.last_supply_share_value => a.total_principal >= s.total_principal
<1> DEFINE a == accrue_sub_vault(s, t, asv)
<1>0. s \in SubVault
  BY DEF SoundSub
<1>1. CASE t <= s.last_accrue
  BY <1>0, <1>1, SubFields, SMT DEF accrue_sub_vault, SameBooks
<1>2. CASE t > s.last_accrue /\ s.total_principal = 0
  <2> DEFINE b == [s EXCEPT !.last_accrue = t, !.last_supply_share_value = asv]
  <2>1. a = b
    BY <1>0, <1>2, SubFields, SMT DEF accrue_sub_vault, Stamp
  <2>2. b \in SubVault
    BY <1>0, SubUpdate, Zenon
  <2>3. SameBooks(s, b) /\ b.total_principal = s.total_principal
                        /\ b.total_assets = s.total_assets
    BY <1>0, SMT DEF SameBooks, SubVault
  <2> HIDE DEF b
  <2>4. SoundSub(b)
    BY <2>2, <2>3 DEF SoundSub, SameBooks
  <2> HIDE DEF a
  <2>5. a.total_principal >= s.total_principal
    BY <1>0, <2>1, <2>3, SubFields, SMT
  <2> QED BY <2>1, <2>3, <2>4, <2>5 DEF a
<1>3. CASE t > s.last_accrue /\ s.total_principal # 0
  <2>1. IdleFits(s)
    BY <1>0, <1>3, SubFields, SMT DEF CanAccrue
  <2> DEFINE g == SatSub(IdleValue(s, asv), IdleAtoms(s))
             d == SatSub(IdleAtoms(s), IdleValue(s, asv))
             y == LoanYield(s, t)
             x == SatSub(s.total_assets + g, d) + y
             p == SatSub(s.total_principal + g, d)
             b == [s EXCEPT !.total_assets = x, !.total_principal = p,
                            !.last_accrue = t, !.last_supply_share_value = asv]
  <2>2. /\ g \in Nat /\ d \in Nat
        /\ asv >= s.last_supply_share_value => d = 0
    BY <1>0, <2>1, IdleFacts, SMT DEF SatSub
  <2>3. y \in Nat
    <3>1. t - s.last_accrue \in Nat /\ s.total_weighted_net_rate \in Nat
      BY <1>0, <1>3, SubFields, SMT
    <3>2. BPS_PER_UNIT * SECONDS_PER_YEAR \in Nat \ {0}
      BY ScaleAssumption, YearAssumption, SMT
    <3> QED BY <3>1, <3>2, MulDivTyped DEF LoanYield
  <2>4. a = restore_assets_principal_invariant(b)
    <3>1. ~(t <= s.last_accrue)
      BY <1>0, <1>3, SubFields, SMT
    <3>2. b = Stamp([s EXCEPT !.total_assets = x, !.total_principal = p], t, asv)
      BY <1>0, SMT DEF Stamp, SubVault
    <3> QED BY <1>3, <3>1, <3>2 DEF accrue_sub_vault
  <2> HIDE DEF g, d, y
  <2>5. /\ x \in Nat /\ p \in Nat
        /\ asv >= s.last_supply_share_value => p >= s.total_principal
    BY <1>0, <2>2, <2>3, SubFields, SMT DEF SatSub
  <2> HIDE DEF x, p
  <2>6. b \in SubVault
    BY <1>0, <2>5, SubUpdate, Zenon
  <2>7. SameBooks(s, b) /\ b.total_principal = p
    BY <1>0, SMT DEF SameBooks, SubVault
  <2> HIDE DEF b, a
  <2>8. a \in SubVault /\ SameBooks(b, a) /\ a.total_principal = p
        /\ a.total_assets >= a.total_principal
    BY <2>4, <2>6, <2>7, RestoreFacts
  <2>9. SameBooks(s, a)
    BY <2>7, <2>8 DEF SameBooks
  <2>10. s.total_shares # 0
    BY <1>3 DEF SoundSub
  <2>11. SoundSub(a)
    BY <2>8, <2>9, <2>10 DEF SoundSub, SameBooks
  <2> QED BY <2>5, <2>8, <2>9, <2>11 DEF a
<1> QED BY <1>0, <1>1, <1>2, <1>3, SubFields, SMT

-----------------------------------------------------------------------------
(* Totals over the loans *)

\* The nodes whose contributions are natural numbers.
GoodNode(n) == n \in MatchedLoan /\ n.curator_fee <= BPS_PER_UNIT

\* A node contributes a natural number to every total, and to the sub-vault it
\* names only.
LEMMA PartTyped ==
    ASSUME NEW n, GoodNode(n), NEW kind, NEW v
    PROVE  /\ PartOf(kind, n, v) \in Nat
           /\ WeightedOf(n) \in Nat /\ NetWeightedOf(n) \in Nat
<1>1. /\ n.principal \in Nat /\ n.lender_rate \in Nat
      /\ n.curator_fee \in Nat /\ BPS_PER_UNIT - n.curator_fee \in Nat
  BY ScaleAssumption, SMT DEF GoodNode, MatchedLoan
<1>2. WeightedOf(n) \in Nat
  BY <1>1, SMT DEF WeightedOf, weighted_delta
<1>3. NetWeightedOf(n) \in Nat
  BY <1>1, <1>2, ScaleAssumption, MulDivTyped DEF NetWeightedOf, net_weighted_delta, WeightedOf
<1> QED BY <1>1, <1>2, <1>3 DEF PartOf

\* There are finitely many loan ids.
LEMMA LoanIdsFinite == IsFiniteSet(LoanIds)
  BY LedgerAssumption, FS_Interval DEF LoanIds

\* TotalsAt states LedgerMatchesLoans of one sub-vault.
LEMMA TotalsAreSums ==
    (\A v \in SubVaultIds : TotalsAt(v)) => LedgerMatchesLoans
<1> SUFFICES ASSUME \A v \in SubVaultIds : TotalsAt(v), NEW v \in SubVaultIds
             PROVE  /\ sub[v].deployed_principal = SumOver(v, Drawn, PrincipalOf)
                    /\ sub[v].encumbered_in_orders = SumOver(v, {"Queued"}, PrincipalOf)
                    /\ sub[v].total_weighted_rate = SumOver(v, Drawn, WeightedOf)
                    /\ sub[v].total_weighted_net_rate = SumOver(v, Drawn, NetWeightedOf)
  BY DEF LedgerMatchesLoans
<1>0. TotalsAt(v) OBVIOUS
<1>1. Total("deployed", loan, v) = SumOver(v, Drawn, PrincipalOf)
  <2> DEFINE f == [l \in LoanIds |-> PartOf("deployed", loan[l], v)]
             g == [l \in LoanIds |-> Contribution(l, v, Drawn, PrincipalOf(loan[l]))]
  <2>1. \A l \in LoanIds : f[l] = g[l]
    BY DEF PartOf, CountedStatus, Contribution, PrincipalOf
  <2>2. Total("deployed", loan, v) = Sum(LoanIds, f) BY DEF Total
  <2>3. SumOver(v, Drawn, PrincipalOf) = Sum(LoanIds, g) BY DEF SumOver
  <2> HIDE DEF f, g
  <2> QED BY <2>1, <2>2, <2>3, SumSame
<1>2. Total("encumbered", loan, v) = SumOver(v, {"Queued"}, PrincipalOf)
  <2> DEFINE f == [l \in LoanIds |-> PartOf("encumbered", loan[l], v)]
             g == [l \in LoanIds |-> Contribution(l, v, {"Queued"}, PrincipalOf(loan[l]))]
  <2>1. \A l \in LoanIds : f[l] = g[l]
    BY DEF PartOf, CountedStatus, Contribution, PrincipalOf
  <2>2. Total("encumbered", loan, v) = Sum(LoanIds, f) BY DEF Total
  <2>3. SumOver(v, {"Queued"}, PrincipalOf) = Sum(LoanIds, g) BY DEF SumOver
  <2> HIDE DEF f, g
  <2> QED BY <2>1, <2>2, <2>3, SumSame
<1>3. Total("weighted", loan, v) = SumOver(v, Drawn, WeightedOf)
  <2> DEFINE f == [l \in LoanIds |-> PartOf("weighted", loan[l], v)]
             g == [l \in LoanIds |-> Contribution(l, v, Drawn, WeightedOf(loan[l]))]
  <2>1. \A l \in LoanIds : f[l] = g[l]
    BY DEF PartOf, CountedStatus, Contribution
  <2>2. Total("weighted", loan, v) = Sum(LoanIds, f) BY DEF Total
  <2>3. SumOver(v, Drawn, WeightedOf) = Sum(LoanIds, g) BY DEF SumOver
  <2> HIDE DEF f, g
  <2> QED BY <2>1, <2>2, <2>3, SumSame
<1>4. Total("net", loan, v) = SumOver(v, Drawn, NetWeightedOf)
  <2> DEFINE f == [l \in LoanIds |-> PartOf("net", loan[l], v)]
             g == [l \in LoanIds |-> Contribution(l, v, Drawn, NetWeightedOf(loan[l]))]
  <2>1. \A l \in LoanIds : f[l] = g[l]
    BY DEF PartOf, CountedStatus, Contribution
  <2>2. Total("net", loan, v) = Sum(LoanIds, f) BY DEF Total
  <2>3. SumOver(v, Drawn, NetWeightedOf) = Sum(LoanIds, g) BY DEF SumOver
  <2> HIDE DEF f, g
  <2> QED BY <2>1, <2>2, <2>3, SumSame
<1> QED BY <1>0, <1>1, <1>2, <1>3, <1>4 DEF TotalsAt

-----------------------------------------------------------------------------
(* Asks and open loans *)

\* A sub-vault has no ask or exactly one.
LEMMA AsksCount ==
    ASSUME OneAskEach, NEW v
    PROVE  /\ AsksOf(v) = {} => Cardinality(AsksOf(v)) = 0
           /\ AsksOf(v) # {} => Cardinality(AsksOf(v)) = 1
           /\ Cardinality(AsksOf(v)) \in {0, 1}
<1>1. AsksOf(v) = {} => Cardinality(AsksOf(v)) = 0
  BY FS_EmptySet
<1>2. ASSUME AsksOf(v) # {} PROVE Cardinality(AsksOf(v)) = 1
  <2>1. PICK a : a \in AsksOf(v) BY <1>2
  <2>2. AsksOf(v) = {a} BY <2>1 DEF AsksOf, OneAskEach
  <2> QED BY <2>2, FS_Singleton
<1> QED BY <1>1, <1>2

\* A sub-vault's open loans are finitely many.
LEMMA OpenLoansFinite ==
    ASSUME NEW v
    PROVE  IsFiniteSet(OpenLoans(v)) /\ Cardinality(OpenLoans(v)) \in Nat
<1>1. OpenLoans(v) \in SUBSET LoanIds BY DEF OpenLoans
<1>2. IsFiniteSet(OpenLoans(v)) BY <1>1, LoanIdsFinite, FS_Subset
<1> QED BY <1>2, FS_CardinalityType

-----------------------------------------------------------------------------
(* What an instruction on one sub-vault leaves alone *)

KeptElsewhere(v) ==
    \A w \in SubVaultIds : w # v =>
          /\ w >= next_id' => w >= next_id
          /\ sub'[w] = sub[w]
          /\ position'[w] = position[w]
          /\ seat'[w].open_lend_count = seat[w].open_lend_count
          /\ AsksOf(w)' = AsksOf(w)
          /\ OpenLoans(w)' = OpenLoans(w)
          /\ \A kind : Total(kind, loan', w) = Total(kind, loan, w)

\* The other sub-vaults keep their books.
LEMMA OthersKeepBook ==
    ASSUME NEW v \in SubVaultIds, \A w \in SubVaultIds : BookAt(w), KeptElsewhere(v),
           BookAt(v)'
    PROVE  \A w \in SubVaultIds : BookAt(w)'
<1> SUFFICES ASSUME NEW w \in SubVaultIds, w # v PROVE BookAt(w)'
  OBVIOUS
<1>1. BookAt(w) OBVIOUS
<1>2. /\ w >= next_id' => w >= next_id
      /\ sub'[w] = sub[w] /\ position'[w] = position[w]
      /\ seat'[w].open_lend_count = seat[w].open_lend_count
      /\ AsksOf(w)' = AsksOf(w) /\ OpenLoans(w)' = OpenLoans(w)
      /\ \A kind : Total(kind, loan', w) = Total(kind, loan, w)
  BY DEF KeptElsewhere
<1>3. TotalsAt(w)'
  BY <1>1, <1>2, Zenon DEF BookAt, TotalsAt
<1>4. CountersAt(w)'
  BY <1>1, <1>2, Zenon DEF BookAt, CountersAt
<1> QED BY <1>1, <1>2, <1>3, <1>4 DEF BookAt

\* A step that leaves asks and loans alone leaves what is counted over them alone.
LEMMA SameBook ==
    ASSUME loan' = loan, asks' = asks
    PROVE  /\ \A w : AsksOf(w)' = AsksOf(w) /\ OpenLoans(w)' = OpenLoans(w)
           /\ \A kind, w : Total(kind, loan', w) = Total(kind, loan, w)
           /\ OneAskEach <=> OneAskEach'
<1>1. \A w : AsksOf(w)' = AsksOf(w) BY DEF AsksOf
<1>2. \A w : OpenLoans(w)' = OpenLoans(w) BY DEF OpenLoans, Open
<1>3. OneAskEach <=> OneAskEach' BY DEF OneAskEach
<1> QED BY <1>1, <1>2, <1>3

-----------------------------------------------------------------------------
(* Instructions that write one sub-vault and no loan and no ask *)

\* The figures that summarise asks and loans.
SameTotals(s, x) ==
    /\ x.deployed_principal = s.deployed_principal
    /\ x.encumbered_in_orders = s.encumbered_in_orders
    /\ x.total_weighted_rate = s.total_weighted_rate
    /\ x.total_weighted_net_rate = s.total_weighted_net_rate
    /\ x.open_orders_count = s.open_orders_count
    /\ x.open_loans_count = s.open_loans_count

\* An existing sub-vault is not one of those still to be created.
LEMMA ExistsBelowNext ==
    ASSUME NEW v \in SubVaultIds, BookAt(v), Exists(v)
    PROVE  ~(v >= next_id)
  BY NewSub DEF BookAt, Exists

\* A step that rewrites one sub-vault and leaves loans and asks alone keeps the
\* invariant, if the new record is sound and its loan totals are the old ones.
LEMMA WriteSub ==
    ASSUME IInv, NEW v \in SubVaultIds, NEW x,
           sub' = [sub EXCEPT ![v] = x],
           UNCHANGED <<now, shareValue, next_id, asks, loan, next_loan>>,
           SoundSub(x), SameTotals(sub[v], x),
           x = sub[v] \/ (Exists(v) /\ x.status \in {"Open", "Sunset"}),
           position' \in [SubVaultIds -> [Depositors -> Nat]],
           x.total_shares = Sum(Depositors, position'[v]),
           \A w \in SubVaultIds : w # v => position'[w] = position[w],
           seat' \in [SubVaultIds -> ClaimedSeat],
           \A w \in SubVaultIds : seat'[w].open_lend_count = seat[w].open_lend_count,
           vaultAccount' \in Nat, lenderAccount' \in Nat,
           borrowerClaim' \in Nat, protocolClaim' \in Nat, dust' \in Nat
    PROVE  IInv'
<1>0. /\ TypeOK /\ \A w \in SubVaultIds : BookAt(w)
      /\ SoundLoans /\ OneAskEach /\ NoOrphans
  BY DEF IInv
<1>1. sub \in [SubVaultIds -> SubVault] /\ x \in SubVault
  BY <1>0 DEF TypeOK, SoundSub
<1>2. TypeOK'
  BY <1>0, <1>1 DEF TypeOK
<1>3. sub'[v] = x /\ \A w \in SubVaultIds : w # v => sub'[w] = sub[w]
  BY <1>1
<1>4. /\ \A w : AsksOf(w)' = AsksOf(w) /\ OpenLoans(w)' = OpenLoans(w)
      /\ \A kind, w : Total(kind, loan', w) = Total(kind, loan, w)
      /\ OneAskEach'
  BY <1>0, SameBook
<1>5. KeptElsewhere(v)
  BY <1>3, <1>4 DEF KeptElsewhere
<1>6. BookAt(v) BY <1>0
<1>7. TotalsAt(v)'
  BY <1>3, <1>4, <1>6, Zenon DEF TotalsAt, SameTotals, BookAt
<1>8. CountersAt(v)'
  BY <1>3, <1>4, <1>6, Zenon DEF CountersAt, SameTotals, BookAt
<1>9. (v >= next_id => sub[v] = SubVault_new_empty("Absent"))'
  BY <1>3, <1>6, ExistsBelowNext DEF BookAt
<1>10. BookAt(v)'
  BY <1>3, <1>7, <1>8, <1>9 DEF BookAt
<1>11. \A w \in SubVaultIds : BookAt(w)'
  BY <1>0, <1>5, <1>10, OthersKeepBook
<1>12. \A w \in SubVaultIds : Exists(w) => Exists(w)'
  BY <1>3 DEF Exists
<1>13. SoundLoans'
  BY <1>0 DEF SoundLoans
<1>14. NoOrphans'
  <2>1. \A l \in LoanIds : loan[l].status \in Uncleared =>
                               loan[l].sub_vault \in SubVaultIds
    BY <1>0 DEF SoundLoans, SoundNode
  <2>2. \A a \in asks : a.sub_vault \in SubVaultIds
    BY <1>0 DEF TypeOK, Ask
  <2> QED BY <1>0, <1>12, <2>1, <2>2 DEF NoOrphans
<1> QED BY <1>2, <1>4, <1>11, <1>13, <1>14 DEF IInv

\* Sunset and resume keep the books.
LEMMA SetStatusInv ==
    ASSUME IInv, NEW v \in SubVaultIds, NEW status \in {"Open", "Sunset"},
           SetStatus(v, status)
    PROVE  IInv'
<1> DEFINE x == [sub[v] EXCEPT !.status = status]
<1>0. TypeOK /\ BookAt(v) /\ sub[v] \in SubVault
  BY DEF IInv, TypeOK
<1>1. x \in SubVault /\ x.status = status /\ SameTotals(sub[v], x)
      /\ x.total_shares = sub[v].total_shares
      /\ x.total_principal = sub[v].total_principal
      /\ x.total_assets = sub[v].total_assets
  BY <1>0, SMT DEF SubVault, SameTotals
<1>2. sub' = [sub EXCEPT ![v] = x]
  BY DEF SetStatus
<1> HIDE DEF x
<1>3. SoundSub(x)
  BY <1>0, <1>1 DEF BookAt, SoundSub, SameTotals
<1>4. x.total_shares = Sum(Depositors, position'[v])
  BY <1>0, <1>1 DEF BookAt, SetStatus
<1>5. Exists(v) /\ UNCHANGED <<now, shareValue, next_id, asks, loan, next_loan>>
      /\ UNCHANGED <<position, seat, vaultAccount, lenderAccount>>
      /\ UNCHANGED <<borrowerClaim, protocolClaim, dust>>
  BY DEF SetStatus
<1>6. /\ position' \in [SubVaultIds -> [Depositors -> Nat]]
      /\ seat' \in [SubVaultIds -> ClaimedSeat]
      /\ vaultAccount' \in Nat /\ lenderAccount' \in Nat
      /\ borrowerClaim' \in Nat /\ protocolClaim' \in Nat /\ dust' \in Nat
  BY <1>0, <1>5 DEF TypeOK
<1> QED BY <1>1, <1>2, <1>3, <1>4, <1>5, <1>6, WriteSub

\* The share value is positive.
LEMMA ShareValuePositive == TypeOK => shareValue \in Nat \ {0}
<1>1. ShareValues \subseteq Nat \ {0}
  BY LedgerAssumption, ScaleAssumption, SMT
<1> QED BY <1>1 DEF TypeOK

\* What marginfi pays and burns is a natural number, and it never burns more shares
\* than it is asked for.
LEMMA MarginfiTyped ==
    ASSUME TypeOK, NEW n \in Nat
    PROVE  /\ Paid(n) \in Nat /\ Shares(n) \in Nat /\ Burned(n) \in Nat
           /\ Burned(n) <= n
           /\ Paid(Shares(n)) <= n
<1>1. shareValue \in Nat \ {0} BY ShareValuePositive
<1>2. Paid(n) \in Nat BY <1>1, AmountMonotone, SMT DEF Paid
<1>3. Shares(n) \in Nat BY <1>1, SharesTyped DEF Shares
<1>4. Burned(n) \in Nat BY <1>1, <1>2, SharesTyped DEF Burned
<1>5. Burned(n) <= n BY <1>1, ShareRoundTrip DEF Burned, Paid
<1>6. Paid(Shares(n)) <= n BY <1>1, RoundTripLoses DEF Paid, Shares
<1> QED BY <1>2, <1>3, <1>4, <1>5, <1>6

\* The curator's claim comes off its fee only.
LEMMA ClaimCuratorFeeInv ==
    ASSUME IInv, NEW v \in SubVaultIds, ClaimCuratorFee(v)
    PROVE  IInv'
<1> DEFINE fee == sub[v].accumulated_curator_fee
           rest == SatSub(fee, Paid(Shares(fee)))
           x == [sub[v] EXCEPT !.accumulated_curator_fee = rest]
<1>0. TypeOK /\ BookAt(v) /\ sub[v] \in SubVault
  BY DEF IInv, TypeOK
<1>1. fee \in Nat BY <1>0, SubFields
<1>2. rest \in Nat /\ Burned(Shares(fee)) \in Nat
  <2>1. Shares(fee) \in Nat BY <1>0, <1>1, MarginfiTyped
  <2>2. Paid(Shares(fee)) \in Nat /\ Burned(Shares(fee)) \in Nat
    BY <1>0, <2>1, MarginfiTyped
  <2> QED BY <1>1, <2>2, SMT DEF SatSub
<1>3. sub' = [sub EXCEPT ![v] = x]
  BY <1>0, SMT DEF ClaimCuratorFee, TypeOK
<1>4. vaultAccount' \in Nat
  BY <1>0, <1>2, SMT DEF ClaimCuratorFee, TypeOK
<1> HIDE DEF rest
<1>5. x \in SubVault /\ x.status = sub[v].status /\ SameTotals(sub[v], x)
      /\ x.total_shares = sub[v].total_shares
      /\ x.total_principal = sub[v].total_principal
      /\ x.total_assets = sub[v].total_assets
  BY <1>0, <1>2, SMT DEF SubVault, SameTotals
<1> HIDE DEF x
<1>6. SoundSub(x)
  BY <1>0, <1>5 DEF BookAt, SoundSub, SameTotals
<1>7. Exists(v) /\ UNCHANGED <<now, shareValue, next_id, asks, loan, next_loan>>
      /\ UNCHANGED <<position, seat, lenderAccount, borrowerClaim, protocolClaim, dust>>
  BY DEF ClaimCuratorFee
<1>8. x.total_shares = Sum(Depositors, position'[v])
  BY <1>0, <1>5, <1>7 DEF BookAt
<1>9. /\ position' \in [SubVaultIds -> [Depositors -> Nat]]
      /\ seat' \in [SubVaultIds -> ClaimedSeat]
      /\ lenderAccount' \in Nat /\ borrowerClaim' \in Nat /\ protocolClaim' \in Nat /\ dust' \in Nat
  BY <1>0, <1>7 DEF TypeOK
<1>10. x.status \in {"Open", "Sunset"}
  BY <1>5, <1>7 DEF Exists
<1> QED BY <1>3, <1>4, <1>5, <1>6, <1>7, <1>8, <1>9, <1>10, WriteSub

\* A sweep comes off what is pending; one of less than an atom changes no sub-vault,
\* which may then be a removed one.
LEMMA ClaimRepaymentInv ==
    ASSUME IInv, NEW v \in SubVaultIds, ClaimRepaymentForSubVault(v)
    PROVE  IInv'
<1> DEFINE claim == seat[v].debt_withdrawable
           atoms == Paid(claim)
           rest == SatSub(sub[v].pending_claim, atoms)
           left == IF Burned(claim) = 0 THEN 0 ELSE SatSub(claim, Burned(claim))
           x == [sub[v] EXCEPT !.pending_claim = rest]
<1>0. TypeOK /\ BookAt(v) /\ sub[v] \in SubVault
  BY DEF IInv, TypeOK
<1>1. claim \in Nat /\ seat[v] \in ClaimedSeat
  BY <1>0 DEF TypeOK, ClaimedSeat
<1>2. atoms \in Nat /\ Burned(claim) \in Nat
  BY <1>0, <1>1, MarginfiTyped
<1>3. rest \in Nat /\ left \in Nat
  BY <1>0, <1>1, <1>2, SubFields, SMT DEF SatSub
<1>4. sub' = [sub EXCEPT ![v] = x]
  BY <1>0, SMT DEF ClaimRepaymentForSubVault, Swept, TypeOK
<1>5. seat' = [seat EXCEPT ![v] = [seat[v] EXCEPT !.debt_withdrawable = left]]
  BY <1>0, SMT DEF ClaimRepaymentForSubVault, TypeOK
<1>6. /\ seat' \in [SubVaultIds -> ClaimedSeat]
      /\ \A w \in SubVaultIds : seat'[w].open_lend_count = seat[w].open_lend_count
  <2> HIDE DEF left
  <2>1. /\ [seat[v] EXCEPT !.debt_withdrawable = left] \in ClaimedSeat
        /\ [seat[v] EXCEPT !.debt_withdrawable = left].open_lend_count
              = seat[v].open_lend_count
    BY <1>1, <1>3, SMT DEF ClaimedSeat
  <2> QED BY <1>0, <1>5, <2>1 DEF TypeOK
<1>7. vaultAccount' \in Nat /\ lenderAccount' \in Nat
  <2>1. Shares(atoms) \in Nat BY <1>0, <1>2, MarginfiTyped
  <2> QED BY <1>0, <1>2, <2>1, SMT DEF ClaimRepaymentForSubVault, TypeOK
<1>8. x = sub[v] \/ Exists(v)
  <2>1. CASE atoms = 0
    <3>1. rest = sub[v].pending_claim
      BY <1>0, <2>1, SubFields, SMT DEF SatSub
    <3> HIDE DEF rest
    <3>2. x = sub[v]
      BY <1>0, <3>1, SMT DEF SubVault
    <3> QED BY <3>2
  <2>2. CASE atoms # 0
    <3>1. atoms > 0 BY <1>2, <2>2, SMT
    <3> QED BY <3>1 DEF ClaimRepaymentForSubVault
  <2> QED BY <2>1, <2>2
<1> HIDE DEF rest
<1>9. x \in SubVault /\ x.status = sub[v].status /\ SameTotals(sub[v], x)
      /\ x.total_shares = sub[v].total_shares
      /\ x.total_principal = sub[v].total_principal
      /\ x.total_assets = sub[v].total_assets
  BY <1>0, <1>3, SMT DEF SubVault, SameTotals
<1> HIDE DEF x
<1>10. SoundSub(x)
  BY <1>0, <1>9 DEF BookAt, SoundSub, SameTotals
<1>11. UNCHANGED <<now, shareValue, next_id, asks, loan, next_loan>>
      /\ UNCHANGED <<position, borrowerClaim, protocolClaim, dust>>
  BY DEF ClaimRepaymentForSubVault
<1>12. x.total_shares = Sum(Depositors, position'[v])
  BY <1>0, <1>9, <1>11 DEF BookAt
<1>13. /\ position' \in [SubVaultIds -> [Depositors -> Nat]]
      /\ borrowerClaim' \in Nat /\ protocolClaim' \in Nat /\ dust' \in Nat
  BY <1>0, <1>11 DEF TypeOK
<1>14. x = sub[v] \/ (Exists(v) /\ x.status \in {"Open", "Sunset"})
  BY <1>8, <1>9 DEF Exists
<1> QED BY <1>4, <1>6, <1>7, <1>9, <1>10, <1>11, <1>12, <1>13, <1>14, WriteSub

-----------------------------------------------------------------------------
(* Deposits and withdrawals *)

\* A deposit adds its atoms to assets and principal and mints shares for them.
LEMMA DepositedFacts ==
    ASSUME NEW s, SoundSub(s), NEW c \in Nat \ {0},
           s.total_shares > 0 => s.total_assets > 0, SharesFor(s, c) > 0
    PROVE  LET x == Deposited(s, c)
           IN  /\ SharesFor(s, c) \in Nat
               /\ SoundSub(x) /\ SameTotals(s, x) /\ x.status = s.status
               /\ x.total_shares = s.total_shares + SharesFor(s, c)
               /\ x.total_principal = s.total_principal + c
<1> DEFINE m == SharesFor(s, c)
           t == s.total_shares + m
           p == s.total_principal + c
           a == (IF s.total_shares = 0 THEN 0 ELSE s.total_assets) + c
           x == [s EXCEPT !.total_shares = t, !.total_principal = p, !.total_assets = a]
<1>0. s \in SubVault BY DEF SoundSub
<1>1. m \in Nat
  <2>1. CASE s.total_shares = 0 BY <2>1 DEF SharesFor
  <2>2. CASE s.total_shares # 0
    <3>1. s.total_shares \in Nat /\ s.total_assets \in Nat \ {0}
      BY <1>0, <2>2, SubFields, SMT
    <3> QED BY <2>2, <3>1, MulDivTyped DEF SharesFor
  <2> QED BY <2>1, <2>2
<1>2. Deposited(s, c) = x
  BY <1>0, SMT DEF Deposited, SubVault
<1>3. m > 0 OBVIOUS
<1> HIDE DEF m
<1>4. t \in Nat /\ t > 0 /\ p \in Nat /\ a \in Nat /\ a >= p
  BY <1>0, <1>1, <1>3, SubFields, SMT DEF SoundSub
<1> HIDE DEF t, p, a
<1>5. x \in SubVault
  BY <1>0, <1>4, SubUpdate, Zenon
<1>6. /\ SameTotals(s, x) /\ x.status = s.status
      /\ x.total_shares = t /\ x.total_principal = p /\ x.total_assets = a
  BY <1>0, SMT DEF SameTotals, SubVault
<1> HIDE DEF x
<1>7. SoundSub(x)
  BY <1>4, <1>5, <1>6, SMT DEF SoundSub
<1> QED BY <1>1, <1>2, <1>6, <1>7 DEF m, t, p

\* The books of a depositor's sub-vault agree with the positions after one changes.
LEMMA PositionChange ==
    ASSUME TypeOK, NEW v \in SubVaultIds, NEW d \in Depositors, NEW n \in Nat,
           position' = [position EXCEPT ![v][d] = n]
    PROVE  /\ position' \in [SubVaultIds -> [Depositors -> Nat]]
           /\ \A w \in SubVaultIds : w # v => position'[w] = position[w]
           /\ Sum(Depositors, position[v]) \in Nat
           /\ position[v][d] \in Nat /\ position[v][d] <= Sum(Depositors, position[v])
           /\ Sum(Depositors, position'[v])
                = (Sum(Depositors, position[v]) - position[v][d]) + n
<1>0. position \in [SubVaultIds -> [Depositors -> Nat]]
  BY DEF TypeOK
<1>1. position[v] \in [Depositors -> Nat] /\ IsFiniteSet(Depositors)
  BY <1>0, LedgerAssumption
<1>2. position'[v] = [position[v] EXCEPT ![d] = n]
  BY <1>0
<1>3. /\ position' \in [SubVaultIds -> [Depositors -> Nat]]
      /\ \A w \in SubVaultIds : w # v => position'[w] = position[w]
  BY <1>0
<1> DEFINE f == position[v]
           g == position'[v]
<1>4. /\ \A y \in Depositors : f[y] \in Nat /\ g[y] \in Nat
      /\ \A y \in Depositors : y # d => f[y] = g[y]
      /\ g[d] = n
  BY <1>1, <1>2
<1> HIDE DEF f, g
<1>5. Sum(Depositors, f) \in Nat /\ f[d] <= Sum(Depositors, f) /\ f[d] \in Nat
  BY <1>1, <1>4, SumTyped, SumBound
<1>6. Sum(Depositors, g) = (Sum(Depositors, f) - f[d]) + g[d]
  <2>1. \A y \in Depositors : f[y] \in Nat /\ g[y] \in Nat BY <1>4
  <2>2. \A y \in Depositors : y # d => f[y] = g[y] BY <1>4
  <2> QED BY <1>1, <2>1, <2>2, SumChange
<1> QED BY <1>3, <1>4, <1>5, <1>6 DEF f, g

\* global_vault_deposit keeps the invariant.
LEMMA DepositInv ==
    ASSUME IInv, NEW v \in SubVaultIds, NEW d \in Depositors, NEW amount \in DepositAmounts,
           GlobalVaultDeposit(d, v, amount)
    PROVE  IInv'
<1> DEFINE c == Paid(Shares(amount))
           s == accrue_sub_vault(sub[v], now, shareValue)
           x == Deposited(s, c)
           m == SharesFor(s, c)
           n == position[v][d] + m
<1>0. TypeOK /\ BookAt(v) /\ SoundSub(sub[v]) /\ amount \in Nat /\ now \in Nat
      /\ shareValue \in Nat \ {0}
  BY LedgerAssumption, ShareValuePositive DEF IInv, TypeOK, BookAt
<1>1. Shares(amount) \in Nat /\ c \in Nat
  BY <1>0, MarginfiTyped
<1>2. /\ c > 0 /\ sub[v].status = "Open" /\ CanAccrue(sub[v], now)
      /\ s.total_shares > 0 => s.total_assets > 0
      /\ m > 0
      /\ sub' = [sub EXCEPT ![v] = x]
      /\ position' = [position EXCEPT ![v][d] = n]
      /\ vaultAccount' = vaultAccount + Shares(amount)
      /\ UNCHANGED <<now, shareValue, next_id, asks, loan, next_loan>>
      /\ UNCHANGED <<seat, lenderAccount, borrowerClaim, protocolClaim, dust>>
  <2>1. position' = [position EXCEPT ![v][d] = @ + m]
    BY DEF GlobalVaultDeposit
  <2>2. position' = [position EXCEPT ![v][d] = n]
    BY <1>0, <2>1, SMT DEF TypeOK
  <2> QED BY <2>2 DEF GlobalVaultDeposit
<1>3. SoundSub(s) /\ SameBooks(sub[v], s)
  BY <1>0, <1>2, AccrueSub
<1> HIDE DEF s, c
<1>4. /\ m \in Nat /\ SoundSub(x) /\ SameTotals(s, x) /\ x.status = s.status
      /\ x.total_shares = s.total_shares + m
  <2>1. c \in Nat \ {0} BY <1>1, <1>2, SMT
  <2> QED BY <1>2, <1>3, <2>1, DepositedFacts
<1> HIDE DEF x, m
<1>5. position[v][d] \in Nat /\ n \in Nat
  BY <1>0, <1>4, SMT DEF TypeOK
<1>6. /\ position' \in [SubVaultIds -> [Depositors -> Nat]]
      /\ \A w \in SubVaultIds : w # v => position'[w] = position[w]
      /\ Sum(Depositors, position[v]) \in Nat
      /\ Sum(Depositors, position'[v]) = (Sum(Depositors, position[v]) - position[v][d]) + n
  <2> HIDE DEF n
  <2> QED BY <1>0, <1>2, <1>5, PositionChange
<1>7. x.total_shares = Sum(Depositors, position'[v])
  <2>1. s.total_shares = Sum(Depositors, position[v])
    BY <1>0, <1>3 DEF BookAt, SameBooks
  <2> DEFINE q == Sum(Depositors, position[v])
  <2>2. q \in Nat /\ x.total_shares = q + m
        /\ Sum(Depositors, position'[v]) = (q - position[v][d]) + (position[v][d] + m)
    BY <1>4, <1>6, <2>1
  <2> HIDE DEF q
  <2> QED BY <1>4, <1>5, <2>2, SMT
<1>8. SameTotals(sub[v], x) /\ Exists(v) /\ x.status \in {"Open", "Sunset"}
  BY <1>2, <1>3, <1>4 DEF SameTotals, SameBooks, Exists
<1>9. /\ seat' \in [SubVaultIds -> ClaimedSeat]
      /\ \A w \in SubVaultIds : seat'[w].open_lend_count = seat[w].open_lend_count
      /\ vaultAccount' \in Nat
      /\ lenderAccount' \in Nat /\ borrowerClaim' \in Nat /\ protocolClaim' \in Nat /\ dust' \in Nat
  BY <1>0, <1>1, <1>2, SMT DEF TypeOK
<1> QED BY <1>2, <1>4, <1>6, <1>7, <1>8, <1>9, WriteSub

\* What the account can pay, it can also burn.
LEMMA PayableBurn ==
    ASSUME TypeOK, NEW n \in Nat, NEW out \in Nat, Paid(n) >= out
    PROVE  Burned(Shares(out)) \in Nat /\ Burned(Shares(out)) <= n
<1>1. shareValue \in Nat \ {0} BY ShareValuePositive
<1>2. /\ Shares(out) \in Nat /\ Paid(n) \in Nat /\ Shares(Paid(n)) \in Nat
      /\ Burned(n) <= n /\ Burned(n) \in Nat
  BY MarginfiTyped
<1>3. Burned(Shares(out)) \in Nat /\ Burned(Shares(out)) <= Shares(out)
  BY <1>2, MarginfiTyped
<1>4. Shares(out) <= Shares(Paid(n))
  <2>1. out <= Paid(n) BY <1>2, SMT
  <2> QED BY <1>1, <1>2, <2>1, SharesMonotone DEF Shares
<1>5. Shares(Paid(n)) = Burned(n) BY DEF Shares, Burned
<1> QED BY <1>2, <1>3, <1>4, <1>5, SMT

\* A withdrawal within the guards takes the same atoms off assets and principal, and
\* the last share leaves nothing behind.
LEMMA WithdrawnFacts ==
    ASSUME TypeOK, NEW s, SoundSub(s), NEW burn \in Nat \ {0}, s.total_shares >= burn,
           sub_vault_idle(s) >= AtomsOut(s, burn),
           burn = s.total_shares => s.deployed_principal = 0 /\ s.encumbered_in_orders = 0,
           s.total_assets >= AtomsOut(s, burn)
    PROVE  LET x == Withdrawn(s, burn)
           IN  /\ AtomsOut(s, burn) \in Nat
               /\ SoundSub(x) /\ SameTotals(s, x) /\ x.status = s.status
               /\ x.total_shares = s.total_shares - burn
               /\ x.total_shares > 0 =>
                     /\ AtomsOut(s, burn) = mul_div(burn, s.total_principal, s.total_shares)
                     /\ AtomsOut(s, burn) <= s.total_principal
                     /\ x.total_principal = s.total_principal - AtomsOut(s, burn)
<1> DEFINE o == AtomsOut(s, burn)
           t == s.total_shares - burn
           a == s.total_assets - o
           p == s.total_principal - o
           y == [s EXCEPT !.total_shares = t, !.total_assets = a, !.total_principal = p]
           z == [y EXCEPT !.total_assets = 0, !.total_principal = 0]
           x == Withdrawn(s, burn)
<1>0. s \in SubVault /\ s.total_shares \in Nat \ {0} /\ t \in Nat
  BY SubFields, SMT DEF SoundSub
<1>1. o \in Nat
  <2>1. mul_div(burn, s.total_principal, s.total_shares) \in Nat
    BY <1>0, SubFields, MulDivTyped
  <2>2. Paid(vaultAccount) \in Nat BY MarginfiTyped DEF TypeOK
  <2> QED BY <2>1, <2>2 DEF AtomsOut, MinOf
<1>2. o <= s.total_principal /\ o <= s.total_assets
  <2>1. sub_vault_idle(s) \in Nat /\ sub_vault_idle(s) <= s.total_principal
    BY <1>0, SubFields, SMT DEF sub_vault_idle, SatSub
  <2> QED BY <1>0, <1>1, <2>1, SubFields, SMT
<1>3. x = IF y.total_shares = 0 THEN z ELSE y
  <2>1. y = [s EXCEPT !.total_shares = @ - burn, !.total_assets = @ - o, !.total_principal = @ - o]
    BY <1>0, SMT DEF SubVault
  <2> QED BY <2>1 DEF Withdrawn
<1>4. a \in Nat /\ p \in Nat /\ a >= p
  <2> HIDE DEF o
  <2> QED BY <1>0, <1>1, <1>2, SubFields, SMT DEF SoundSub
<1>5. burn # s.total_shares => o = mul_div(burn, s.total_principal, s.total_shares)
  BY DEF AtomsOut
<1> HIDE DEF o, a, p, x
<1>6. y \in SubVault
  <2> HIDE DEF t
  <2> QED BY <1>0, <1>4, SubUpdate, Zenon
<1>7. /\ SameTotals(s, y) /\ y.status = s.status
      /\ y.total_shares = t /\ y.total_principal = p /\ y.total_assets = a
  BY <1>0, SMT DEF SameTotals, SubVault
<1> HIDE DEF y
<1>8. CASE t = 0
  <2>1. x = z /\ burn = s.total_shares
    BY <1>0, <1>3, <1>7, <1>8, SMT
  <2>2. z \in SubVault
    BY <1>6, SubUpdate, Zenon
  <2>3. /\ SameTotals(y, z) /\ z.status = y.status
        /\ z.total_shares = y.total_shares /\ z.total_principal = 0 /\ z.total_assets = 0
    BY <1>6, SMT DEF SameTotals, SubVault
  <2> HIDE DEF z
  <2>4. SoundSub(z)
    BY <1>7, <2>1, <2>2, <2>3, SMT DEF SoundSub, SameTotals
  <2>5. SameTotals(s, z) BY <1>7, <2>3 DEF SameTotals
  <2>6. ~(x.total_shares > 0) BY <1>7, <1>8, <2>1, <2>3, SMT
  <2> QED BY <1>1, <1>7, <2>1, <2>3, <2>4, <2>5, <2>6 DEF o, x
<1>9. CASE t # 0
  <2>1. x = y /\ burn # s.total_shares
    BY <1>0, <1>3, <1>7, <1>9, SMT
  <2>2. SoundSub(y)
    BY <1>4, <1>6, <1>7, <1>9 DEF SoundSub
  <2> QED BY <1>1, <1>2, <1>5, <1>7, <2>1, <2>2 DEF o, p, x
<1> QED BY <1>8, <1>9

\* global_vault_withdraw keeps the invariant.
LEMMA GlobalVaultWithdrawInv ==
    ASSUME IInv, NEW v \in SubVaultIds, NEW d \in Depositors, NEW burn \in BurnAmounts,
           GlobalVaultWithdraw(d, v, burn)
    PROVE  IInv'
<1> DEFINE s == accrue_sub_vault(sub[v], now, shareValue)
           out == AtomsOut(s, burn)
           x == Withdrawn(s, burn)
           n == position[v][d] - burn
<1>0. TypeOK /\ BookAt(v) /\ SoundSub(sub[v]) /\ burn \in Nat \ {0} /\ now \in Nat
      /\ shareValue \in Nat \ {0}
  BY LedgerAssumption, ShareValuePositive DEF IInv, TypeOK, BookAt
<1>1. /\ Exists(v) /\ position[v][d] >= burn /\ s.total_shares >= burn
      /\ CanAccrue(sub[v], now)
      /\ sub_vault_idle(s) >= out
      /\ Paid(vaultAccount) >= out
      /\ burn = s.total_shares => s.deployed_principal = 0 /\ s.encumbered_in_orders = 0
      /\ s.total_assets >= out
      /\ sub' = [sub EXCEPT ![v] = x]
      /\ vaultAccount' = vaultAccount - Burned(Shares(out))
      /\ UNCHANGED <<now, shareValue, next_id, asks, loan, next_loan>>
      /\ UNCHANGED <<seat, lenderAccount, borrowerClaim, protocolClaim, dust>>
  BY DEF GlobalVaultWithdraw
<1>2. position' = [position EXCEPT ![v][d] = n]
  <2>1. position' = [position EXCEPT ![v][d] = @ - burn]
    BY DEF GlobalVaultWithdraw
  <2> QED BY <1>0, <2>1, SMT DEF TypeOK
<1>3. SoundSub(s) /\ SameBooks(sub[v], s)
  BY <1>0, <1>1, AccrueSub
<1> HIDE DEF s
<1>4. /\ out \in Nat /\ SoundSub(x) /\ SameTotals(s, x) /\ x.status = s.status
      /\ x.total_shares = s.total_shares - burn
  BY <1>0, <1>1, <1>3, WithdrawnFacts
<1> HIDE DEF x, out
<1>5. position[v][d] \in Nat /\ n \in Nat
  BY <1>0, <1>1, SMT DEF TypeOK
<1>6. /\ position' \in [SubVaultIds -> [Depositors -> Nat]]
      /\ \A w \in SubVaultIds : w # v => position'[w] = position[w]
      /\ Sum(Depositors, position[v]) \in Nat
      /\ Sum(Depositors, position'[v]) = (Sum(Depositors, position[v]) - position[v][d]) + n
  <2> HIDE DEF n
  <2> QED BY <1>0, <1>2, <1>5, PositionChange
<1>7. x.total_shares = Sum(Depositors, position'[v])
  <2>1. s.total_shares = Sum(Depositors, position[v])
    BY <1>0, <1>3 DEF BookAt, SameBooks
  <2> DEFINE q == Sum(Depositors, position[v])
  <2>2. q \in Nat /\ x.total_shares = q - burn
        /\ Sum(Depositors, position'[v]) = (q - position[v][d]) + (position[v][d] - burn)
    BY <1>4, <1>6, <2>1
  <2> HIDE DEF q
  <2> QED BY <1>0, <1>5, <2>2, SMT
<1>8. SameTotals(sub[v], x) /\ x.status \in {"Open", "Sunset"}
  BY <1>1, <1>3, <1>4 DEF SameTotals, SameBooks, Exists
<1>9. vaultAccount' \in Nat
  <2>1. vaultAccount \in Nat BY <1>0 DEF TypeOK
  <2>2. Burned(Shares(out)) \in Nat /\ Burned(Shares(out)) <= vaultAccount
    BY <1>0, <1>1, <1>4, <2>1, PayableBurn
  <2> QED BY <1>1, <2>1, <2>2, SMT
<1>10. /\ seat' \in [SubVaultIds -> ClaimedSeat]
       /\ \A w \in SubVaultIds : seat'[w].open_lend_count = seat[w].open_lend_count
       /\ lenderAccount' \in Nat /\ borrowerClaim' \in Nat
       /\ protocolClaim' \in Nat /\ dust' \in Nat
  BY <1>0, <1>1 DEF TypeOK
<1> QED BY <1>1, <1>4, <1>6, <1>7, <1>8, <1>9, <1>10, WriteSub

-----------------------------------------------------------------------------
(* The clock and the accounts *)

\* What neither writes a sub-vault, an ask nor a loan keeps the invariant.
LEMMA WriteAccounts ==
    ASSUME IInv, UNCHANGED <<sub, next_id, position, asks, seat, loan, next_loan>>,
           now' \in Nat, now <= now', shareValue' \in ShareValues,
           vaultAccount' \in Nat, lenderAccount' \in Nat,
           borrowerClaim' \in Nat, protocolClaim' \in Nat, dust' \in Nat
    PROVE  IInv'
<1>0. /\ TypeOK /\ \A w \in SubVaultIds : BookAt(w)
      /\ SoundLoans /\ OneAskEach /\ NoOrphans
  BY DEF IInv
<1>1. TypeOK' BY <1>0 DEF TypeOK
<1>2. \A w \in SubVaultIds : BookAt(w)'
  BY <1>0, SameBook DEF BookAt, TotalsAt, CountersAt
<1>3. SoundLoans'
  <2> SUFFICES ASSUME NEW l \in LoanIds
               PROVE  SoundNode(loan[l], now') /\ (l >= next_loan => loan[l].status = "Unused")
    BY DEF SoundLoans
  <2>1. SoundNode(loan[l], now) /\ (l >= next_loan => loan[l].status = "Unused")
    BY <1>0 DEF SoundLoans
  <2>2. loan[l].body.last_accrued \in Nat /\ now \in Nat
    BY <1>0 DEF TypeOK, MatchedLoan, Loans
  <2>3. loan[l].body.last_accrued <= now => loan[l].body.last_accrued <= now'
    BY <2>2, SMT
  <2> QED BY <2>1, <2>3 DEF SoundNode
<1>4. OneAskEach' /\ NoOrphans'
  BY <1>0 DEF OneAskEach, NoOrphans, Exists
<1> QED BY <1>1, <1>2, <1>3, <1>4 DEF IInv

\* Time passes and the bank's share value grows.
LEMMA TickInv == IInv /\ Tick => IInv'
<1> SUFFICES ASSUME IInv, Tick PROVE IInv'
  OBVIOUS
<1>1. TypeOK BY DEF IInv
<1>2. now' \in Nat /\ now <= now' BY <1>1, SMT DEF Tick, TypeOK
<1>3. /\ UNCHANGED <<sub, next_id, position, asks, seat, loan, next_loan>>
      /\ shareValue' \in ShareValues
      /\ vaultAccount' \in Nat /\ lenderAccount' \in Nat
      /\ borrowerClaim' \in Nat /\ protocolClaim' \in Nat /\ dust' \in Nat
  BY <1>1 DEF Tick, TypeOK
<1> QED BY <1>2, <1>3, WriteAccounts

\* protocol_fee_claim keeps the invariant.
LEMMA ProtocolFeeClaimInv == IInv /\ ProtocolFeeClaim => IInv'
<1> SUFFICES ASSUME IInv, ProtocolFeeClaim PROVE IInv'
  OBVIOUS
<1>1. TypeOK BY DEF IInv
<1>2. Burned(protocolClaim) \in Nat BY <1>1, MarginfiTyped DEF TypeOK
<1>3. /\ now' \in Nat /\ now <= now'
      /\ lenderAccount' \in Nat /\ protocolClaim' \in Nat /\ dust' \in Nat
  BY <1>1, <1>2, SMT DEF ProtocolFeeClaim, TypeOK
<1>4. /\ UNCHANGED <<sub, next_id, position, asks, seat, loan, next_loan>>
      /\ shareValue' \in ShareValues
      /\ vaultAccount' \in Nat /\ borrowerClaim' \in Nat
  BY <1>1 DEF ProtocolFeeClaim, TypeOK
<1> QED BY <1>3, <1>4, WriteAccounts

\* withdraw of the borrowers' proceeds keeps the invariant.
LEMMA WithdrawInv ==
    ASSUME IInv, NEW requested \in Nat, NEW all \in BOOLEAN, Withdraw(requested, all)
    PROVE  IInv'
<1>1. TypeOK BY DEF IInv
<1> DEFINE e == MinOf(requested, lenderAccount)
<1>2. e \in Nat /\ e <= lenderAccount /\ e <= requested /\ lenderAccount \in Nat
  BY <1>1, SMT DEF MinOf, TypeOK
<1>3. /\ requested <= borrowerClaim
      /\ borrowerClaim' = IF all THEN 0 ELSE borrowerClaim - e
      /\ lenderAccount' = lenderAccount - Burned(e)
  BY DEF Withdraw
<1> HIDE DEF e
<1>4. Burned(e) \in Nat /\ Burned(e) <= e
  BY <1>1, <1>2, MarginfiTyped
<1>5. lenderAccount' \in Nat BY <1>2, <1>3, <1>4, SMT
<1>6. borrowerClaim' \in Nat
  <2>1. borrowerClaim \in Nat BY <1>1 DEF TypeOK
  <2>2. borrowerClaim - e \in Nat BY <1>2, <1>3, <2>1, SMT
  <2> QED BY <1>3, <2>2
<1>7. now' \in Nat /\ now <= now'
  BY <1>1, SMT DEF Withdraw, TypeOK
<1>8. /\ UNCHANGED <<sub, next_id, position, asks, seat, loan, next_loan>>
      /\ shareValue' \in ShareValues
      /\ vaultAccount' \in Nat /\ protocolClaim' \in Nat /\ dust' \in Nat
  BY <1>1 DEF Withdraw, TypeOK
<1> QED BY <1>5, <1>6, <1>7, <1>8, WriteAccounts

-----------------------------------------------------------------------------
(* Creation and removal *)

\* create_sub_vault keeps the invariant.
LEMMA CreateSubVaultInv == IInv /\ CreateSubVault => IInv'
<1> SUFFICES ASSUME IInv, CreateSubVault PROVE IInv'
  OBVIOUS
<1> DEFINE x == SubVault_new_empty("Open")
           o == SubVault_new_empty("Absent")
<1>v. PICK v \in SubVaultIds : v = next_id
  BY DEF CreateSubVault
<1>0. /\ TypeOK /\ \A w \in SubVaultIds : BookAt(w)
      /\ SoundLoans /\ OneAskEach /\ NoOrphans
  BY DEF IInv
<1>1. /\ v \in SubVaultIds /\ v \in Nat /\ next_id' = v + 1
      /\ sub' = [sub EXCEPT ![v] = x]
      /\ UNCHANGED <<now, shareValue, position, asks, seat, loan, next_loan>>
      /\ UNCHANGED <<vaultAccount, lenderAccount, borrowerClaim, protocolClaim, dust>>
  BY <1>v, <1>0 DEF CreateSubVault, TypeOK
<1>2. SoundSub(x) /\ SoundSub(o) /\ SameTotals(o, x) /\ x.total_shares = o.total_shares
      /\ x.status = "Open" /\ o.status = "Absent"
  BY NewSub DEF SameTotals
<1>3. BookAt(v) /\ sub[v] = o
  <2>1. v >= next_id BY <1>v, <1>1, SMT
  <2> QED BY <1>0, <1>1, <2>1 DEF BookAt
<1>4. sub \in [SubVaultIds -> SubVault] /\ x \in SubVault
  BY <1>0, <1>2 DEF TypeOK, SoundSub
<1> HIDE DEF x, o
<1>5. TypeOK'
  <2>1. next_id' \in Nat BY <1>1, SMT
  <2> QED BY <1>0, <1>1, <1>4, <2>1 DEF TypeOK
<1>6. sub'[v] = x /\ \A w \in SubVaultIds : w # v => sub'[w] = sub[w]
  BY <1>1, <1>4
<1>7. /\ \A w : AsksOf(w)' = AsksOf(w) /\ OpenLoans(w)' = OpenLoans(w)
      /\ \A kind, w : Total(kind, loan', w) = Total(kind, loan, w)
      /\ OneAskEach'
  BY <1>0, <1>1, SameBook
<1>8. \A w \in SubVaultIds : w >= next_id' => w >= next_id
  BY <1>v, <1>1, SMT DEF SubVaultIds
<1>9. KeptElsewhere(v)
  BY <1>1, <1>6, <1>7, <1>8 DEF KeptElsewhere
<1>10. TotalsAt(v)'
  <2>1. TotalsAt(v) BY <1>3, Zenon DEF BookAt
  <2>2. \A kind : Total(kind, loan', v) = Total(kind, loan, v) BY <1>7, Zenon
  <2>3. SameTotals(sub[v], sub'[v]) BY <1>2, <1>3, <1>6, Zenon
  <2> QED BY <2>1, <2>2, <2>3, Zenon DEF TotalsAt, SameTotals
<1>11. CountersAt(v)'
  BY <1>1, <1>2, <1>3, <1>6, <1>7, Zenon DEF CountersAt, SameTotals, BookAt
<1>12. ~(v >= next_id')
  BY <1>1, SMT
<1>13. x.total_shares = Sum(Depositors, position'[v])
  BY <1>1, <1>2, <1>3 DEF BookAt
<1>14. BookAt(v)'
  BY <1>2, <1>6, <1>10, <1>11, <1>12, <1>13 DEF BookAt
<1>15. \A w \in SubVaultIds : BookAt(w)'
  BY <1>0, <1>1, <1>9, <1>14, OthersKeepBook
<1>16. \A w \in SubVaultIds : Exists(w) => Exists(w)'
  BY <1>2, <1>6 DEF Exists
<1>17. SoundLoans' BY <1>0, <1>1 DEF SoundLoans
<1>18. NoOrphans'
  <2>1. \A l \in LoanIds : loan[l].status \in Uncleared =>
                               loan[l].sub_vault \in SubVaultIds
    BY <1>0 DEF SoundLoans, SoundNode
  <2>2. \A a \in asks : a.sub_vault \in SubVaultIds
    BY <1>0 DEF TypeOK, Ask
  <2> QED BY <1>0, <1>1, <1>16, <2>1, <2>2 DEF NoOrphans
<1> QED BY <1>5, <1>7, <1>15, <1>17, <1>18 DEF IInv

\* A sub-vault without open loans has nothing in any total.
LEMMA NoLoansNoTotals ==
    ASSUME NEW v, OpenLoans(v) = {}, NEW kind
    PROVE  Total(kind, loan, v) = 0
<1> DEFINE f == [l \in LoanIds |-> PartOf(kind, loan[l], v)]
<1>1. \A l \in LoanIds : f[l] = 0
  BY DEF OpenLoans, Open, PartOf, CountedStatus, Uncleared, Drawn
<1>2. Total(kind, loan, v) = Sum(LoanIds, f) BY DEF Total
<1> HIDE DEF f
<1> QED BY <1>1, <1>2, SumZero

\* remove_sub_vault keeps the invariant: an empty sub-vault leaves no loan, no ask and
\* no owner behind.
LEMMA RemoveSubVaultInv ==
    ASSUME IInv, NEW v \in SubVaultIds, RemoveSubVault(v)
    PROVE  IInv'
<1> DEFINE x == SubVault_new_empty("Removed")
<1>0. /\ TypeOK /\ \A w \in SubVaultIds : BookAt(w)
      /\ SoundLoans /\ OneAskEach /\ NoOrphans
  BY DEF IInv
<1>1. /\ sub[v].status = "Sunset" /\ is_empty(sub[v])
      /\ sub' = [sub EXCEPT ![v] = x]
      /\ UNCHANGED <<now, shareValue, next_id, position, asks, seat, loan, next_loan>>
      /\ UNCHANGED <<vaultAccount, lenderAccount, borrowerClaim, protocolClaim, dust>>
  BY DEF RemoveSubVault
<1>2. /\ SoundSub(x) /\ x.total_shares = 0
      /\ x.deployed_principal = 0 /\ x.encumbered_in_orders = 0
      /\ x.total_weighted_rate = 0 /\ x.total_weighted_net_rate = 0
      /\ x.open_orders_count = 0 /\ x.open_loans_count = 0
  BY NewSub
<1>3. sub \in [SubVaultIds -> SubVault] /\ x \in SubVault /\ BookAt(v)
  BY <1>0, <1>2 DEF TypeOK, SoundSub
<1> HIDE DEF x
<1>4. TypeOK' BY <1>0, <1>1, <1>3 DEF TypeOK
<1>5. sub'[v] = x /\ \A w \in SubVaultIds : w # v => sub'[w] = sub[w]
  BY <1>1, <1>3
<1>6. /\ \A w : AsksOf(w)' = AsksOf(w) /\ OpenLoans(w)' = OpenLoans(w)
      /\ \A kind, w : Total(kind, loan', w) = Total(kind, loan, w)
      /\ OneAskEach'
  BY <1>0, <1>1, SameBook
<1>7. Cardinality(AsksOf(v)) = 0 /\ Cardinality(OpenLoans(v)) = 0
  BY <1>1, <1>3 DEF BookAt, CountersAt, is_empty
<1>8. AsksOf(v) = {} /\ OpenLoans(v) = {}
  <2>1. AsksOf(v) = {} BY <1>0, <1>7, AsksCount
  <2> QED BY <1>7, <2>1, OpenLoansFinite, FS_EmptySet
<1>9. TotalsAt(v)'
  BY <1>2, <1>5, <1>6, <1>8, NoLoansNoTotals DEF TotalsAt
<1>10. CountersAt(v)'
  <2>1. sub[v].open_orders_count = 0 /\ sub[v].open_loans_count = 0
    BY <1>1 DEF is_empty
  <2> QED BY <1>1, <1>2, <1>3, <1>5, <1>6, <2>1 DEF CountersAt, BookAt
<1>11. ~(v >= next_id)
  <2>1. Exists(v) BY <1>1 DEF Exists
  <2> QED BY <1>3, <2>1, ExistsBelowNext
<1>12. x.total_shares = Sum(Depositors, position'[v])
  BY <1>1, <1>2, <1>3 DEF BookAt, is_empty
<1>13. BookAt(v)'
  BY <1>1, <1>2, <1>5, <1>9, <1>10, <1>11, <1>12 DEF BookAt
<1>14. KeptElsewhere(v)
  BY <1>1, <1>5, <1>6 DEF KeptElsewhere
<1>15. \A w \in SubVaultIds : BookAt(w)'
  BY <1>0, <1>13, <1>14, OthersKeepBook
<1>16. SoundLoans' BY <1>0, <1>1 DEF SoundLoans
<1>17. NoOrphans'
  <2>1. \A l \in LoanIds : loan[l].status \in Uncleared =>
                               loan[l].sub_vault \in SubVaultIds \ {v}
    BY <1>0, <1>8 DEF SoundLoans, SoundNode, OpenLoans, Open
  <2>2. \A a \in asks : a.sub_vault \in SubVaultIds \ {v}
    BY <1>0, <1>8 DEF TypeOK, Ask, AsksOf
  <2>3. \A w \in SubVaultIds \ {v} : Exists(w) => Exists(w)'
    BY <1>5 DEF Exists
  <2> QED BY <1>0, <1>1, <2>1, <2>2, <2>3 DEF NoOrphans
<1> QED BY <1>4, <1>6, <1>15, <1>16, <1>17 DEF IInv

-----------------------------------------------------------------------------
(* Asks *)

\* A step that leaves the loans alone leaves what is counted over them alone.
LEMMA SameLoans ==
    ASSUME loan' = loan
    PROVE  /\ \A w : OpenLoans(w)' = OpenLoans(w)
           /\ \A kind, w : Total(kind, loan', w) = Total(kind, loan, w)
  BY DEF OpenLoans, Open

\* Resting or cancelling the ask of one sub-vault, with its counters set to what
\* the book then says.
LEMMA WriteAsk ==
    ASSUME IInv, NEW v \in SubVaultIds, Exists(v),
           UNCHANGED <<now, shareValue, next_id, position, loan, next_loan>>,
           UNCHANGED <<vaultAccount, lenderAccount, borrowerClaim, protocolClaim, dust>>,
           NEW n \in {0, 1}, n = Cardinality(AsksOf(v)'),
           asks' \subseteq Ask, OneAskEach',
           \A w \in SubVaultIds : w # v => AsksOf(w)' = AsksOf(w),
           \A a \in asks' : a \in asks \/ a.sub_vault = v,
           sub' = [sub EXCEPT ![v] = [sub[v] EXCEPT !.open_orders_count = n]],
           seat' = [seat EXCEPT ![v] = [seat[v] EXCEPT
                        !.open_lend_count = n + Cardinality(OpenLoans(v))]]
    PROVE  IInv'
<1> DEFINE x == [sub[v] EXCEPT !.open_orders_count = n]
           k == n + Cardinality(OpenLoans(v))
           y == [seat[v] EXCEPT !.open_lend_count = k]
<1>0. /\ TypeOK /\ \A w \in SubVaultIds : BookAt(w)
      /\ SoundLoans /\ OneAskEach /\ NoOrphans
  BY DEF IInv
<1>1. sub[v] \in SubVault /\ seat[v] \in ClaimedSeat /\ n \in Nat /\ k \in Nat
  BY <1>0, OpenLoansFinite, SMT DEF TypeOK
<1>2. /\ x \in SubVault
      /\ x.status = sub[v].status /\ x.open_orders_count = n
      /\ x.open_loans_count = sub[v].open_loans_count
      /\ x.total_shares = sub[v].total_shares
      /\ x.total_principal = sub[v].total_principal
      /\ x.total_assets = sub[v].total_assets
      /\ x.deployed_principal = sub[v].deployed_principal
      /\ x.encumbered_in_orders = sub[v].encumbered_in_orders
      /\ x.total_weighted_rate = sub[v].total_weighted_rate
      /\ x.total_weighted_net_rate = sub[v].total_weighted_net_rate
  BY <1>1, SMT DEF SubVault
<1> HIDE DEF k
<1>3. y \in ClaimedSeat /\ y.open_lend_count = k
  BY <1>1, SMT DEF ClaimedSeat
<1> HIDE DEF x, y
<1>4. sub' = [sub EXCEPT ![v] = x] /\ seat' = [seat EXCEPT ![v] = y]
  BY DEF x, y, k
<1>5. sub'[v] = x /\ seat'[v] = y
      /\ \A w \in SubVaultIds : w # v => sub'[w] = sub[w] /\ seat'[w] = seat[w]
  BY <1>0, <1>4 DEF TypeOK
<1>6. TypeOK'
  BY <1>0, <1>2, <1>3, <1>4 DEF TypeOK
<1>7. /\ \A w : OpenLoans(w)' = OpenLoans(w)
      /\ \A kind, w : Total(kind, loan', w) = Total(kind, loan, w)
  BY SameLoans
<1>8. KeptElsewhere(v)
  BY <1>5, <1>7 DEF KeptElsewhere
<1>9. BookAt(v) BY <1>0
<1>10. TotalsAt(v)'
  BY <1>2, <1>5, <1>7, <1>9 DEF TotalsAt, BookAt
<1>11. CountersAt(v)'
  BY <1>2, <1>3, <1>5, <1>7, <1>9 DEF CountersAt, BookAt, k
<1>12. ~(v >= next_id) BY <1>9, ExistsBelowNext
<1>13. SoundSub(x)
  BY <1>2, <1>9 DEF SoundSub, BookAt
<1>14. BookAt(v)'
  BY <1>2, <1>5, <1>9, <1>10, <1>11, <1>12, <1>13 DEF BookAt
<1>15. \A w \in SubVaultIds : BookAt(w)'
  BY <1>0, <1>8, <1>14, OthersKeepBook
<1>16. SoundLoans' BY <1>0 DEF SoundLoans
<1>17. NoOrphans'
  <2>1. \A w \in SubVaultIds : Exists(w) => Exists(w)'
    BY <1>2, <1>5 DEF Exists
  <2>2. \A l \in LoanIds : loan[l].status \in Uncleared =>
                               loan[l].sub_vault \in SubVaultIds
    BY <1>0 DEF SoundLoans, SoundNode
  <2>3. \A a \in asks : a.sub_vault \in SubVaultIds
    BY <1>0 DEF TypeOK, Ask
  <2>4. \A a \in asks' : Exists(a.sub_vault)'
    <3> SUFFICES ASSUME NEW a \in asks' PROVE Exists(a.sub_vault)'
      OBVIOUS
    <3>1. CASE a \in asks BY <1>0, <2>1, <2>3, <3>1 DEF NoOrphans
    <3>2. CASE a.sub_vault = v BY <2>1, <3>2
    <3> QED BY <3>1, <3>2
  <2> QED BY <1>0, <2>1, <2>2, <2>4 DEF NoOrphans
<1> QED BY <1>6, <1>15, <1>16, <1>17 DEF IInv

\* Resting the only ask of v.
LEMMA RestOne ==
    ASSUME OneAskEach, NEW v \in SubVaultIds, NEW rate \in Nat, asks \subseteq Ask,
           asks' = (asks \ AsksOf(v)) \cup {[sub_vault |-> v, rate |-> rate]}
    PROVE  /\ asks' \subseteq Ask /\ OneAskEach'
           /\ Cardinality(AsksOf(v)') = 1
           /\ \A w \in SubVaultIds : w # v => AsksOf(w)' = AsksOf(w)
           /\ \A a \in asks' : a \in asks \/ a.sub_vault = v
<1> DEFINE e == [sub_vault |-> v, rate |-> rate]
<1>1. e \in Ask /\ e.sub_vault = v BY DEF Ask
<1> HIDE DEF e
<1>2. asks' = (asks \ AsksOf(v)) \cup {e} BY DEF e
<1>3. asks' \subseteq Ask BY <1>1, <1>2
<1>4. AsksOf(v)' = {e} BY <1>1, <1>2 DEF AsksOf
<1>5. Cardinality(AsksOf(v)') = 1 BY <1>4, FS_Singleton
<1>6. \A w \in SubVaultIds : w # v => AsksOf(w)' = AsksOf(w)
  BY <1>1, <1>2 DEF AsksOf
<1>7. \A a \in asks' : a \in asks \/ a.sub_vault = v BY <1>1, <1>2
<1>8. OneAskEach'
  BY <1>1, <1>2 DEF OneAskEach, AsksOf
<1> QED BY <1>3, <1>5, <1>6, <1>7, <1>8

\* place_order_for_sub_vault keeps the invariant.
LEMMA PlaceOrderInv ==
    ASSUME IInv, NEW v \in SubVaultIds, NEW rate \in AskRates, PlaceOrderForSubVault(v, rate)
    PROVE  IInv'
<1>0. TypeOK /\ BookAt(v) /\ OneAskEach /\ asks \subseteq Ask /\ rate \in Nat
      /\ sub[v] \in SubVault /\ seat[v] \in ClaimedSeat
  BY LedgerAssumption DEF IInv, TypeOK
<1>1. Exists(v) /\ AsksOf(v) = {} BY DEF PlaceOrderForSubVault, Exists
<1>2. asks' = (asks \ AsksOf(v)) \cup {[sub_vault |-> v, rate |-> rate]}
  BY <1>1 DEF PlaceOrderForSubVault
<1>3. /\ asks' \subseteq Ask /\ OneAskEach' /\ Cardinality(AsksOf(v)') = 1
      /\ \A w \in SubVaultIds : w # v => AsksOf(w)' = AsksOf(w)
      /\ \A a \in asks' : a \in asks \/ a.sub_vault = v
  BY <1>0, <1>2, RestOne
<1>4. Cardinality(AsksOf(v)) = 0 /\ Cardinality(OpenLoans(v)) \in Nat
  BY <1>0, <1>1, AsksCount, OpenLoansFinite
<1>5. sub[v].open_orders_count + 1 = 1
      /\ seat[v].open_lend_count + 1 = 1 + Cardinality(OpenLoans(v))
  BY <1>0, <1>4, SMT DEF BookAt, CountersAt
<1>6. sub' = [sub EXCEPT ![v] = [sub[v] EXCEPT !.open_orders_count = 1]]
  <2>1. sub' = [sub EXCEPT ![v].open_orders_count = @ + 1] BY DEF PlaceOrderForSubVault
  <2>2. sub' = [sub EXCEPT ![v] = [sub[v] EXCEPT !.open_orders_count = sub[v].open_orders_count + 1]]
    BY <1>0, <2>1, SMT DEF TypeOK, SubVault
  <2> QED BY <1>5, <2>2
<1>7. seat' = [seat EXCEPT ![v] = [seat[v] EXCEPT
                    !.open_lend_count = 1 + Cardinality(OpenLoans(v))]]
  <2>1. seat' = [seat EXCEPT ![v].open_lend_count = @ + 1] BY DEF PlaceOrderForSubVault
  <2>2. seat' = [seat EXCEPT ![v] = [seat[v] EXCEPT !.open_lend_count = seat[v].open_lend_count + 1]]
    BY <1>0, <2>1, SMT DEF TypeOK, ClaimedSeat
  <2> QED BY <1>5, <2>2
<1>8. UNCHANGED <<now, shareValue, next_id, position, loan, next_loan>>
      /\ UNCHANGED <<vaultAccount, lenderAccount, borrowerClaim, protocolClaim, dust>>
  BY DEF PlaceOrderForSubVault
<1> QED BY <1>1, <1>3, <1>6, <1>7, <1>8, WriteAsk

\* update_order_for_sub_vault keeps the invariant.
LEMMA UpdateOrderInv ==
    ASSUME IInv, NEW v \in SubVaultIds, NEW rate \in AskRates, UpdateOrderForSubVault(v, rate)
    PROVE  IInv'
<1>0. TypeOK /\ BookAt(v) /\ OneAskEach /\ asks \subseteq Ask /\ rate \in Nat
      /\ sub[v] \in SubVault /\ seat[v] \in ClaimedSeat
  BY LedgerAssumption DEF IInv, TypeOK
<1>1. Exists(v) /\ AsksOf(v) # {} BY DEF UpdateOrderForSubVault, Exists
<1>2. asks' = (asks \ AsksOf(v)) \cup {[sub_vault |-> v, rate |-> rate]}
  BY DEF UpdateOrderForSubVault
<1>3. /\ asks' \subseteq Ask /\ OneAskEach' /\ Cardinality(AsksOf(v)') = 1
      /\ \A w \in SubVaultIds : w # v => AsksOf(w)' = AsksOf(w)
      /\ \A a \in asks' : a \in asks \/ a.sub_vault = v
  BY <1>0, <1>2, RestOne
<1>4. Cardinality(AsksOf(v)) = 1
  BY <1>0, <1>1, AsksCount
<1>5. sub[v].open_orders_count = 1
      /\ seat[v].open_lend_count = 1 + Cardinality(OpenLoans(v))
  BY <1>0, <1>4 DEF BookAt, CountersAt
<1>6. sub' = [sub EXCEPT ![v] = [sub[v] EXCEPT !.open_orders_count = 1]]
  <2>1. [sub[v] EXCEPT !.open_orders_count = 1] = sub[v]
    BY <1>0, <1>5, SMT DEF SubVault
  <2>2. sub' = sub BY DEF UpdateOrderForSubVault
  <2> QED BY <1>0, <2>1, <2>2 DEF TypeOK
<1>7. seat' = [seat EXCEPT ![v] = [seat[v] EXCEPT
                    !.open_lend_count = 1 + Cardinality(OpenLoans(v))]]
  <2> DEFINE k == 1 + Cardinality(OpenLoans(v))
  <2>0. seat[v].open_lend_count = k BY <1>5
  <2> HIDE DEF k
  <2>1. [seat[v] EXCEPT !.open_lend_count = k] = seat[v]
    BY <1>0, <2>0, SMT DEF ClaimedSeat
  <2>2. seat' = seat BY DEF UpdateOrderForSubVault
  <2> QED BY <1>0, <2>1, <2>2 DEF TypeOK, k
<1>8. UNCHANGED <<now, shareValue, next_id, position, loan, next_loan>>
      /\ UNCHANGED <<vaultAccount, lenderAccount, borrowerClaim, protocolClaim, dust>>
  BY DEF UpdateOrderForSubVault
<1> QED BY <1>1, <1>3, <1>6, <1>7, <1>8, WriteAsk

\* cancel_order_for_sub_vault keeps the invariant.
LEMMA CancelOrderInv ==
    ASSUME IInv, NEW v \in SubVaultIds, CancelOrderForSubVault(v)
    PROVE  IInv'
<1>0. TypeOK /\ BookAt(v) /\ OneAskEach /\ asks \subseteq Ask
      /\ sub[v] \in SubVault /\ seat[v] \in ClaimedSeat
  BY DEF IInv, TypeOK
<1>1. Exists(v) /\ AsksOf(v) # {} /\ asks' = asks \ AsksOf(v)
  BY DEF CancelOrderForSubVault
<1>2. AsksOf(v)' = {} BY <1>1 DEF AsksOf
<1>3. /\ asks' \subseteq Ask /\ Cardinality(AsksOf(v)') = 0
      /\ \A w \in SubVaultIds : w # v => AsksOf(w)' = AsksOf(w)
      /\ \A a \in asks' : a \in asks \/ a.sub_vault = v
  BY <1>0, <1>1, <1>2, FS_EmptySet DEF AsksOf
<1>4. OneAskEach' BY <1>0, <1>1 DEF OneAskEach
<1>5. Cardinality(AsksOf(v)) = 1 /\ Cardinality(OpenLoans(v)) \in Nat
  BY <1>0, <1>1, AsksCount, OpenLoansFinite
<1>6. sub[v].open_orders_count - 1 = 0
      /\ seat[v].open_lend_count - 1 = 0 + Cardinality(OpenLoans(v))
  BY <1>0, <1>5, SMT DEF BookAt, CountersAt
<1>7. sub' = [sub EXCEPT ![v] = [sub[v] EXCEPT !.open_orders_count = 0]]
  <2>1. sub' = [sub EXCEPT ![v].open_orders_count = @ - 1] BY DEF CancelOrderForSubVault
  <2>2. sub' = [sub EXCEPT ![v] = [sub[v] EXCEPT !.open_orders_count = sub[v].open_orders_count - 1]]
    BY <1>0, <2>1, SMT DEF TypeOK, SubVault
  <2> QED BY <1>6, <2>2
<1>8. seat' = [seat EXCEPT ![v] = [seat[v] EXCEPT
                    !.open_lend_count = 0 + Cardinality(OpenLoans(v))]]
  <2>1. seat' = [seat EXCEPT ![v].open_lend_count = @ - 1] BY DEF CancelOrderForSubVault
  <2>2. seat' = [seat EXCEPT ![v] = [seat[v] EXCEPT !.open_lend_count = seat[v].open_lend_count - 1]]
    BY <1>0, <2>1, SMT DEF TypeOK, ClaimedSeat
  <2> QED BY <1>6, <2>2
<1>9. UNCHANGED <<now, shareValue, next_id, position, loan, next_loan>>
      /\ UNCHANGED <<vaultAccount, lenderAccount, borrowerClaim, protocolClaim, dust>>
  BY DEF CancelOrderForSubVault
<1> QED BY <1>1, <1>3, <1>4, <1>7, <1>8, <1>9, WriteAsk

-----------------------------------------------------------------------------
(* Instructions that write one loan and its sub-vault *)

IsOpen(n) == n.status \in Uncleared

OpenBit(n) == IF IsOpen(n) THEN 1 ELSE 0

\* Writing node l, which counts for sub-vault v only, changes v's open loans by l.
LEMMA OpenLoansChange ==
    ASSUME NEW v, NEW l \in LoanIds, NEW n,
           loan \in [LoanIds -> MatchedLoan], loan' = [loan EXCEPT ![l] = n],
           IsOpen(loan[l]) => loan[l].sub_vault = v,
           IsOpen(n) => n.sub_vault = v
    PROVE  /\ \A w : w # v => OpenLoans(w)' = OpenLoans(w)
           /\ Cardinality(OpenLoans(v)') \in Nat
           /\ Cardinality(OpenLoans(v)') + OpenBit(loan[l])
                = Cardinality(OpenLoans(v)) + OpenBit(n)
<1> DEFINE rest == OpenLoans(v) \ {l}
<1>1. /\ loan'[l] = n
      /\ \A m \in LoanIds : m # l => loan'[m] = loan[m]
  OBVIOUS
<1>2. \A w : w # v => OpenLoans(w)' = OpenLoans(w)
  BY <1>1 DEF OpenLoans, Open, IsOpen
<1>3. IsFiniteSet(OpenLoans(v)) /\ Cardinality(OpenLoans(v)) \in Nat
  BY OpenLoansFinite
<1>4. IsFiniteSet(rest) /\ Cardinality(rest) \in Nat
      /\ Cardinality(rest) = IF l \in OpenLoans(v) THEN Cardinality(OpenLoans(v)) - 1
                                                   ELSE Cardinality(OpenLoans(v))
  BY <1>3, FS_RemoveElement, FS_CardinalityType
<1>5. l \in OpenLoans(v) <=> IsOpen(loan[l])
  BY DEF OpenLoans, Open, IsOpen
<1>6. Cardinality(rest) + OpenBit(loan[l]) = Cardinality(OpenLoans(v))
  BY <1>3, <1>4, <1>5, SMT DEF OpenBit
<1>7. CASE IsOpen(n)
  <2>1. OpenLoans(v)' = rest \cup {l}
    BY <1>1, <1>7 DEF OpenLoans, Open, IsOpen
  <2>2. Cardinality(OpenLoans(v)') = Cardinality(rest) + 1
    BY <1>4, <2>1, FS_AddElement
  <2>3. OpenBit(n) = 1 BY <1>7 DEF OpenBit
  <2>4. OpenBit(loan[l]) \in Nat BY DEF OpenBit
  <2> HIDE DEF rest
  <2> QED BY <1>2, <1>3, <1>4, <1>6, <2>2, <2>3, <2>4, SMT
<1>8. CASE ~IsOpen(n)
  <2>1. OpenLoans(v)' = rest
    BY <1>1, <1>8 DEF OpenLoans, Open, IsOpen
  <2>2. OpenBit(n) = 0 BY <1>8 DEF OpenBit
  <2>3. OpenBit(loan[l]) \in Nat BY DEF OpenBit
  <2> HIDE DEF rest
  <2> QED BY <1>2, <1>3, <1>4, <1>6, <2>1, <2>2, <2>3, SMT
<1> QED BY <1>7, <1>8

\* When node l is the only written one that counts for a total, the total changes by
\* what that node contributes.
LEMMA TotalStep ==
    ASSUME NEW kind, NEW v, NEW l \in LoanIds,
           \A x \in LoanIds : GoodNode(loan[x]) /\ GoodNode(loan'[x]),
           \A x \in LoanIds : x # l => PartOf(kind, loan'[x], v) = PartOf(kind, loan[x], v)
    PROVE  /\ Total(kind, loan, v) \in Nat
           /\ PartOf(kind, loan[l], v) \in Nat
           /\ PartOf(kind, loan'[l], v) \in Nat
           /\ PartOf(kind, loan[l], v) <= Total(kind, loan, v)
           /\ Total(kind, loan', v)
                = (Total(kind, loan, v) - PartOf(kind, loan[l], v)) + PartOf(kind, loan'[l], v)
<1> DEFINE f == [x \in LoanIds |-> PartOf(kind, loan[x], v)]
           g == [x \in LoanIds |-> PartOf(kind, loan'[x], v)]
<1>1. \A x \in LoanIds : f[x] \in Nat /\ g[x] \in Nat
  BY PartTyped
<1>2. \A x \in LoanIds : x # l => f[x] = g[x]
  OBVIOUS
<1>3. f[l] = PartOf(kind, loan[l], v) /\ g[l] = PartOf(kind, loan'[l], v)
  OBVIOUS
<1>4. Total(kind, loan, v) = Sum(LoanIds, f) /\ Total(kind, loan', v) = Sum(LoanIds, g)
  BY DEF Total
<1> HIDE DEF f, g
<1>5. Sum(LoanIds, f) \in Nat
  BY <1>1, LoanIdsFinite, SumTyped
<1>6. f[l] <= Sum(LoanIds, f)
  BY <1>1, LoanIdsFinite, SumBound
<1>7. Sum(LoanIds, g) = (Sum(LoanIds, f) - f[l]) + g[l]
  BY <1>1, <1>2, LoanIdsFinite, SumChange
<1>8. f[l] \in Nat /\ g[l] \in Nat
  BY <1>1
<1> QED BY <1>3, <1>4, <1>5, <1>6, <1>7, <1>8

\* The total of sub-vault s that kind names.
FigureOf(kind, s) ==
    CASE kind = "deployed"   -> s.deployed_principal
      [] kind = "encumbered" -> s.encumbered_in_orders
      [] kind = "weighted"   -> s.total_weighted_rate
      [] kind = "net"        -> s.total_weighted_net_rate

Kinds == {"deployed", "encumbered", "weighted", "net"}

\* x and y book, in the totals and counters of sub-vault v, that a node changed from
\* m to n.
Booked(v, m, n, x, y) ==
    /\ SoundSub(x)
    /\ x.status = sub[v].status /\ x.total_shares = sub[v].total_shares
    /\ \A kind \in Kinds :
          FigureOf(kind, x) = (FigureOf(kind, sub[v]) - PartOf(kind, m, v)) + PartOf(kind, n, v)
    /\ x.open_orders_count = sub[v].open_orders_count
    /\ x.open_loans_count + OpenBit(m) = sub[v].open_loans_count + OpenBit(n)
    /\ y \in ClaimedSeat
    /\ y.open_lend_count + OpenBit(m) = seat[v].open_lend_count + OpenBit(n)

\* Whose node it is.
NodeOf(n, v) == IsOpen(n) => n.sub_vault = v

AccountsTyped ==
    /\ vaultAccount \in Nat /\ lenderAccount \in Nat /\ borrowerClaim \in Nat
    /\ protocolClaim \in Nat /\ dust \in Nat

\* No sub-vault's shares change.
SharesKept == \A v \in SubVaultIds : sub'[v].total_shares = sub[v].total_shares

\* A step that writes one node and books it keeps the invariant.
LEMMA WriteLoan ==
    ASSUME IInv, NEW v \in SubVaultIds, NEW l \in LoanIds, NEW n, NEW x, NEW y, Exists(v),
           SoundNode(n, now), NodeOf(loan[l], v), NodeOf(n, v), Booked(v, loan[l], n, x, y),
           sub' = [sub EXCEPT ![v] = x], seat' = [seat EXCEPT ![v] = y],
           loan' = [loan EXCEPT ![l] = n],
           next_loan' \in Nat, next_loan <= next_loan', l < next_loan',
           UNCHANGED <<now, shareValue, next_id, position, asks>>, AccountsTyped'
    PROVE  IInv' /\ SharesKept
<1> USE DEF Booked, NodeOf, AccountsTyped
<1>0. /\ TypeOK /\ \A w \in SubVaultIds : BookAt(w)
      /\ SoundLoans /\ OneAskEach /\ NoOrphans /\ BookAt(v)
  BY DEF IInv
<1>1. /\ sub \in [SubVaultIds -> SubVault] /\ x \in SubVault
      /\ loan \in [LoanIds -> MatchedLoan] /\ n \in MatchedLoan
      /\ seat \in [SubVaultIds -> ClaimedSeat]
  BY <1>0 DEF TypeOK, SoundSub, SoundNode
<1>2. TypeOK'
  BY <1>0, <1>1 DEF TypeOK
<1>3. /\ sub'[v] = x /\ seat'[v] = y /\ loan'[l] = n
      /\ \A w \in SubVaultIds : w # v => sub'[w] = sub[w] /\ seat'[w] = seat[w]
      /\ \A m \in LoanIds : m # l => loan'[m] = loan[m]
  BY <1>1
<1>4. \A w : AsksOf(w)' = AsksOf(w) BY DEF AsksOf
<1>5. OneAskEach' BY <1>0 DEF OneAskEach
<1>6. /\ \A w : w # v => OpenLoans(w)' = OpenLoans(w)
      /\ Cardinality(OpenLoans(v)') \in Nat
      /\ Cardinality(OpenLoans(v)') + OpenBit(loan[l])
           = Cardinality(OpenLoans(v)) + OpenBit(n)
  BY <1>1, OpenLoansChange
<1>7. GoodNode(n) /\ \A m \in LoanIds : GoodNode(loan[m])
  BY <1>0 DEF SoundLoans, SoundNode, GoodNode
<1>8. \A kind, w :
         /\ Total(kind, loan, w) \in Nat
         /\ PartOf(kind, loan[l], w) \in Nat /\ PartOf(kind, n, w) \in Nat
         /\ Total(kind, loan', w)
              = (Total(kind, loan, w) - PartOf(kind, loan[l], w)) + PartOf(kind, n, w)
  <2>1. \A m \in LoanIds : GoodNode(loan[m]) /\ GoodNode(loan'[m])
    BY <1>3, <1>7
  <2>2. \A kind, w, m : m \in LoanIds /\ m # l =>
           PartOf(kind, loan'[m], w) = PartOf(kind, loan[m], w)
    BY <1>3
  <2>3. \A kind, w :
           /\ Total(kind, loan, w) \in Nat
           /\ PartOf(kind, loan[l], w) \in Nat /\ PartOf(kind, loan'[l], w) \in Nat
           /\ Total(kind, loan', w)
                = (Total(kind, loan, w) - PartOf(kind, loan[l], w)) + PartOf(kind, loan'[l], w)
    <3> TAKE kind, w
    <3>1. \A m \in LoanIds : m # l => PartOf(kind, loan'[m], w) = PartOf(kind, loan[m], w)
      BY <2>2
    <3> QED BY <2>1, <3>1, TotalStep, Zenon
  <2>4. loan'[l] = n BY <1>3
  <2> QED BY <2>3, <2>4, Zenon
<1>9. \A kind, w : w # v => Total(kind, loan', w) = Total(kind, loan, w)
  <2> SUFFICES ASSUME NEW kind, NEW w, w # v
               PROVE  Total(kind, loan', w) = Total(kind, loan, w)
    OBVIOUS
  <2>1. PartOf(kind, loan[l], w) = 0 /\ PartOf(kind, n, w) = 0
    BY DEF PartOf, CountedStatus, IsOpen, Uncleared, Drawn
  <2>2. Total(kind, loan', w) = (Total(kind, loan, w) - 0) + 0 /\ Total(kind, loan, w) \in Nat
    BY <1>8, <2>1
  <2> QED BY <2>2, SMT
<1>10. KeptElsewhere(v)
  BY <1>3, <1>4, <1>6, <1>9 DEF KeptElsewhere
<1>11. TotalsAt(v)'
  <2>1. \A kind \in Kinds : FigureOf(kind, sub[v]) = Total(kind, loan, v)
    BY <1>0 DEF BookAt, TotalsAt, FigureOf, Kinds
  <2>2. \A kind \in Kinds : FigureOf(kind, x) = Total(kind, loan', v)
    BY <1>8, <2>1
  <2>3. /\ x.deployed_principal = Total("deployed", loan', v)
        /\ x.encumbered_in_orders = Total("encumbered", loan', v)
        /\ x.total_weighted_rate = Total("weighted", loan', v)
        /\ x.total_weighted_net_rate = Total("net", loan', v)
    BY <2>2 DEF FigureOf, Kinds
  <2> QED BY <1>3, <2>3 DEF TotalsAt
<1>12. CountersAt(v)'
  <2> DEFINE c == Cardinality(OpenLoans(v))
             d == Cardinality(OpenLoans(v)')
             e == Cardinality(AsksOf(v))
             b == OpenBit(loan[l])
             f == OpenBit(n)
             p == x.open_loans_count
             q == y.open_lend_count
  <2>1. c \in Nat /\ d \in Nat /\ e \in Nat /\ b \in Nat /\ f \in Nat /\ p \in Nat /\ q \in Nat
    <3>1. b \in Nat /\ f \in Nat BY DEF OpenBit
    <3>2. e \in Nat BY <1>0, AsksCount
    <3>3. p \in Nat BY <1>1, SubFields
    <3>4. q \in Nat BY DEF ClaimedSeat
    <3> QED BY <1>6, <3>1, <3>2, <3>3, <3>4, OpenLoansFinite
  <2>2. p + b = c + f /\ q + b = (e + c) + f /\ d + b = c + f
        /\ x.open_orders_count = e
    BY <1>0, <1>6 DEF BookAt, CountersAt
  <2> HIDE DEF c, d, e, b, f, p, q
  <2>3. p = d /\ q = e + d
    BY <2>1, <2>2, SMT
  <2> QED BY <1>3, <1>4, <2>2, <2>3 DEF CountersAt, c, d, e, p, q
<1>13. ~(v >= next_id) BY <1>0, ExistsBelowNext
<1>14. BookAt(v)'
  BY <1>0, <1>3, <1>11, <1>12, <1>13 DEF BookAt
<1>15. \A w \in SubVaultIds : BookAt(w)'
  BY <1>0, <1>10, <1>14, OthersKeepBook
<1>16. SoundLoans'
  <2> SUFFICES ASSUME NEW m \in LoanIds
               PROVE  SoundNode(loan'[m], now) /\ (m >= next_loan' => loan'[m].status = "Unused")
    BY DEF SoundLoans
  <2>0. m \in Nat /\ next_loan \in Nat BY <1>0 DEF LoanIds, TypeOK
  <2>1. CASE m = l
    <3>1. ~(m >= next_loan') BY <2>0, <2>1, SMT
    <3> QED BY <1>3, <2>1, <3>1
  <2>2. CASE m # l
    <3>1. m >= next_loan' => m >= next_loan BY <2>0, SMT
    <3> QED BY <1>0, <1>3, <2>2, <3>1 DEF SoundLoans
  <2> QED BY <2>1, <2>2
<1>17. NoOrphans'
  <2>1. \A w \in SubVaultIds : Exists(w) => Exists(w)'
    BY <1>3 DEF Exists
  <2>2. \A m \in LoanIds : loan[m].status \in Uncleared =>
                               loan[m].sub_vault \in SubVaultIds
    BY <1>0 DEF SoundLoans, SoundNode
  <2>3. \A a \in asks : a.sub_vault \in SubVaultIds
    BY <1>0 DEF TypeOK, Ask
  <2>4. \A m \in LoanIds : loan'[m].status \in Uncleared =>
                               sub'[loan'[m].sub_vault].status \in {"Open", "Sunset"}
    <3> SUFFICES ASSUME NEW m \in LoanIds, loan'[m].status \in Uncleared
                 PROVE  sub'[loan'[m].sub_vault].status \in {"Open", "Sunset"}
      OBVIOUS
    <3>1. CASE m = l
      <4>1. loan'[m].sub_vault = v BY <1>3, <3>1 DEF IsOpen
      <4>2. sub'[v].status \in {"Open", "Sunset"} BY <1>3 DEF Exists
      <4> QED BY <4>1, <4>2
    <3>2. CASE m # l
      <4>1. loan'[m] = loan[m] BY <1>3, <3>2
      <4>2. Exists(loan[m].sub_vault) /\ loan[m].sub_vault \in SubVaultIds
        BY <1>0, <2>2, <4>1 DEF NoOrphans
      <4> QED BY <2>1, <4>1, <4>2 DEF Exists
    <3> QED BY <3>1, <3>2
  <2>5. \A a \in asks : Exists(a.sub_vault)'
    BY <1>0, <2>1, <2>3 DEF NoOrphans
  <2> QED BY <2>4, <2>5 DEF NoOrphans, Exists
<1>18. SharesKept BY <1>3 DEF SharesKept
<1> QED BY <1>2, <1>5, <1>15, <1>16, <1>17, <1>18 DEF IInv

\* What remains idle comes out of the principal.
LEMMA IdleWithinPrincipal ==
    ASSUME NEW s \in SubVault
    PROVE  /\ sub_vault_idle(s) \in Nat /\ sub_vault_idle(s) <= s.total_principal
           /\ MatchIdle(s) \in Nat /\ MatchIdle(s) <= s.total_principal
  BY SubFields, SMT DEF sub_vault_idle, MatchIdle, MARGINFI_ROUNDING_RESERVE, SatSub

\* A body before its promotion is a loan body.
LEMMA NewBody ==
    ASSUME NEW p \in Nat, NEW net \in Nat, NEW lr \in Nat, NEW br \in Nat, NEW cf \in Nat,
           NEW t \in Nat
    PROVE  new_from_matched_loan_with_lender(p, net, lr, br, cf, t) \in Loans
  BY DEF new_from_matched_loan_with_lender, Loans, LoanStates

\* The body of a loan that does not exist yet.
LEMMA NoBodyTyped == NoBody \in Loans
  BY NewBody DEF NoBody

\* A queued node is sound, whatever the ask, the bid and the fill.
LEMMA QueuedNode ==
    ASSUME NEW a \in Ask, NEW bid \in BidRates, NEW p \in Nat, NEW t
    PROVE  LET n == MatchedNode(a, bid, p)
           IN  /\ SoundNode(n, t) /\ n.status = "Queued"
               /\ n.sub_vault = a.sub_vault /\ n.principal = p
<1> DEFINE n == MatchedNode(a, bid, p)
           o == mul_div(p, OriginationBps, BPS_PER_UNIT)
           b == MaxOf(bid, a.rate + FeeFloorBps)
<1>1. a.sub_vault \in SubVaultIds /\ a.rate \in Nat BY DEF Ask
<1>2. o \in Nat
  BY LedgerAssumption, ScaleAssumption, MulDivTyped
<1>3. b \in Nat /\ a.rate <= b
  BY <1>1, LedgerAssumption, SMT DEF MaxOf
<1>4. CuratorFeeBps \in Nat /\ CuratorFeeBps <= BPS_PER_UNIT
  BY LedgerAssumption, ScaleAssumption, SMT
<1>5. n = [ status |-> "Queued", sub_vault |-> a.sub_vault, principal |-> p, origination |-> o,
            lender_rate |-> a.rate, borrower_rate |-> b, curator_fee |-> CuratorFeeBps,
            body |-> NoBody ]
  BY DEF MatchedNode
<1> HIDE DEF n, o, b
<1>6. /\ n \in MatchedLoan /\ n.status = "Queued" /\ n.sub_vault = a.sub_vault
      /\ n.principal = p /\ n.lender_rate = a.rate /\ n.borrower_rate = b
      /\ n.curator_fee = CuratorFeeBps
  BY <1>1, <1>2, <1>3, <1>4, <1>5, NoBodyTyped DEF MatchedLoan
<1>7. SoundNode(n, t)
  BY <1>1, <1>3, <1>4, <1>6 DEF SoundNode, Uncleared, Drawn
<1> QED BY <1>6, <1>7 DEF n

\* A fill encumbers what it takes from the sub-vault's idle principal.
LEMMA MatchFillInv ==
    ASSUME IInv, NEW a \in asks, NEW bid \in BidRates, NEW demand \in Demands,
           MatchFill(a, bid, demand)
    PROVE  IInv' /\ SharesKept
<1>0. /\ TypeOK /\ a \in Ask /\ SoundLoans /\ demand \in Nat
  BY LedgerAssumption DEF IInv, TypeOK
<1>1. PICK v \in SubVaultIds : v = a.sub_vault
  BY <1>0 DEF Ask
<1>2. PICK l \in LoanIds : l = next_loan
  BY DEF MatchFill
<1>s. PICK s : s = sub[v] OBVIOUS
<1> DEFINE fill == MinOf(demand, MatchIdle(s))
           n == MatchedNode(a, bid, fill)
           e == s.encumbered_in_orders + fill
           c == s.open_loans_count + 1
           x == [s EXCEPT !.encumbered_in_orders = e, !.open_loans_count = c]
           k == seat[v].open_lend_count + 1
           y == [seat[v] EXCEPT !.open_lend_count = k]
<1>3. /\ s \in SubVault /\ BookAt(v) /\ SoundSub(s) /\ seat[v] \in ClaimedSeat
      /\ seat[v].open_lend_count \in Nat
  BY <1>0, <1>s DEF IInv, TypeOK, BookAt, ClaimedSeat
<1>4. /\ s.status = "Open" /\ MatchIdle(s) > 0
      /\ loan' = [loan EXCEPT ![l] = n]
      /\ next_loan' = l + 1
      /\ UNCHANGED <<now, shareValue, next_id, position, asks>>
      /\ UNCHANGED <<vaultAccount, lenderAccount, borrowerClaim, protocolClaim, dust>>
  BY <1>1, <1>2, <1>s DEF MatchFill
<1>5. sub' = [sub EXCEPT ![v] = x] /\ seat' = [seat EXCEPT ![v] = y]
  <2>1. /\ sub' = [sub EXCEPT ![v] = Reserve(s, fill)]
        /\ seat' = [seat EXCEPT ![v].open_lend_count = @ + 1]
    <3>1. /\ sub' = [sub EXCEPT ![v] = Reserve(@, fill)]
          /\ seat' = [seat EXCEPT ![v].open_lend_count = @ + 1]
      BY <1>1, <1>s DEF MatchFill
    <3> QED BY <1>s, <3>1, Zenon
  <2>2. sub' = [sub EXCEPT ![v] = x]
    BY <2>1 DEF Reserve
  <2>3. seat' = [seat EXCEPT ![v] = y]
    BY <1>0, <2>1, SMT DEF TypeOK, ClaimedSeat
  <2> QED BY <2>2, <2>3
<1>6. fill \in Nat /\ e \in Nat /\ c \in Nat /\ k \in Nat
  <2>1. fill \in Nat BY <1>0, <1>3, IdleWithinPrincipal DEF MinOf
  <2> HIDE DEF fill
  <2> QED BY <1>3, <2>1, SubFields, SMT
<1> HIDE DEF fill
<1>7. /\ SoundNode(n, now) /\ n.status = "Queued" /\ n.sub_vault = v /\ n.principal = fill
  BY <1>0, <1>1, <1>6, QueuedNode
<1>8. loan[l].status = "Unused"
  <2>1. l >= next_loan BY <1>2, SMT DEF LoanIds
  <2> QED BY <1>0, <2>1 DEF SoundLoans
<1>9. s.total_shares # 0
  <2>1. MatchIdle(s) \in Nat /\ MatchIdle(s) <= s.total_principal /\ s.total_principal \in Nat
    BY <1>3, IdleWithinPrincipal, SubFields
  <2>2. s.total_principal # 0 BY <1>4, <2>1, SMT
  <2> QED BY <1>3, <2>2 DEF SoundSub
<1> HIDE DEF n, e, c, k
<1>10. x \in SubVault
  BY <1>3, <1>6, SubUpdate, Zenon
<1>11. /\ x.status = s.status /\ x.total_shares = s.total_shares
       /\ x.total_assets = s.total_assets /\ x.total_principal = s.total_principal
       /\ x.deployed_principal = s.deployed_principal /\ x.encumbered_in_orders = e
       /\ x.total_weighted_rate = s.total_weighted_rate
       /\ x.total_weighted_net_rate = s.total_weighted_net_rate
       /\ x.open_orders_count = s.open_orders_count /\ x.open_loans_count = c
  BY <1>3, SMT DEF SubVault
<1>12. y \in ClaimedSeat /\ y.open_lend_count = k
  BY <1>3, <1>6, SMT DEF ClaimedSeat
<1> HIDE DEF x, y
<1>13. SoundSub(x)
  BY <1>3, <1>9, <1>10, <1>11 DEF SoundSub
<1>14. OpenBit(loan[l]) = 0 /\ OpenBit(n) = 1
  BY <1>7, <1>8 DEF OpenBit, IsOpen, Uncleared, Drawn
<1>15. /\ x.open_loans_count + OpenBit(loan[l]) = s.open_loans_count + OpenBit(n)
       /\ y.open_lend_count + OpenBit(loan[l]) = seat[v].open_lend_count + OpenBit(n)
  BY <1>3, <1>6, <1>11, <1>12, <1>14, SubFields, SMT DEF c, k
<1>16. \A kind \in Kinds :
          FigureOf(kind, x) = (FigureOf(kind, s) - PartOf(kind, loan[l], v)) + PartOf(kind, n, v)
  <2>1. \A kind : PartOf(kind, loan[l], v) = 0
    BY <1>8 DEF PartOf, CountedStatus, Drawn
  <2>2. PartOf("encumbered", n, v) = fill
    BY <1>7 DEF PartOf, CountedStatus, Drawn
  <2>3. PartOf("deployed", n, v) = 0 /\ PartOf("weighted", n, v) = 0 /\ PartOf("net", n, v) = 0
    BY <1>7 DEF PartOf, CountedStatus, Drawn
  <2>4. /\ x.deployed_principal = (s.deployed_principal - 0) + 0
        /\ x.encumbered_in_orders = (s.encumbered_in_orders - 0) + fill
        /\ x.total_weighted_rate = (s.total_weighted_rate - 0) + 0
        /\ x.total_weighted_net_rate = (s.total_weighted_net_rate - 0) + 0
    BY <1>3, <1>6, <1>11, SubFields, SMT DEF e
  <2> QED BY <2>1, <2>2, <2>3, <2>4 DEF Kinds, FigureOf
<1>17. Booked(v, loan[l], n, x, y)
  BY <1>s, <1>11, <1>12, <1>13, <1>15, <1>16 DEF Booked
<1>18. next_loan' \in Nat /\ next_loan <= next_loan' /\ l < next_loan'
  BY <1>2, <1>4, SMT DEF LoanIds
<1>19. AccountsTyped'
  BY <1>0, <1>4 DEF TypeOK, AccountsTyped
<1>20. Exists(v) BY <1>s, <1>4 DEF Exists
<1>21. NodeOf(loan[l], v) /\ NodeOf(n, v)
  BY <1>7, <1>8 DEF IsOpen, NodeOf, Uncleared, Drawn
<1> QED BY <1>4, <1>5, <1>7, <1>17, <1>18, <1>19, <1>20, <1>21, WriteLoan, Zenon

-----------------------------------------------------------------------------
(* Promotion *)

\* What do_vault_settle takes out of the vault's account is there.
LEMMA SettleFacts ==
    ASSUME TypeOK, NEW p \in Nat
    PROVE  ActualAtoms(p) \in Nat /\ VaultAfterSettle(p) \in Nat
<1> DEFINE f == Shares(p + 1)
           c == CoverShares(p)
           va == vaultAccount
<1>1. shareValue \in Nat \ {0} /\ va \in Nat /\ p + 1 \in Nat
  BY ShareValuePositive, SMT DEF TypeOK
<1>2. f \in Nat /\ Paid(f) \in Nat
  <2>1. f \in Nat BY <1>1, MarginfiTyped
  <2> QED BY <2>1, MarginfiTyped
<1>3. c = IF Paid(f) < p + 1 THEN f + 1 ELSE f
  BY DEF CoverShares, amount_to_asset_shares_ceil, Shares, Paid
<1>4. Paid(va) \in Nat /\ Burned(va) \in Nat /\ Burned(va) <= va /\ Burned(va) = Shares(Paid(va))
  BY <1>1, MarginfiTyped DEF Burned, Shares
<1> HIDE DEF f, c, va
<1>5. c \in Nat BY <1>2, <1>3, SMT
<1>6. Paid(c) \in Nat /\ Burned(c) \in Nat /\ Burned(c) <= c BY <1>5, MarginfiTyped
<1>7. ASSUME ~DrainsVault(p) PROVE c <= va
  <2>1. p + 1 < Paid(va) BY <1>1, <1>4, <1>7, SMT DEF DrainsVault, va
  <2>2. f <= va
    <3>1. p + 1 <= Paid(va) BY <1>1, <1>4, <2>1, SMT
    <3>2. f <= Shares(Paid(va)) BY <1>1, <1>4, <3>1, SharesMonotone DEF Shares, f
    <3>3. Shares(Paid(va)) \in Nat BY <1>4
    <3> QED BY <1>1, <1>2, <1>4, <3>2, <3>3, SMT
  <2>3. CASE Paid(f) < p + 1
    <3>1. f # va BY <1>1, <1>2, <1>4, <2>1, <2>3, SMT
    <3> QED BY <1>1, <1>2, <1>3, <2>2, <2>3, <3>1, SMT
  <2>4. CASE ~(Paid(f) < p + 1)
    BY <1>3, <2>2, <2>4
  <2> QED BY <2>3, <2>4
<1>8. ActualAtoms(p) \in Nat BY <1>4, <1>6 DEF ActualAtoms, va, c
<1>9. VaultAfterSettle(p) \in Nat
  <2>1. CASE DrainsVault(p) BY <2>1 DEF VaultAfterSettle
  <2>2. CASE ~DrainsVault(p)
    <3>1. VaultAfterSettle(p) = va - Burned(c) BY <2>2 DEF VaultAfterSettle, va, c
    <3> QED BY <1>1, <1>5, <1>6, <1>7, <2>2, <3>1, SMT
  <2> QED BY <2>1, <2>2
<1> QED BY <1>8, <1>9

\* A promotion moves the fill from encumbered to deployed, weighted, and writes the
\* surplus off assets and principal alike.
LEMMA DeployFacts ==
    ASSUME NEW s, SoundSub(s), NEW n, GoodNode(n), NEW surplus \in Nat, s.total_shares # 0,
           s.encumbered_in_orders >= n.principal, s.total_principal >= surplus
    PROVE  LET x == Deploy(s, n, surplus)
           IN  /\ SoundSub(x) /\ x.status = s.status /\ x.total_shares = s.total_shares
               /\ x.open_orders_count = s.open_orders_count
               /\ x.open_loans_count = s.open_loans_count
               /\ x.deployed_principal = s.deployed_principal + n.principal
               /\ x.encumbered_in_orders = s.encumbered_in_orders - n.principal
               /\ x.total_weighted_rate = s.total_weighted_rate + WeightedOf(n)
               /\ x.total_weighted_net_rate = s.total_weighted_net_rate + NetWeightedOf(n)
<1> DEFINE d == s.deployed_principal + n.principal
           w == s.total_weighted_rate + WeightedOf(n)
           r == s.total_weighted_net_rate + NetWeightedOf(n)
           e == s.encumbered_in_orders - n.principal
           t == [s EXCEPT !.deployed_principal = d, !.total_weighted_rate = w,
                          !.total_weighted_net_rate = r, !.encumbered_in_orders = e]
           p == s.total_principal - surplus
           a == s.total_assets - surplus
           u == [t EXCEPT !.total_principal = p, !.total_assets = a]
           x == Deploy(s, n, surplus)
<1>0. s \in SubVault /\ n.principal \in Nat /\ WeightedOf(n) \in Nat /\ NetWeightedOf(n) \in Nat
  BY PartTyped DEF SoundSub, GoodNode, MatchedLoan
<1>1. d \in Nat /\ w \in Nat /\ r \in Nat /\ e \in Nat /\ p \in Nat /\ a \in Nat
  BY <1>0, SubFields, SMT DEF SoundSub
<1>2. x = IF surplus = 0 THEN t ELSE restore_assets_principal_invariant(u)
  <2>1. s.total_assets \in Nat BY <1>0, SubFields
  <2>2. x = IF surplus = 0 THEN t
            ELSE restore_assets_principal_invariant(
                   [t EXCEPT !.total_principal = @ - surplus, !.total_assets = @ - surplus])
    BY DEF Deploy, WeightedOf, NetWeightedOf
  <2> HIDE DEF d, w, r, e
  <2>3. [t EXCEPT !.total_principal = @ - surplus, !.total_assets = @ - surplus] = u
    BY <1>0, SMT DEF SubVault
  <2> HIDE DEF t, u
  <2> QED BY <2>2, <2>3
<1> HIDE DEF d, w, r, e, p, a, x
<1>3. t \in SubVault
  BY <1>0, <1>1, SubUpdate, Zenon
<1>4. /\ t.status = s.status /\ t.total_shares = s.total_shares
      /\ t.total_assets = s.total_assets /\ t.total_principal = s.total_principal
      /\ t.open_orders_count = s.open_orders_count /\ t.open_loans_count = s.open_loans_count
      /\ t.deployed_principal = d /\ t.encumbered_in_orders = e
      /\ t.total_weighted_rate = w /\ t.total_weighted_net_rate = r
  BY <1>0, SMT DEF SubVault
<1>5. u \in SubVault
  <2> HIDE DEF t
  <2> QED BY <1>1, <1>3, SubUpdate, Zenon
<1>6. /\ u.status = t.status /\ u.total_shares = t.total_shares
      /\ u.open_orders_count = t.open_orders_count /\ u.open_loans_count = t.open_loans_count
      /\ u.deployed_principal = t.deployed_principal
      /\ u.encumbered_in_orders = t.encumbered_in_orders
      /\ u.total_weighted_rate = t.total_weighted_rate
      /\ u.total_weighted_net_rate = t.total_weighted_net_rate
  <2> HIDE DEF t
  <2> QED BY <1>3, SMT DEF SubVault
<1> HIDE DEF t, u
<1>7. /\ x \in SubVault /\ x.total_assets >= x.total_principal
      /\ x.status = s.status /\ x.total_shares = s.total_shares
      /\ x.open_orders_count = s.open_orders_count /\ x.open_loans_count = s.open_loans_count
      /\ x.deployed_principal = d /\ x.encumbered_in_orders = e
      /\ x.total_weighted_rate = w /\ x.total_weighted_net_rate = r
  <2>1. CASE surplus = 0
    <3>1. s.total_assets >= s.total_principal BY DEF SoundSub
    <3> QED BY <1>2, <1>3, <1>4, <2>1, <3>1
  <2>2. CASE surplus # 0
    <3>1. x = restore_assets_principal_invariant(u) BY <1>2, <2>2
    <3>2. x \in SubVault /\ SameBooks(u, x) /\ x.total_assets >= x.total_principal
      BY <1>5, <3>1, RestoreFacts
    <3> QED BY <1>4, <1>6, <3>2 DEF SameBooks
  <2> QED BY <2>1, <2>2
<1>8. SoundSub(x) BY <1>7 DEF SoundSub
<1> QED BY <1>7, <1>8 DEF d, e, w, r, x

\* Writing its status or its body keeps a node a node.
LEMMA NodeUpdate ==
    ASSUME NEW m \in MatchedLoan, NEW b \in Loans
    PROVE  /\ [m EXCEPT !.status = "Active"] \in MatchedLoan
           /\ [m EXCEPT !.body = b] \in MatchedLoan
<1>1. [m EXCEPT !.status = "Active"] \in MatchedLoan
  BY SMT DEF MatchedLoan
<1>2. [m EXCEPT !.body = b] \in MatchedLoan
  BY SMT DEF MatchedLoan
<1> QED BY <1>1, <1>2

\* A promoted node is sound: the loan account starts with the node's terms.
LEMMA PromotedNode ==
    ASSUME NEW m, NEW t \in Nat, SoundNode(m, t), m.status = "Queued",
           net_principal(m.principal, m.origination) > 0
    PROVE  LET b == new_from_matched_loan_with_lender(m.principal,
                        net_principal(m.principal, m.origination), m.lender_rate,
                        m.borrower_rate, m.curator_fee, t)
               n == [m EXCEPT !.status = "Active", !.body = b]
           IN  /\ SoundNode(n, t) /\ n.status = "Active" /\ n.sub_vault = m.sub_vault
               /\ n.principal = m.principal /\ n.lender_rate = m.lender_rate
               /\ n.curator_fee = m.curator_fee
<1> DEFINE net == net_principal(m.principal, m.origination)
           b == new_from_matched_loan_with_lender(m.principal, net, m.lender_rate,
                                                  m.borrower_rate, m.curator_fee, t)
           n == [m EXCEPT !.status = "Active", !.body = b]
<1>1. /\ m \in MatchedLoan /\ m.principal \in Nat /\ m.origination \in Nat
      /\ m.lender_rate \in Nat /\ m.borrower_rate \in Nat /\ m.curator_fee \in Nat
  BY DEF SoundNode, MatchedLoan
<1>2. net \in Nat /\ net > 0 /\ m.principal > 0
  BY <1>1, SMT DEF net_principal
<1> HIDE DEF net
<1>3. b \in Loans
  BY <1>1, <1>2, NewBody
<1>4. /\ b.principal_debt = m.principal /\ b.lender_rate = m.lender_rate
      /\ b.borrower_rate = m.borrower_rate /\ b.started_at = t
      /\ b.curator_fee = m.curator_fee /\ b.last_accrued = t
      /\ b.state = "Active" /\ b.outstanding_debt = net
  BY DEF new_from_matched_loan_with_lender
<1> HIDE DEF b
<1>5. TermsOK(b)
  <2>1. t <= t BY SMT
  <2> QED BY <1>4, <2>1 DEF TermsOK, SoundNode
<1>6. n \in MatchedLoan
  BY <1>1, <1>3, NodeUpdate, Zenon
<1>7. /\ n.status = "Active" /\ n.sub_vault = m.sub_vault /\ n.principal = m.principal
      /\ n.lender_rate = m.lender_rate /\ n.borrower_rate = m.borrower_rate
      /\ n.curator_fee = m.curator_fee /\ n.body = b
  BY <1>1, SMT DEF MatchedLoan
<1> HIDE DEF n
<1>8. t <= t BY SMT
<1>9. SoundNode(n, t)
  BY <1>2, <1>4, <1>5, <1>6, <1>7, <1>8 DEF SoundNode, Uncleared, Drawn
<1> QED BY <1>7, <1>9 DEF n, b, net

\* A promotion moves its fill between the totals and opens the loan account.
LEMMA ProcessMatchedLoanInv ==
    ASSUME IInv, NEW l \in LoanIds, ProcessMatchedLoan(l)
    PROVE  IInv' /\ SharesKept
<1>0. TypeOK /\ SoundLoans /\ now \in Nat
  BY DEF IInv, TypeOK
<1>1. PICK m : m = loan[l] OBVIOUS
<1>2. /\ SoundNode(m, now) /\ m.status = "Queued" /\ GoodNode(m)
      /\ net_principal(m.principal, m.origination) > 0
      /\ m.principal \in Nat /\ m.origination \in Nat
  BY <1>0, <1>1 DEF SoundLoans, SoundNode, GoodNode, MatchedLoan, ProcessMatchedLoan
<1>3. PICK v \in SubVaultIds : v = m.sub_vault
  BY <1>2 DEF SoundNode, Uncleared, Drawn
<1>4. PICK s : s = accrue_sub_vault(sub[v], now, shareValue) OBVIOUS
<1> DEFINE surplus == ActualAtoms(m.principal) - m.principal
           net == net_principal(m.principal, m.origination)
           b == new_from_matched_loan_with_lender(m.principal, net, m.lender_rate,
                                                  m.borrower_rate, m.curator_fee, now)
           n == [m EXCEPT !.status = "Active", !.body = b]
           x == Deploy(s, m, surplus)
           y == seat[v]
<1>5. /\ Exists(v) /\ CanAccrue(sub[v], now)
      /\ s.encumbered_in_orders >= m.principal
      /\ s.total_principal >= surplus
      /\ ActualAtoms(m.principal) >= m.principal
      /\ sub' = [sub EXCEPT ![v] = x]
      /\ vaultAccount' = VaultAfterSettle(m.principal)
      /\ lenderAccount' = lenderAccount + Shares(m.principal)
      /\ borrowerClaim' = borrowerClaim + Shares(net)
      /\ protocolClaim' = protocolClaim + Shares(m.origination)
      /\ UNCHANGED <<now, shareValue, next_id, position, asks, seat, next_loan, dust>>
  BY <1>1, <1>3, <1>4 DEF ProcessMatchedLoan
<1>6. loan' = [loan EXCEPT ![l] = n]
  <2>1. loan' = [loan EXCEPT ![l].status = "Active", ![l].body = b]
    BY <1>1 DEF ProcessMatchedLoan
  <2> HIDE DEF b
  <2>2. loan \in [LoanIds -> MatchedLoan] BY <1>0 DEF TypeOK
  <2> QED BY <1>1, <2>1, <2>2, Zenon
<1>7. seat' = [seat EXCEPT ![v] = y]
  BY <1>0, <1>5, SMT DEF TypeOK
<1>8. /\ SoundNode(n, now) /\ n.status = "Active" /\ n.sub_vault = v
      /\ n.principal = m.principal /\ n.lender_rate = m.lender_rate
      /\ n.curator_fee = m.curator_fee
  BY <1>0, <1>2, <1>3, PromotedNode
<1>9. net \in Nat /\ m.principal > 0
  BY <1>2, SMT DEF net_principal
<1> HIDE DEF net, b, n
<1>10. ActualAtoms(m.principal) \in Nat /\ VaultAfterSettle(m.principal) \in Nat
  BY <1>0, <1>2, SettleFacts
<1>11. surplus \in Nat
  BY <1>2, <1>5, <1>10, SMT
<1> HIDE DEF surplus
<1>12. SoundSub(sub[v]) /\ y \in ClaimedSeat /\ y.open_lend_count \in Nat
  BY <1>0 DEF IInv, BookAt, TypeOK, ClaimedSeat
<1>13. SoundSub(s) /\ SameBooks(sub[v], s)
  BY <1>0, <1>4, <1>5, <1>12, AccrueSub, ShareValuePositive
<1>14. s.total_shares # 0
  <2>1. s \in SubVault BY <1>13 DEF SoundSub
  <2>2. s.encumbered_in_orders # 0 BY <1>2, <1>5, <1>9, <2>1, SubFields, SMT
  <2> QED BY <1>13, <2>2 DEF SoundSub
<1>15. /\ SoundSub(x) /\ x.status = s.status /\ x.total_shares = s.total_shares
       /\ x.open_orders_count = s.open_orders_count
       /\ x.open_loans_count = s.open_loans_count
       /\ x.deployed_principal = s.deployed_principal + m.principal
       /\ x.encumbered_in_orders = s.encumbered_in_orders - m.principal
       /\ x.total_weighted_rate = s.total_weighted_rate + WeightedOf(m)
       /\ x.total_weighted_net_rate = s.total_weighted_net_rate + NetWeightedOf(m)
  BY <1>2, <1>5, <1>11, <1>13, <1>14, DeployFacts
<1> HIDE DEF x
<1>16. sub[v] \in SubVault BY <1>12 DEF SoundSub
<1>17. OpenBit(m) = 1 /\ OpenBit(n) = 1
  BY <1>2, <1>8 DEF OpenBit, IsOpen, Uncleared, Drawn
<1>18. /\ x.open_loans_count + OpenBit(m) = sub[v].open_loans_count + OpenBit(n)
       /\ y.open_lend_count + OpenBit(m) = seat[v].open_lend_count + OpenBit(n)
  BY <1>13, <1>15, <1>17 DEF SameBooks
<1>19. \A kind \in Kinds :
          FigureOf(kind, x) = (FigureOf(kind, sub[v]) - PartOf(kind, m, v)) + PartOf(kind, n, v)
  <2>1. /\ PartOf("encumbered", m, v) = m.principal /\ PartOf("deployed", m, v) = 0
        /\ PartOf("weighted", m, v) = 0 /\ PartOf("net", m, v) = 0
    BY <1>2, <1>3 DEF PartOf, CountedStatus, Drawn
  <2>2. WeightedOf(n) = WeightedOf(m) /\ NetWeightedOf(n) = NetWeightedOf(m)
    BY <1>8 DEF WeightedOf, NetWeightedOf
  <2>3. /\ PartOf("encumbered", n, v) = 0 /\ PartOf("deployed", n, v) = m.principal
        /\ PartOf("weighted", n, v) = WeightedOf(m) /\ PartOf("net", n, v) = NetWeightedOf(m)
    BY <1>8, <2>2 DEF PartOf, CountedStatus, Drawn
  <2>4. WeightedOf(m) \in Nat /\ NetWeightedOf(m) \in Nat
    BY <1>2, PartTyped
  <2>5. /\ x.deployed_principal = (sub[v].deployed_principal - 0) + m.principal
        /\ x.encumbered_in_orders = (sub[v].encumbered_in_orders - m.principal) + 0
        /\ x.total_weighted_rate = (sub[v].total_weighted_rate - 0) + WeightedOf(m)
        /\ x.total_weighted_net_rate = (sub[v].total_weighted_net_rate - 0) + NetWeightedOf(m)
    BY <1>2, <1>13, <1>15, <1>16, <2>4, SubFields, SMT DEF SameBooks
  <2> QED BY <2>1, <2>3, <2>5 DEF Kinds, FigureOf
<1>20. Booked(v, m, n, x, y)
  BY <1>12, <1>13, <1>15, <1>18, <1>19 DEF Booked, SameBooks
<1>21. next_loan' \in Nat /\ next_loan <= next_loan' /\ l < next_loan'
  <2>1. l \in Nat /\ next_loan \in Nat BY <1>0 DEF LoanIds, TypeOK
  <2>2. ~(l >= next_loan) BY <1>0, <1>1, <1>2 DEF SoundLoans
  <2> QED BY <1>5, <2>1, <2>2, SMT
<1>22. AccountsTyped'
  <2>1. Shares(m.principal) \in Nat /\ Shares(net) \in Nat /\ Shares(m.origination) \in Nat
    BY <1>0, <1>2, <1>9, MarginfiTyped
  <2> QED BY <1>0, <1>5, <1>10, <2>1, SMT DEF TypeOK, AccountsTyped
<1>23. NodeOf(m, v) /\ NodeOf(n, v)
  BY <1>3, <1>8 DEF NodeOf
<1>24. UNCHANGED <<now, shareValue, next_id, position, asks>> BY <1>5
<1> HIDE DEF y
<1> QED BY <1>1, <1>5, <1>6, <1>7, <1>8, <1>20, <1>21, <1>22, <1>23, <1>24, WriteLoan, Zenon

\* The promotion of a presettled node changes no total and no counter: it was counted
\* as deployed, with its rates, from the conversion on.
LEMMA ProcessPresettledLoanInv ==
    ASSUME IInv, NEW l \in LoanIds, ProcessPresettledLoan(l)
    PROVE  IInv' /\ SharesKept
<1>0. TypeOK /\ SoundLoans /\ NoOrphans /\ now \in Nat
  BY DEF IInv, TypeOK
<1>1. PICK m : m = loan[l] OBVIOUS
<1> DEFINE n == [m EXCEPT !.status = "Active"]
<1>2. SoundNode(m, now) /\ m.status = "Presettled" /\ m \in MatchedLoan
  BY <1>0, <1>1 DEF SoundLoans, SoundNode, ProcessPresettledLoan
<1>3. PICK v \in SubVaultIds : v = m.sub_vault
  BY <1>2 DEF SoundNode, Uncleared, Drawn
<1>4. Exists(v)
  BY <1>0, <1>1, <1>2, <1>3 DEF NoOrphans, Uncleared, Drawn
<1>5. /\ n.status = "Active" /\ n.sub_vault = v /\ n.principal = m.principal
      /\ n.lender_rate = m.lender_rate /\ n.borrower_rate = m.borrower_rate
      /\ n.curator_fee = m.curator_fee /\ n.body = m.body
  BY <1>2, <1>3, SMT DEF MatchedLoan
<1>6. n \in MatchedLoan
  BY <1>2, NodeUpdate DEF MatchedLoan
<1>7. /\ UNCHANGED <<now, shareValue, next_id, position, asks, seat, sub, next_loan>>
      /\ UNCHANGED <<vaultAccount, lenderAccount, borrowerClaim, protocolClaim, dust>>
  BY DEF ProcessPresettledLoan
<1>8. loan' = [loan EXCEPT ![l] = n]
  <2>1. loan' = [loan EXCEPT ![l].status = "Active"]
    BY DEF ProcessPresettledLoan
  <2> QED BY <1>1, <2>1, Zenon
<1> HIDE DEF n
<1>9. SoundNode(n, now)
  BY <1>2, <1>3, <1>5, <1>6 DEF SoundNode, Drawn
<1>10. sub' = [sub EXCEPT ![v] = sub[v]] /\ seat' = [seat EXCEPT ![v] = seat[v]]
  BY <1>0, <1>7, SMT DEF TypeOK
<1>11. OpenBit(m) = 1 /\ OpenBit(n) = 1
  BY <1>2, <1>5 DEF OpenBit, IsOpen, Uncleared, Drawn
<1>12. /\ SoundSub(sub[v]) /\ seat[v] \in ClaimedSeat
       /\ \A kind \in Kinds : FigureOf(kind, sub[v]) \in Nat
  <2>1. SoundSub(sub[v]) /\ seat[v] \in ClaimedSeat
    BY <1>0 DEF IInv, BookAt, TypeOK
  <2>2. sub[v] \in SubVault BY <2>1 DEF SoundSub
  <2> QED BY <2>1, <2>2, SubFields DEF Kinds, FigureOf
<1>13. \A kind : PartOf(kind, n, v) = PartOf(kind, m, v) /\ PartOf(kind, m, v) \in Nat
  <2> TAKE kind
  <2>1. WeightedOf(n) = WeightedOf(m) /\ NetWeightedOf(n) = NetWeightedOf(m)
    BY <1>5 DEF WeightedOf, NetWeightedOf
  <2>2. n.status \in CountedStatus(kind) <=> m.status \in CountedStatus(kind)
    BY <1>2, <1>5 DEF CountedStatus, Drawn
  <2>3. PartOf(kind, n, v) = PartOf(kind, m, v)
    BY <1>3, <1>5, <2>1, <2>2 DEF PartOf
  <2>4. GoodNode(m) BY <1>2 DEF SoundNode, GoodNode
  <2> QED BY <2>3, <2>4, PartTyped
<1>14. \A kind \in Kinds :
          FigureOf(kind, sub[v])
            = (FigureOf(kind, sub[v]) - PartOf(kind, m, v)) + PartOf(kind, n, v)
  <2>1. \A x, y \in Nat : x = (x - y) + y OBVIOUS
  <2> QED BY <1>12, <1>13, <2>1
<1>15. Booked(v, m, n, sub[v], seat[v])
  BY <1>11, <1>12, <1>14 DEF Booked
<1>16. next_loan' \in Nat /\ next_loan <= next_loan' /\ l < next_loan'
  <2>1. l \in Nat /\ next_loan \in Nat BY <1>0 DEF LoanIds, TypeOK
  <2>2. ~(l >= next_loan) BY <1>0, <1>1, <1>2 DEF SoundLoans
  <2> QED BY <1>7, <2>1, <2>2, SMT
<1>17. AccountsTyped'
  BY <1>0, <1>7 DEF TypeOK, AccountsTyped
<1>18. NodeOf(m, v) /\ NodeOf(n, v)
  BY <1>3, <1>5 DEF NodeOf
<1>19. UNCHANGED <<now, shareValue, next_id, position, asks>> BY <1>7
<1> QED BY <1>1, <1>4, <1>8, <1>9, <1>10, <1>15, <1>16, <1>17, <1>18, <1>19, WriteLoan, Zenon

-----------------------------------------------------------------------------
(* Conversion: one instruction that writes several sub-vaults and as many   *)
(* loans, all of them new.                                                   *)

\* A presettled node is sound: it carries the loan account it will become.
LEMMA PresettledNodeSound ==
    ASSUME NEW a \in Ask, NEW max_rate \in BidRates, NEW p \in Nat, p > 0, now \in Nat
    PROVE  LET n == PresettledNode(a, max_rate, p)
           IN  /\ SoundNode(n, now) /\ n.status = "Presettled"
               /\ n.sub_vault = a.sub_vault /\ n.principal = p
<1> DEFINE n == PresettledNode(a, max_rate, p)
           r == MaxOf(max_rate, a.rate + FeeFloorBps)
           b == new_from_matched_loan_with_lender(p, p, a.rate, r, CuratorFeeBps, now)
<1>1. a.sub_vault \in SubVaultIds /\ a.rate \in Nat BY DEF Ask
<1>2. r \in Nat /\ a.rate <= r
  BY <1>1, LedgerAssumption, SMT DEF MaxOf
<1>3. CuratorFeeBps \in Nat /\ CuratorFeeBps <= BPS_PER_UNIT
  BY LedgerAssumption, ScaleAssumption, SMT
<1>4. n = [ status |-> "Presettled", sub_vault |-> a.sub_vault, principal |-> p,
            origination |-> 0, lender_rate |-> a.rate, borrower_rate |-> r,
            curator_fee |-> CuratorFeeBps, body |-> b ]
  BY DEF PresettledNode
<1> HIDE DEF n, r
<1>5. b \in Loans
  BY <1>1, <1>2, <1>3, NewBody
<1>6. /\ b.principal_debt = p /\ b.lender_rate = a.rate /\ b.borrower_rate = r
      /\ b.curator_fee = CuratorFeeBps /\ b.started_at = now /\ b.last_accrued = now
      /\ b.state = "Active" /\ b.outstanding_debt = p
  BY DEF new_from_matched_loan_with_lender
<1> HIDE DEF b
<1>7. /\ n \in MatchedLoan /\ n.status = "Presettled" /\ n.sub_vault = a.sub_vault
      /\ n.principal = p /\ n.lender_rate = a.rate /\ n.borrower_rate = r
      /\ n.curator_fee = CuratorFeeBps /\ n.body = b
  BY <1>1, <1>2, <1>3, <1>4, <1>5 DEF MatchedLoan
<1>8. now <= now BY SMT
<1>9. TermsOK(b)
  BY <1>2, <1>3, <1>6, <1>8 DEF TermsOK
<1>10. SoundNode(n, now)
  BY <1>1, <1>2, <1>3, <1>6, <1>7, <1>8, <1>9 DEF SoundNode
<1> QED BY <1>7, <1>10 DEF n

\* x books on sub-vault s that it has lent node n, and that nothing is encumbered by it.
Lent(s, n, x) ==
    /\ SoundSub(x) /\ x.status = s.status /\ x.total_shares = s.total_shares
    /\ x.open_orders_count = s.open_orders_count
    /\ x.open_loans_count = s.open_loans_count + 1
    /\ x.deployed_principal = s.deployed_principal + n.principal
    /\ x.encumbered_in_orders = s.encumbered_in_orders
    /\ x.total_weighted_rate = s.total_weighted_rate + WeightedOf(n)
    /\ x.total_weighted_net_rate = s.total_weighted_net_rate + NetWeightedOf(n)

\* A crossed sub-vault pays what its ask gives at once: what the walk encumbers, the
\* settlement deploys.
LEMMA RefinancedFacts ==
    ASSUME TypeOK, NEW s, SoundSub(s), s.total_shares # 0, CanAccrue(s, now),
           NEW n, GoodNode(n)
    PROVE  Lent(s, n, Refinanced(s, n))
<1> DEFINE e == s.encumbered_in_orders + n.principal
           c == s.open_loans_count + 1
           u == [s EXCEPT !.encumbered_in_orders = e, !.open_loans_count = c]
           a == accrue_sub_vault(u, now, shareValue)
           x == Deploy(a, n, 0)
<1>0. s \in SubVault /\ n.principal \in Nat /\ shareValue \in Nat \ {0} /\ now \in Nat
  BY ShareValuePositive DEF SoundSub, GoodNode, MatchedLoan, TypeOK
<1>1. x = Refinanced(s, n)
  BY Zenon DEF Refinanced, Reserve
<1>2. e \in Nat /\ c \in Nat /\ s.encumbered_in_orders \in Nat
  BY <1>0, SubFields, SMT
<1> HIDE DEF e, c
<1>3. u \in SubVault
  BY <1>0, <1>2, SubUpdate, Zenon
<1>4. /\ u.status = s.status /\ u.total_shares = s.total_shares
      /\ u.total_assets = s.total_assets /\ u.total_principal = s.total_principal
      /\ u.deployed_principal = s.deployed_principal /\ u.encumbered_in_orders = e
      /\ u.total_weighted_rate = s.total_weighted_rate
      /\ u.total_weighted_net_rate = s.total_weighted_net_rate
      /\ u.open_orders_count = s.open_orders_count /\ u.open_loans_count = c
      /\ u.pending_claim = s.pending_claim /\ u.last_accrue = s.last_accrue
  BY <1>0, SMT DEF SubVault
<1> HIDE DEF u
<1>5. SoundSub(u) /\ CanAccrue(u, now)
  BY <1>3, <1>4 DEF SoundSub, CanAccrue, IdleFits
<1>6. SoundSub(a) /\ SameBooks(u, a)
  BY <1>0, <1>5, AccrueSub
<1>7. /\ a.total_shares # 0 /\ a.encumbered_in_orders = e
      /\ a.total_principal >= 0 /\ e >= n.principal
  <2>1. a.total_principal \in Nat BY <1>6, SubFields DEF SoundSub
  <2> QED BY <1>0, <1>2, <1>4, <1>6, <2>1, SMT DEF SameBooks, e
<1> HIDE DEF a
<1>8. /\ SoundSub(x) /\ x.status = a.status /\ x.total_shares = a.total_shares
      /\ x.open_orders_count = a.open_orders_count
      /\ x.open_loans_count = a.open_loans_count
      /\ x.deployed_principal = a.deployed_principal + n.principal
      /\ x.encumbered_in_orders = a.encumbered_in_orders - n.principal
      /\ x.total_weighted_rate = a.total_weighted_rate + WeightedOf(n)
      /\ x.total_weighted_net_rate = a.total_weighted_net_rate + NetWeightedOf(n)
  <2>1. 0 \in Nat OBVIOUS
  <2> QED BY <1>6, <1>7, <2>1, DeployFacts
<1> HIDE DEF x
<1>9. a.encumbered_in_orders - n.principal = s.encumbered_in_orders
  BY <1>0, <1>2, <1>7, SMT DEF e
<1>10. Lent(s, n, x) BY <1>4, <1>6, <1>8, <1>9 DEF Lent, SameBooks, c
<1> QED BY <1>1, <1>10

\* An ask gives a natural number of atoms, no more than its sub-vault can lend.
LEMMA CrossFillFacts ==
    ASSUME TypeOK, NEW n \in SubVaultIds, NEW order \in [1..n -> asks], NEW live \in Nat,
           NEW i \in 1..n
    PROVE  /\ CrossFill(order, live, i) \in Nat
           /\ CrossFill(order, live, i) <= MatchIdle(sub[order[i].sub_vault])
<1> DEFINE lendable == [j \in 1..n |-> MatchIdle(sub[order[j].sub_vault])]
           before == Sum(1..(i - 1), lendable)
<1>1. \A j \in 1..n : lendable[j] \in Nat
  <2> SUFFICES ASSUME NEW j \in 1..n PROVE MatchIdle(sub[order[j].sub_vault]) \in Nat
    OBVIOUS
  <2>1. order[j] \in Ask BY DEF TypeOK
  <2>2. sub[order[j].sub_vault] \in SubVault BY <2>1 DEF TypeOK, Ask
  <2> QED BY <2>2, IdleWithinPrincipal
<1>2. CrossFill(order, live, i) = MinOf(lendable[i], SatSub(live, before))
  <2>1. DOMAIN order = 1..n OBVIOUS
  <2> QED BY <2>1, Zenon DEF CrossFill
<1>3. lendable[i] = MatchIdle(sub[order[i].sub_vault]) OBVIOUS
<1> HIDE DEF lendable
<1>4. before \in Nat
  <2>1. n \in Nat /\ i \in Nat /\ 1..(i - 1) \subseteq 1..n
    BY SMT DEF SubVaultIds
  <2>2. IsFiniteSet(1..n) BY <2>1, FS_Interval
  <2>3. IsFiniteSet(1..(i - 1)) BY <2>1, <2>2, FS_Subset
  <2>4. \A j \in 1..(i - 1) : lendable[j] \in Nat BY <1>1, <2>1
  <2> QED BY <2>3, <2>4, SumTyped
<1> HIDE DEF before
<1> QED BY <1>1, <1>2, <1>3, <1>4, SMT DEF MinOf, SatSub

\* The step queues n sound nodes of as many sub-vaults at the next ids.
NewLoans(n, node) ==
    /\ n \in Nat
    /\ next_loan..(next_loan + n - 1) \subseteq LoanIds
    /\ \A i \in 1..n : SoundNode(node[i], now) /\ node[i].status = "Presettled"
    /\ \A i, j \in 1..n : i # j => node[i].sub_vault # node[j].sub_vault
    /\ loan' = [l \in LoanIds |-> IF l \in next_loan..(next_loan + n - 1)
                                  THEN node[l - next_loan + 1] ELSE loan[l]]

\* Each node is at an id of its own, unused before, and every other loan is kept.
LEMMA NewLoanAt ==
    ASSUME TypeOK, SoundLoans, NEW n, NEW node, NewLoans(n, node)
    PROVE  /\ \A i \in 1..n : /\ next_loan + i - 1 \in LoanIds
                              /\ loan[next_loan + i - 1].status = "Unused"
                              /\ loan'[next_loan + i - 1] = node[i]
           /\ \A l \in LoanIds : \/ loan'[l] = loan[l] /\ l \notin next_loan..(next_loan + n - 1)
                                 \/ \E i \in 1..n : l = next_loan + i - 1
<1>0. n \in Nat /\ next_loan \in Nat /\ next_loan..(next_loan + n - 1) \subseteq LoanIds
  BY DEF NewLoans, TypeOK
<1>1. PICK first \in Nat : first = next_loan BY <1>0
<1>2. ASSUME NEW i \in 1..n
      PROVE  /\ first + i - 1 \in LoanIds /\ loan[first + i - 1].status = "Unused"
             /\ loan'[first + i - 1] = node[i]
  <2>1. PICK l \in Nat : l = first + i - 1 BY <1>0
  <2>2. /\ l \in first..(first + n - 1) /\ l >= first /\ l - first + 1 = i
    BY <1>0, <2>1
  <2>3. l \in LoanIds BY <1>0, <1>1, <2>2
  <2>4. loan[l].status = "Unused" BY <1>1, <2>2, <2>3 DEF SoundLoans
  <2>5. loan'[l] = node[l - first + 1] BY <1>1, <2>2, <2>3 DEF NewLoans
  <2> QED BY <2>1, <2>2, <2>3, <2>4, <2>5
<1>3. ASSUME NEW l \in LoanIds
      PROVE  \/ loan'[l] = loan[l] /\ l \notin first..(first + n - 1)
             \/ \E i \in 1..n : l = first + i - 1
  <2>1. CASE l \in first..(first + n - 1)
    <3>1. l - first + 1 \in 1..n /\ l = first + (l - first + 1) - 1 BY <1>0, <2>1
    <3> QED BY <3>1
  <2>2. CASE l \notin first..(first + n - 1)
    BY <1>1, <2>2 DEF NewLoans
  <2> QED BY <2>1, <2>2
<1> QED BY <1>1, <1>2, <1>3

\* Every node was and stays a good one.
LEMMA NewLoansGood ==
    ASSUME TypeOK, SoundLoans, NEW n, NEW node, NewLoans(n, node)
    PROVE  \A l \in LoanIds : GoodNode(loan[l]) /\ GoodNode(loan'[l])
<1>1. \A l \in LoanIds : GoodNode(loan[l]) BY DEF SoundLoans, SoundNode, GoodNode
<1>2. \A i \in 1..n : GoodNode(node[i]) BY DEF NewLoans, SoundNode, GoodNode
<1>3. \A l \in LoanIds : loan'[l] = loan[l] \/ \E i \in 1..n : loan'[l] = node[i]
  BY NewLoanAt
<1> QED BY <1>1, <1>2, <1>3

\* An unused node, and one of another sub-vault, counts for nothing.
LEMMA NoPart ==
    ASSUME NEW m, NEW v, m.status = "Unused" \/ m.sub_vault # v
    PROVE  /\ ~IsOpen(m) \/ m.sub_vault # v
           /\ \A kind : PartOf(kind, m, v) = 0
  BY DEF PartOf, CountedStatus, IsOpen, Uncleared, Drawn

\* A sub-vault that no new node names keeps its totals and its open loans.
LEMMA NotCrossed ==
    ASSUME TypeOK, SoundLoans, NEW n, NEW node, NewLoans(n, node),
           NEW v, \A i \in 1..n : node[i].sub_vault # v
    PROVE  /\ OpenLoans(v)' = OpenLoans(v)
           /\ \A kind : Total(kind, loan', v) = Total(kind, loan, v)
<1>1. ASSUME NEW l \in LoanIds
      PROVE  /\ (IsOpen(loan'[l]) /\ loan'[l].sub_vault = v)
                  <=> (IsOpen(loan[l]) /\ loan[l].sub_vault = v)
             /\ \A kind : PartOf(kind, loan'[l], v) = PartOf(kind, loan[l], v)
  <2>1. CASE loan'[l] = loan[l] BY <2>1
  <2>2. CASE \E i \in 1..n : l = next_loan + i - 1
    <3>1. PICK i \in 1..n : l = next_loan + i - 1 BY <2>2
    <3>2. loan[l].status = "Unused" /\ loan'[l] = node[i] BY <3>1, NewLoanAt
    <3>3. loan'[l].sub_vault # v BY <3>2
    <3> QED BY <3>2, <3>3, NoPart DEF IsOpen, Uncleared, Drawn
  <2> QED BY <2>1, <2>2, NewLoanAt
<1>2. OpenLoans(v)' = OpenLoans(v)
  BY <1>1 DEF OpenLoans, Open, IsOpen
<1>3. ASSUME NEW kind PROVE Total(kind, loan', v) = Total(kind, loan, v)
  <2> DEFINE f == [l \in LoanIds |-> PartOf(kind, loan[l], v)]
             g == [l \in LoanIds |-> PartOf(kind, loan'[l], v)]
  <2>1. \A l \in LoanIds : g[l] = f[l] BY <1>1
  <2>2. Total(kind, loan, v) = Sum(LoanIds, f) /\ Total(kind, loan', v) = Sum(LoanIds, g)
    BY DEF Total
  <2> HIDE DEF f, g
  <2> QED BY <2>1, <2>2, SumSame
<1> QED BY <1>2, <1>3

\* The sub-vault that a new node names gains that node and no other.
LEMMA CrossedOnce ==
    ASSUME TypeOK, SoundLoans, NEW n, NEW node, NewLoans(n, node),
           NEW i \in 1..n, NEW v, node[i].sub_vault = v
    PROVE  /\ Cardinality(OpenLoans(v)') = Cardinality(OpenLoans(v)) + 1
           /\ \A kind : /\ PartOf(kind, node[i], v) \in Nat
                        /\ Total(kind, loan', v) = Total(kind, loan, v) + PartOf(kind, node[i], v)
<1>1. PICK l : l = next_loan + i - 1 OBVIOUS
<1>2. l \in LoanIds /\ loan[l].status = "Unused" /\ loan'[l] = node[i]
  BY <1>1, NewLoanAt
<1>3. IsOpen(loan'[l]) /\ loan'[l].sub_vault = v /\ ~IsOpen(loan[l])
  BY <1>2 DEF NewLoans, IsOpen, Uncleared, Drawn
<1>4. ASSUME NEW m \in LoanIds, m # l
      PROVE  /\ (IsOpen(loan'[m]) /\ loan'[m].sub_vault = v)
                  <=> (IsOpen(loan[m]) /\ loan[m].sub_vault = v)
             /\ \A kind : PartOf(kind, loan'[m], v) = PartOf(kind, loan[m], v)
  <2>1. CASE loan'[m] = loan[m] BY <2>1
  <2>2. CASE \E j \in 1..n : m = next_loan + j - 1
    <3>1. PICK j \in 1..n : m = next_loan + j - 1 BY <2>2
    <3>2. loan[m].status = "Unused" /\ loan'[m] = node[j] BY <3>1, NewLoanAt
    <3>3. j # i BY <1>1, <1>4, <3>1
    <3>4. loan'[m].sub_vault # v BY <3>2, <3>3 DEF NewLoans
    <3> QED BY <3>2, <3>4, NoPart DEF IsOpen, Uncleared, Drawn
  <2> QED BY <2>1, <2>2, NewLoanAt
<1>5. OpenLoans(v)' = OpenLoans(v) \cup {l} /\ l \notin OpenLoans(v)
  BY <1>2, <1>3, <1>4 DEF OpenLoans, Open, IsOpen
<1>6. Cardinality(OpenLoans(v)') = Cardinality(OpenLoans(v)) + 1
  BY <1>5, OpenLoansFinite, CardAdd
<1>7. ASSUME NEW kind
      PROVE  /\ PartOf(kind, node[i], v) \in Nat
             /\ Total(kind, loan', v) = Total(kind, loan, v) + PartOf(kind, node[i], v)
  <2>1. /\ Total(kind, loan, v) \in Nat
        /\ PartOf(kind, loan[l], v) \in Nat /\ PartOf(kind, loan'[l], v) \in Nat
        /\ Total(kind, loan', v)
             = (Total(kind, loan, v) - PartOf(kind, loan[l], v)) + PartOf(kind, loan'[l], v)
    <3>1. \A x \in LoanIds : x # l => PartOf(kind, loan'[x], v) = PartOf(kind, loan[x], v)
      BY <1>4
    <3>2. \A x \in LoanIds : GoodNode(loan[x]) /\ GoodNode(loan'[x]) BY NewLoansGood
    <3> QED BY <1>2, <3>1, <3>2, TotalStep, Zenon
  <2>2. PartOf(kind, loan[l], v) = 0 BY <1>2, NoPart
  <2>3. loan'[l] = node[i] BY <1>2
  <2> QED BY <2>1, <2>2, <2>3
<1> QED BY <1>6, <1>7

\* A conversion gives every sub-vault it crosses one deployed loan and leaves the
\* others alone.
LEMMA ConvertInv ==
    ASSUME IInv, NEW n \in SubVaultIds, NEW max_rate \in BidRates, NEW live \in Demands,
           NEW whole \in BOOLEAN, NEW order \in [1..n -> asks],
           ConvertP2PoolToFixed(order, max_rate, live, whole)
    PROVE  IInv' /\ SharesKept
<1> DEFINE fill == [i \in DOMAIN order |-> CrossFill(order, live, i)]
           node == [i \in DOMAIN order |-> PresettledNode(order[i], max_rate, fill[i])]
           at(v) == CHOOSE i \in DOMAIN order : order[i].sub_vault = v
           crossed == {order[i].sub_vault : i \in DOMAIN order}
           shares == FundingShares(live, whole)
<1>0. /\ TypeOK /\ SoundLoans /\ OneAskEach /\ NoOrphans /\ live \in Nat
      /\ \A v \in SubVaultIds : BookAt(v)
  BY LedgerAssumption DEF IInv
<1>1. n \in Nat /\ DOMAIN order = 1..n /\ Len(order) = n
  <2>1. n \in Nat BY SMT DEF SubVaultIds
  <2>2. order \in Seq(asks) BY <2>1
  <2> QED BY <2>1, <2>2
<1>2. /\ next_loan..(next_loan + Len(order) - 1) \subseteq LoanIds
      /\ \A i, j \in DOMAIN order : i < j => order[i].sub_vault # order[j].sub_vault
      /\ \A i \in DOMAIN order : /\ sub[order[i].sub_vault].status = "Open"
                                 /\ fill[i] > 0
                                 /\ CanAccrue(sub[order[i].sub_vault], now)
      /\ vaultAccount >= Burned(shares)
      /\ Paid(shares) >= live
      /\ sub' = [v \in SubVaultIds |->
                   IF v \in crossed THEN Refinanced(sub[v], node[at(v)]) ELSE sub[v]]
      /\ seat' = [v \in SubVaultIds |->
                    IF v \in crossed THEN [seat[v] EXCEPT !.open_lend_count = @ + 1]
                    ELSE seat[v]]
      /\ loan' = [l \in LoanIds |->
                    IF l \in next_loan..(next_loan + Len(order) - 1)
                    THEN node[l - next_loan + 1] ELSE loan[l]]
      /\ next_loan' = next_loan + Len(order)
      /\ vaultAccount' = vaultAccount - Burned(shares)
      /\ dust' = dust + (Paid(shares) - live)
      /\ UNCHANGED <<now, shareValue, next_id, position, asks>>
      /\ UNCHANGED <<lenderAccount, borrowerClaim, protocolClaim>>
  BY Zenon DEF ConvertP2PoolToFixed
<1>3. ASSUME NEW i \in 1..n
      PROVE  /\ order[i] \in Ask /\ order[i].sub_vault \in SubVaultIds
             /\ fill[i] \in Nat /\ fill[i] > 0
             /\ fill[i] <= MatchIdle(sub[order[i].sub_vault])
             /\ node[i] = PresettledNode(order[i], max_rate, fill[i])
  <2>1. order[i] \in Ask BY <1>0 DEF TypeOK
  <2>2. fill[i] = CrossFill(order, live, i)
        /\ node[i] = PresettledNode(order[i], max_rate, fill[i])
    BY <1>1
  <2> HIDE DEF fill, node
  <2> QED BY <1>0, <1>1, <1>2, <2>1, <2>2, CrossFillFacts DEF Ask
<1>4. \A i, j \in 1..n : i # j => order[i].sub_vault # order[j].sub_vault
  <2> SUFFICES ASSUME NEW i \in 1..n, NEW j \in 1..n, i # j
               PROVE  order[i].sub_vault # order[j].sub_vault
    OBVIOUS
  <2>1. i < j \/ j < i BY <1>1
  <2> QED BY <1>1, <1>2, <2>1
<1>5. ASSUME NEW i \in 1..n
      PROVE  /\ order[i].sub_vault \in crossed /\ at(order[i].sub_vault) = i
  <2>1. \A j \in DOMAIN order : order[j].sub_vault = order[i].sub_vault <=> j = i
    BY <1>1, <1>4
  <2> QED BY <1>1, <2>1
<1>6. \A v : v \in crossed => \E i \in 1..n : v = order[i].sub_vault
  BY <1>1
<1> HIDE DEF fill, node, at, crossed
<1>7. now \in Nat BY <1>0 DEF TypeOK
<1>8. ASSUME NEW i \in 1..n
      PROVE  /\ SoundNode(node[i], now) /\ node[i].status = "Presettled"
             /\ node[i].sub_vault = order[i].sub_vault /\ GoodNode(node[i])
  <2>1. /\ SoundNode(node[i], now) /\ node[i].status = "Presettled"
        /\ node[i].sub_vault = order[i].sub_vault
    BY <1>3, <1>7, PresettledNodeSound
  <2> QED BY <2>1 DEF SoundNode, GoodNode
<1>9. NewLoans(n, node)
  BY <1>1, <1>2, <1>4, <1>8 DEF NewLoans
<1>10. ASSUME NEW v \in SubVaultIds, v \notin crossed
       PROVE  /\ sub'[v] = sub[v] /\ seat'[v] = seat[v]
              /\ \A i \in 1..n : node[i].sub_vault # v
  BY <1>2, <1>5, <1>8, <1>10
<1>11. ASSUME NEW i \in 1..n, NEW v, v = order[i].sub_vault
       PROVE  /\ v \in SubVaultIds /\ SoundSub(sub[v]) /\ seat[v] \in ClaimedSeat
              /\ sub[v].status = "Open" /\ CanAccrue(sub[v], now)
              /\ sub[v].total_shares # 0
              /\ sub'[v] = Refinanced(sub[v], node[i])
              /\ seat'[v] = [seat[v] EXCEPT !.open_lend_count = @ + 1]
  <2>1. /\ v \in SubVaultIds /\ SoundSub(sub[v]) /\ seat[v] \in ClaimedSeat
        /\ sub[v] \in SubVault
    BY <1>0, <1>3, <1>11 DEF TypeOK, BookAt
  <2>2. sub[v].status = "Open" /\ CanAccrue(sub[v], now) BY <1>1, <1>2, <1>11
  <2>3. sub[v].total_principal \in Nat /\ sub[v].total_principal > 0
    <3>1. /\ fill[i] \in Nat /\ fill[i] > 0 /\ fill[i] <= MatchIdle(sub[v])
      BY <1>3, <1>11
    <3>2. /\ MatchIdle(sub[v]) \in Nat /\ MatchIdle(sub[v]) <= sub[v].total_principal
          /\ sub[v].total_principal \in Nat
      BY <2>1, IdleWithinPrincipal, SubFields
    <3> QED BY <3>1, <3>2, SMT
  <2>4. sub[v].total_shares # 0
    <3>1. sub[v].total_principal # 0 BY <2>3, SMT
    <3> QED BY <2>1, <3>1 DEF SoundSub
  <2>5. v \in crossed /\ at(v) = i BY <1>5, <1>11
  <2>6. /\ sub'[v] = Refinanced(sub[v], node[i])
        /\ seat'[v] = [seat[v] EXCEPT !.open_lend_count = @ + 1]
    BY <1>2, <2>1, <2>5, Zenon
  <2> QED BY <2>1, <2>2, <2>4, <2>6
<1>12. ASSUME NEW i \in 1..n, NEW v, v = order[i].sub_vault
       PROVE  Lent(sub[v], node[i], sub'[v]) /\ sub'[v].status = "Open"
  <2>1. /\ SoundSub(sub[v]) /\ sub[v].total_shares # 0 /\ CanAccrue(sub[v], now)
        /\ sub[v].status = "Open" /\ sub'[v] = Refinanced(sub[v], node[i])
    BY <1>11, <1>12
  <2>2. GoodNode(node[i]) BY <1>8
  <2>3. Lent(sub[v], node[i], sub'[v]) BY <1>0, <2>1, <2>2, RefinancedFacts, Zenon
  <2> QED BY <2>1, <2>3 DEF Lent
<1>13. ASSUME NEW i \in 1..n, NEW v, v = order[i].sub_vault
       PROVE  seat'[v] \in ClaimedSeat /\ seat'[v].open_lend_count = seat[v].open_lend_count + 1
  <2>1. PICK y \in ClaimedSeat : y = seat[v] BY <1>11, <1>13
  <2>2. seat'[v] = [y EXCEPT !.open_lend_count = @ + 1] BY <1>11, <1>13, <2>1
  <2> QED BY <2>1, <2>2, SMT DEF ClaimedSeat
<1>14. \A w : AsksOf(w)' = AsksOf(w) BY <1>2 DEF AsksOf
<1>15. ASSUME NEW v \in SubVaultIds, v \notin crossed PROVE BookAt(v)'
  <2>1. BookAt(v) BY <1>0
  <2>2. OpenLoans(v)' = OpenLoans(v) /\ \A kind : Total(kind, loan', v) = Total(kind, loan, v)
    BY <1>0, <1>9, <1>10, <1>15, NotCrossed
  <2>3. sub'[v] = sub[v] /\ seat'[v] = seat[v] /\ position' = position /\ next_id' = next_id
    BY <1>2, <1>10, <1>15
  <2>4. TotalsAt(v)' BY <2>1, <2>2, <2>3, Zenon DEF BookAt, TotalsAt
  <2>5. CountersAt(v)' BY <1>14, <2>1, <2>2, <2>3, Zenon DEF BookAt, CountersAt
  <2> QED BY <2>1, <2>3, <2>4, <2>5 DEF BookAt
<1>16. ASSUME NEW i \in 1..n, NEW v, v = order[i].sub_vault PROVE BookAt(v)'
  <2>1. BookAt(v) /\ v \in SubVaultIds BY <1>0, <1>11, <1>16
  <2>2. /\ Cardinality(OpenLoans(v)') = Cardinality(OpenLoans(v)) + 1
        /\ \A kind : /\ PartOf(kind, node[i], v) \in Nat
                     /\ Total(kind, loan', v) = Total(kind, loan, v) + PartOf(kind, node[i], v)
    BY <1>0, <1>8, <1>9, <1>16, CrossedOnce
  <2>3. /\ PartOf("deployed", node[i], v) = node[i].principal
        /\ PartOf("encumbered", node[i], v) = 0
        /\ PartOf("weighted", node[i], v) = WeightedOf(node[i])
        /\ PartOf("net", node[i], v) = NetWeightedOf(node[i])
    BY <1>8, <1>16 DEF PartOf, CountedStatus, Drawn
  <2>4. TotalsAt(v)'
    <3>1. /\ Total("deployed", loan', v) = sub[v].deployed_principal + node[i].principal
          /\ Total("weighted", loan', v) = sub[v].total_weighted_rate + WeightedOf(node[i])
          /\ Total("net", loan', v) = sub[v].total_weighted_net_rate + NetWeightedOf(node[i])
      BY <2>1, <2>2, <2>3, Zenon DEF BookAt, TotalsAt
    <3>2. Total("encumbered", loan', v) = sub[v].encumbered_in_orders
      <4>1. Total("encumbered", loan', v) = sub[v].encumbered_in_orders + 0
        BY <2>1, <2>2, <2>3, Zenon DEF BookAt, TotalsAt
      <4>2. sub[v].encumbered_in_orders \in Nat BY <1>11, <1>16, SubFields DEF SoundSub
      <4> QED BY <4>1, <4>2
    <3>3. Lent(sub[v], node[i], sub'[v]) BY <1>12, <1>16
    <3> QED BY <3>1, <3>2, <3>3, Zenon DEF TotalsAt, Lent
  <2>5. CountersAt(v)'
    <3>1. /\ sub[v].open_orders_count = Cardinality(AsksOf(v))
          /\ sub[v].open_loans_count = Cardinality(OpenLoans(v))
          /\ seat[v].open_lend_count = Cardinality(AsksOf(v)) + Cardinality(OpenLoans(v))
      BY <2>1 DEF BookAt, CountersAt
    <3>2. seat'[v].open_lend_count = Cardinality(AsksOf(v)) + Cardinality(OpenLoans(v)')
      <4>0. seat'[v].open_lend_count = seat[v].open_lend_count + 1 BY <1>13, <1>16
      <4>1. Cardinality(AsksOf(v)) \in Nat /\ Cardinality(OpenLoans(v)) \in Nat
        BY <1>0, AsksCount, OpenLoansFinite
      <4>2. \A x, y \in Nat : (x + y) + 1 = x + (y + 1) OBVIOUS
      <4>3. seat'[v].open_lend_count
              = (Cardinality(AsksOf(v)) + Cardinality(OpenLoans(v))) + 1
        BY <3>1, <4>0
      <4>4. Cardinality(OpenLoans(v)') = Cardinality(OpenLoans(v)) + 1 BY <2>2
      <4> QED BY <4>1, <4>2, <4>3, <4>4
    <3>3. /\ sub'[v].open_orders_count = Cardinality(AsksOf(v))
          /\ sub'[v].open_loans_count = Cardinality(OpenLoans(v)')
      <4>1. /\ sub'[v].open_orders_count = sub[v].open_orders_count
            /\ sub'[v].open_loans_count = sub[v].open_loans_count + 1
        BY <1>12, <1>16 DEF Lent
      <4>2. Cardinality(OpenLoans(v)') = Cardinality(OpenLoans(v)) + 1 BY <2>2
      <4> QED BY <3>1, <4>1, <4>2
    <3> QED BY <1>14, <3>2, <3>3, Zenon DEF CountersAt
  <2>6. ~(v >= next_id)
    BY <1>11, <1>16, <2>1, ExistsBelowNext DEF Exists
  <2>7. SoundSub(sub'[v]) /\ sub'[v].total_shares = sub[v].total_shares
    BY <1>12, <1>16 DEF Lent
  <2> QED BY <1>2, <2>1, <2>4, <2>5, <2>6, <2>7 DEF BookAt
<1>17. \A v \in SubVaultIds : BookAt(v)'
  BY <1>6, <1>15, <1>16
<1>18. TypeOK'
  <2>1. \A v \in SubVaultIds : sub'[v] \in SubVault BY <1>17 DEF BookAt, SoundSub
  <2>2. \A v \in SubVaultIds : seat'[v] \in ClaimedSeat
    <3> SUFFICES ASSUME NEW v \in SubVaultIds PROVE seat'[v] \in ClaimedSeat OBVIOUS
    <3>1. CASE v \in crossed BY <1>6, <1>13, <3>1
    <3>2. CASE v \notin crossed BY <1>0, <1>10, <3>2 DEF TypeOK
    <3> QED BY <3>1, <3>2
  <2>3. \A l \in LoanIds : loan'[l] \in MatchedLoan
    BY <1>0, <1>9, NewLoansGood DEF GoodNode
  <2>4. /\ sub' \in [SubVaultIds -> SubVault] /\ seat' \in [SubVaultIds -> ClaimedSeat]
        /\ loan' \in [LoanIds -> MatchedLoan]
    BY <1>2, <2>1, <2>2, <2>3
  <2>5. next_loan' \in Nat BY <1>0, <1>1, <1>2 DEF TypeOK
  <2>6. vaultAccount' \in Nat /\ dust' \in Nat
    <3>1. shares \in Nat
      <4>1. PICK due \in Nat : due = IF whole THEN live + 1 ELSE live BY <1>0
      <4>2. shares = amount_to_asset_shares_ceil(due, shareValue)
        BY <4>1 DEF FundingShares
      <4>3. Shares(due) \in Nat BY <1>0, MarginfiTyped
      <4>4. shares = Shares(due) \/ shares = Shares(due) + 1
        BY <4>2 DEF amount_to_asset_shares_ceil, Shares
      <4> QED BY <4>3, <4>4
    <3>2. Burned(shares) \in Nat /\ Paid(shares) \in Nat BY <1>0, <3>1, MarginfiTyped
    <3> HIDE DEF shares
    <3> QED BY <1>0, <1>2, <3>2 DEF TypeOK
  <2> QED BY <1>0, <1>2, <2>4, <2>5, <2>6 DEF TypeOK
<1>19. SoundLoans'
  <2> SUFFICES ASSUME NEW l \in LoanIds
               PROVE  SoundNode(loan'[l], now) /\ (l >= next_loan' => loan'[l].status = "Unused")
    BY <1>2 DEF SoundLoans
  <2>1. l \in Nat /\ next_loan \in Nat /\ next_loan' = next_loan + n
    BY <1>0, <1>1, <1>2 DEF LoanIds, TypeOK
  <2>2. CASE loan'[l] = loan[l]
    <3>1. l >= next_loan' => l >= next_loan BY <1>1, <2>1
    <3> QED BY <1>0, <2>2, <3>1 DEF SoundLoans
  <2>3. CASE \E i \in 1..n : l = next_loan + i - 1
    <3>1. PICK i \in 1..n : l = next_loan + i - 1 BY <2>3
    <3>2. ~(l >= next_loan') BY <1>1, <2>1, <3>1
    <3>3. loan'[l] = node[i] BY <1>0, <1>9, <3>1, NewLoanAt
    <3> QED BY <1>8, <3>2, <3>3
  <2> QED BY <1>0, <1>9, <2>2, <2>3, NewLoanAt
<1>20. \A v \in SubVaultIds : Exists(v) => Exists(v)'
  <2> SUFFICES ASSUME NEW v \in SubVaultIds, Exists(v) PROVE Exists(v)' OBVIOUS
  <2>1. CASE v \in crossed
    <3>1. PICK i \in 1..n : v = order[i].sub_vault BY <1>6, <2>1
    <3> QED BY <1>12, <3>1 DEF Exists
  <2>2. CASE v \notin crossed BY <1>10, <2>2 DEF Exists
  <2> QED BY <2>1, <2>2
<1>21. NoOrphans'
  <2>1. \A a \in asks : Exists(a.sub_vault)'
    BY <1>0, <1>20 DEF NoOrphans, TypeOK, Ask
  <2>2. ASSUME NEW l \in LoanIds, loan'[l].status \in Uncleared
        PROVE  sub'[loan'[l].sub_vault].status \in {"Open", "Sunset"}
    <3>1. CASE loan'[l] = loan[l]
      <4>1. loan[l].sub_vault \in SubVaultIds /\ Exists(loan[l].sub_vault)
        BY <1>0, <2>2, <3>1 DEF SoundLoans, SoundNode, NoOrphans
      <4> QED BY <1>20, <3>1, <4>1 DEF Exists
    <3>2. CASE \E i \in 1..n : l = next_loan + i - 1
      <4>1. PICK i \in 1..n : l = next_loan + i - 1 BY <3>2
      <4>2. loan'[l] = node[i] BY <1>0, <1>9, <4>1, NewLoanAt
      <4>3. loan'[l].sub_vault = order[i].sub_vault BY <1>8, <4>2
      <4> QED BY <1>12, <4>3
    <3> QED BY <1>0, <1>9, <3>1, <3>2, NewLoanAt
  <2> QED BY <1>2, <2>1, <2>2 DEF NoOrphans, Exists
<1>22. OneAskEach' BY <1>0, <1>2 DEF OneAskEach
<1>23. SharesKept
  BY <1>6, <1>10, <1>12 DEF SharesKept, Lent
<1> QED BY <1>17, <1>18, <1>19, <1>21, <1>22, <1>23 DEF IInv

-----------------------------------------------------------------------------
(* Payments *)

\* The body of an open loan after a payment: its node's terms, accrued to now, less
\* what was paid.
PaidBody(m, body, amount) ==
    /\ body \in Loans
    /\ body.principal_debt = m.principal
    /\ body.lender_rate = m.lender_rate
    /\ body.curator_fee = m.curator_fee
    /\ TermsOK(body)
    /\ body.last_accrued = now
    /\ (body.state = "Repaid") <=> (body.outstanding_debt = 0)
    /\ amount \in Nat

\* An open loan accrues within its type, and so do the payments it may receive.
LEMMA AccruedFacts ==
    ASSUME IInv, NEW l \in LoanIds, loan[l].status = "Active", NEW amount \in Payments(l)
    PROVE  LET a == Accrued(l)
           IN  /\ a \in Loans /\ TermsOK(a) /\ a.last_accrued = now /\ a.state = "Active"
               /\ a.principal_debt = loan[l].principal /\ a.lender_rate = loan[l].lender_rate
               /\ a.curator_fee = loan[l].curator_fee
               /\ amount \in Nat /\ amount <= a.outstanding_debt
<1> DEFINE a == Accrued(l)
           b == loan[l].body
<1>1. /\ loan[l] \in MatchedLoan /\ b \in Loans /\ TermsOK(b) /\ now \in Nat
      /\ b.last_accrued <= now /\ b.state = "Active" /\ b.outstanding_debt > 0
      /\ b.principal_debt = loan[l].principal /\ b.lender_rate = loan[l].lender_rate
      /\ b.curator_fee = loan[l].curator_fee
  BY DEF IInv, TypeOK, SoundLoans, SoundNode, MatchedLoan, Uncleared, Drawn
<1>2. /\ a \in Loans /\ TermsOK(a) /\ a.last_accrued = now /\ a.state = "Active"
      /\ a.principal_debt = b.principal_debt /\ a.lender_rate = b.lender_rate
      /\ a.curator_fee = b.curator_fee
  <2> HIDE DEF b
  <2> QED BY <1>1, AccrueFacts DEF Accrued, b
<1> HIDE DEF a, b
<1>3. a.outstanding_debt \in Nat BY <1>2 DEF Loans
<1>4. amount \in Nat /\ amount <= a.outstanding_debt
  <2>1. \/ amount \in Installments /\ amount < a.outstanding_debt
        \/ amount = a.outstanding_debt
    BY Zenon DEF Payments, a
  <2>2. amount \in Installments => amount \in Nat
    BY LedgerAssumption
  <2> QED BY <1>3, <2>1, <2>2, SMT
<1> QED BY <1>1, <1>2, <1>4 DEF a

\* Each of the three handlers leaves such a body.
LEMMA HandlersPay ==
    ASSUME IInv, NEW l \in LoanIds, loan[l].status = "Active", NEW amount \in Payments(l),
           NEW bad \in BOOLEAN,
           NEW body \in {RepaidBody(Accrued(l), amount),
                         SettledBody(Accrued(l), amount, ProtocolBps),
                         LiquidatedBody(Accrued(l), amount, ProtocolBps, bad)}
    PROVE  PaidBody(loan[l], body, amount)
<1> DEFINE a == Accrued(l)
<1>1. /\ a \in Loans /\ TermsOK(a) /\ a.last_accrued = now /\ a.state = "Active"
      /\ a.principal_debt = loan[l].principal /\ a.lender_rate = loan[l].lender_rate
      /\ a.curator_fee = loan[l].curator_fee
      /\ amount \in Nat /\ amount <= a.outstanding_debt
  BY AccruedFacts
<1>2. ProtocolBps \in Nat
  BY LedgerAssumption, ScaleAssumption, SMT
<1> HIDE DEF a
<1>3. /\ PaysDown(a, body, amount)
      /\ (body.state = "Repaid") <=> (body.outstanding_debt = 0)
  BY <1>1, <1>2, BodiesPay DEF a
<1>4. body \in Loans /\ SameTerms(a, body)
  BY <1>3 DEF PaysDown
<1> QED BY <1>1, <1>3, <1>4 DEF PaidBody, SameTerms, TermsOK

\* The shares a payment books are natural numbers.
LEMMA ClaimsTyped ==
    ASSUME TypeOK, NEW body \in Loans, NEW amount \in Nat
    PROVE  ProtocolFeeShares(body) \in Nat /\ LenderClaimShares(body, amount) \in Nat
<1>1. body.accumulated_protocol_fee \in Nat BY DEF Loans
<1>2. Shares(body.accumulated_protocol_fee) \in Nat /\ Shares(amount) \in Nat
  BY <1>1, MarginfiTyped
<1>3. ProtocolFeeShares(body) \in Nat
  BY <1>2 DEF ProtocolFeeShares
<1> QED BY <1>2, <1>3, SMT DEF LenderClaimShares, SatSub

\* The close-out takes the loan off the totals it was on, whatever it realised.
LEMMA CloseOutFacts ==
    ASSUME NEW s, SoundSub(s), s.total_shares # 0, NEW body \in Loans, now \in Nat,
           TermsOK(body), body.last_accrued = now, CanCloseOut(s, body),
           NEW m, GoodNode(m), m.principal = body.principal_debt,
           m.lender_rate = body.lender_rate, m.curator_fee = body.curator_fee
    PROVE  LET x == CloseOut(s, body)
           IN  /\ SoundSub(x) /\ x.status = s.status /\ x.total_shares = s.total_shares
               /\ x.open_orders_count = s.open_orders_count
               /\ x.open_loans_count = s.open_loans_count - 1
               /\ x.deployed_principal = s.deployed_principal - m.principal
               /\ x.encumbered_in_orders = s.encumbered_in_orders
               /\ x.total_weighted_rate = s.total_weighted_rate - WeightedOf(m)
               /\ x.total_weighted_net_rate = s.total_weighted_net_rate - NetWeightedOf(m)
<1> DEFINE q == body.principal_debt
           z == body.lender_claimable - q
           w == s.total_weighted_rate - WeightedOf(m)
           r == s.total_weighted_net_rate - NetWeightedOf(m)
           d == s.deployed_principal - m.principal
           c == s.open_loans_count - 1
           p == AddSigned(s.total_principal, z)
           a == AddSigned(s.total_assets, z - estimated_accrued(body))
           t == [s EXCEPT !.total_weighted_rate = w, !.total_weighted_net_rate = r,
                          !.deployed_principal = d, !.open_loans_count = c,
                          !.total_principal = p, !.total_assets = a]
           u == restore_assets_principal_invariant(t)
           k == u.pending_claim + body.lender_claimable
           g == u.accumulated_curator_fee + body.accumulated_curator_fee
           x == [u EXCEPT !.pending_claim = k, !.accumulated_curator_fee = g]
<1>0. s \in SubVault /\ m.principal \in Nat /\ WeightedOf(m) \in Nat /\ NetWeightedOf(m) \in Nat
  BY PartTyped DEF SoundSub, GoodNode, MatchedLoan
<1>1. /\ q \in Nat /\ body.lender_claimable \in Nat /\ body.accumulated_curator_fee \in Nat
      /\ body.started_at \in Nat /\ now - body.started_at \in Nat
  BY SMT DEF Loans, TermsOK
<1>2. /\ WeightedOf(m) = weighted_delta(q, body.lender_rate)
      /\ NetWeightedOf(m) = net_weighted_delta(q, body.lender_rate, body.curator_fee)
  BY DEF WeightedOf, NetWeightedOf
<1>3. estimated_accrued(body) \in Nat
  <2>1. BPS_PER_UNIT * SECONDS_PER_YEAR \in Nat \ {0}
    BY ScaleAssumption, YearAssumption, SMT
  <2> QED BY <1>0, <1>1, <1>2, <2>1, MulDivTyped DEF estimated_accrued
<1>4. /\ s.total_weighted_rate >= WeightedOf(m) /\ s.total_weighted_net_rate >= NetWeightedOf(m)
      /\ s.deployed_principal >= m.principal /\ s.open_loans_count >= 1
  BY <1>2 DEF CanCloseOut
<1>5. w \in Nat /\ r \in Nat /\ d \in Nat /\ c \in Nat
  BY <1>0, <1>4, SubFields, SMT
<1>6. p \in Nat /\ a \in Nat
  <2>1. z \in Int /\ z - estimated_accrued(body) \in Int
    BY <1>1, <1>3, SMT
  <2>2. \A o \in Nat, j \in Int : AddSigned(o, j) \in Nat
    BY SMT DEF AddSigned, SatSub
  <2> QED BY <1>0, <2>1, <2>2, SubFields
<1>7. CloseOut(s, body) = x
  BY <1>2 DEF CloseOut
<1> HIDE DEF w, r, d, c, p, a
<1>8. t \in SubVault
  BY <1>0, <1>5, <1>6, SubUpdate, Zenon
<1>9. /\ t.status = s.status /\ t.total_shares = s.total_shares
      /\ t.open_orders_count = s.open_orders_count /\ t.open_loans_count = c
      /\ t.deployed_principal = d /\ t.encumbered_in_orders = s.encumbered_in_orders
      /\ t.total_weighted_rate = w /\ t.total_weighted_net_rate = r
  BY <1>0, SMT DEF SubVault
<1> HIDE DEF t
<1>10. u \in SubVault /\ SameBooks(t, u) /\ u.total_assets >= u.total_principal
  BY <1>8, RestoreFacts
<1> HIDE DEF u
<1>11. k \in Nat /\ g \in Nat
  BY <1>1, <1>10, SubFields, SMT
<1> HIDE DEF k, g
<1>12. x \in SubVault
  BY <1>10, <1>11, SubUpdate, Zenon
<1>13. /\ x.status = u.status /\ x.total_shares = u.total_shares
       /\ x.total_assets = u.total_assets /\ x.total_principal = u.total_principal
       /\ x.open_orders_count = u.open_orders_count /\ x.open_loans_count = u.open_loans_count
       /\ x.deployed_principal = u.deployed_principal
       /\ x.encumbered_in_orders = u.encumbered_in_orders
       /\ x.total_weighted_rate = u.total_weighted_rate
       /\ x.total_weighted_net_rate = u.total_weighted_net_rate
  BY <1>10, SMT DEF SubVault
<1> HIDE DEF x
<1>14. /\ x.status = s.status /\ x.total_shares = s.total_shares
       /\ x.open_orders_count = s.open_orders_count /\ x.open_loans_count = c
       /\ x.deployed_principal = d /\ x.encumbered_in_orders = s.encumbered_in_orders
       /\ x.total_weighted_rate = w /\ x.total_weighted_net_rate = r
  BY <1>9, <1>10, <1>13 DEF SameBooks
<1>15. SoundSub(x)
  BY <1>10, <1>12, <1>13, <1>14 DEF SoundSub
<1> QED BY <1>7, <1>14, <1>15 DEF c, d, w, r

\* Writing one field of a seat keeps it a seat.
LEMMA SeatUpdate ==
    ASSUME NEW k \in ClaimedSeat, NEW x \in Nat
    PROVE  /\ [k EXCEPT !.debt_withdrawable = x] \in ClaimedSeat
           /\ [k EXCEPT !.open_lend_count = x] \in ClaimedSeat
  BY SMT DEF ClaimedSeat

\* A payment that leaves debt touches the seat's claim and the loan's body only; the
\* one that clears it closes the loan out of the totals and the counters.
LEMMA ResolveInv ==
    ASSUME IInv, NEW l \in LoanIds, loan[l].status = "Active", NEW amount, NEW body,
           PaidBody(loan[l], body, amount), Resolve(l, amount, body)
    PROVE  IInv' /\ SharesKept
<1>0. TypeOK /\ SoundLoans /\ NoOrphans /\ now \in Nat
  BY DEF IInv, TypeOK
<1>1. PICK m : m = loan[l] OBVIOUS
<1>2. /\ SoundNode(m, now) /\ m.status = "Active" /\ GoodNode(m)
      /\ m.principal \in Nat /\ m.principal > 0
  BY <1>0, <1>1 DEF SoundLoans, SoundNode, GoodNode, MatchedLoan, Uncleared, Drawn
<1>3. PICK v \in SubVaultIds : v = m.sub_vault
  BY <1>2 DEF SoundNode, Uncleared, Drawn
<1>4. Exists(v)
  BY <1>0, <1>1, <1>2, <1>3 DEF NoOrphans, Uncleared, Drawn
<1>5. /\ body \in Loans /\ body.principal_debt = m.principal
      /\ body.lender_rate = m.lender_rate /\ body.curator_fee = m.curator_fee
      /\ TermsOK(body) /\ body.last_accrued = now /\ amount \in Nat
      /\ (body.state = "Repaid") <=> (body.outstanding_debt = 0)
  BY <1>1 DEF PaidBody
<1>6. ProtocolFeeShares(body) \in Nat /\ LenderClaimShares(body, amount) \in Nat
      /\ Shares(amount) \in Nat
  BY <1>0, <1>5, ClaimsTyped, MarginfiTyped
<1>7. /\ lenderAccount' = lenderAccount + Shares(amount)
      /\ protocolClaim' = protocolClaim + ProtocolFeeShares(body)
      /\ UNCHANGED <<now, shareValue, next_id, position, asks>>
      /\ UNCHANGED <<next_loan, vaultAccount, borrowerClaim, dust>>
  BY DEF Resolve
<1>8. AccountsTyped'
  BY <1>0, <1>6, <1>7, SMT DEF TypeOK, AccountsTyped
<1>9. next_loan' \in Nat /\ next_loan <= next_loan' /\ l < next_loan'
  <2>1. l \in Nat /\ next_loan \in Nat BY <1>0 DEF LoanIds, TypeOK
  <2>2. ~(l >= next_loan) BY <1>0, <1>1, <1>2 DEF SoundLoans
  <2> QED BY <1>7, <2>1, <2>2, SMT
<1>10. /\ SoundSub(sub[v]) /\ sub[v] \in SubVault /\ seat[v] \in ClaimedSeat
       /\ seat[v].open_lend_count \in Nat /\ seat[v].debt_withdrawable \in Nat
  BY <1>0 DEF IInv, BookAt, TypeOK, SoundSub, ClaimedSeat
<1>11. PICK h \in Nat : h = seat[v].debt_withdrawable + LenderClaimShares(body, amount)
  BY <1>6, <1>10, SMT
<1>12. OpenBit(m) = 1
  BY <1>2 DEF OpenBit, IsOpen, Uncleared, Drawn
<1>13. NodeOf(m, v)
  BY <1>3 DEF NodeOf
<1>14. CASE body.outstanding_debt # 0
  <2> DEFINE n == [m EXCEPT !.body = body]
             x == sub[v]
             y == [seat[v] EXCEPT !.debt_withdrawable = h]
  <2>1. sub' = [sub EXCEPT ![v] = x]
    BY <1>0, <1>14, SMT DEF Resolve, TypeOK
  <2>2. seat' = [seat EXCEPT ![v] = y]
    BY <1>0, <1>1, <1>3, <1>11, <1>14 DEF Resolve, TypeOK
  <2>3. loan' = [loan EXCEPT ![l] = n]
    <3>1. loan' = [loan EXCEPT ![l].body = body] BY <1>14 DEF Resolve
    <3>2. loan \in [LoanIds -> MatchedLoan] BY <1>0 DEF TypeOK
    <3> QED BY <1>1, <3>1, <3>2, Zenon
  <2>4. n \in MatchedLoan
    BY <1>2, <1>5, NodeUpdate DEF GoodNode
  <2>5. /\ n.status = "Active" /\ n.sub_vault = m.sub_vault /\ n.principal = m.principal
        /\ n.lender_rate = m.lender_rate /\ n.borrower_rate = m.borrower_rate
        /\ n.curator_fee = m.curator_fee /\ n.body = body
    BY <1>2, SMT DEF GoodNode, MatchedLoan
  <2>6. y \in ClaimedSeat /\ y.open_lend_count = seat[v].open_lend_count
    BY <1>10, SMT DEF ClaimedSeat
  <2> HIDE DEF n, x, y
  <2>7. SoundNode(n, now)
    <3>1. body.outstanding_debt \in Nat /\ body.state = "Active"
      BY <1>5, <1>14 DEF Loans, LoanStates
    <3>2. body.outstanding_debt > 0 /\ now <= now BY <1>0, <1>14, <3>1, SMT
    <3> QED BY <1>2, <1>5, <2>4, <2>5, <3>1, <3>2 DEF SoundNode
  <2>8. \A kind : PartOf(kind, n, v) = PartOf(kind, m, v)
    <3>1. WeightedOf(n) = WeightedOf(m) /\ NetWeightedOf(n) = NetWeightedOf(m)
      BY <2>5 DEF WeightedOf, NetWeightedOf
    <3> QED BY <1>2, <2>5, <3>1 DEF PartOf
  <2>9. \A kind \in Kinds :
           FigureOf(kind, x) = (FigureOf(kind, sub[v]) - PartOf(kind, m, v)) + PartOf(kind, n, v)
    <3>1. \A kind : PartOf(kind, m, v) \in Nat BY <1>2, PartTyped
    <3>2. \A kind \in Kinds : FigureOf(kind, sub[v]) \in Nat
      BY <1>10, SubFields DEF Kinds, FigureOf
    <3> QED BY <2>8, <3>1, <3>2, SMT DEF x
  <2>10. OpenBit(n) = 1
    BY <2>5 DEF OpenBit, IsOpen, Uncleared, Drawn
  <2>11. Booked(v, m, n, x, y)
    BY <1>10, <1>12, <2>6, <2>9, <2>10 DEF Booked, x
  <2>12. NodeOf(n, v)
    BY <1>3, <2>5 DEF NodeOf
  <2> QED BY <1>1, <1>4, <1>7, <1>8, <1>9, <1>13, <2>1, <2>2, <2>3, <2>7, <2>11, <2>12,
             WriteLoan, Zenon
<1>15. CASE body.outstanding_debt = 0
  <2>1. PICK s : s = accrue_sub_vault(sub[v], now, shareValue) OBVIOUS
  <2> DEFINE n == NoLoan("Closed")
             x == CloseOut(s, body)
             c == seat[v].open_lend_count - 1
             y == [seat[v] EXCEPT !.debt_withdrawable = h, !.open_lend_count = c]
  <2>2. /\ seat[v].open_lend_count >= 1 /\ CanAccrue(sub[v], now) /\ CanCloseOut(s, body)
        /\ sub' = [sub EXCEPT ![v] = x] /\ loan' = [loan EXCEPT ![l] = n]
        /\ seat' = [seat EXCEPT ![v].debt_withdrawable = @ + LenderClaimShares(body, amount),
                                ![v].open_lend_count = @ - 1]
    BY <1>1, <1>3, <1>15, <2>1 DEF Resolve
  <2>3. seat' = [seat EXCEPT ![v] = y]
    <3> HIDE DEF x, n
    <3> QED BY <1>0, <1>11, <2>2, SMT DEF TypeOK, ClaimedSeat
  <2>4. SoundSub(s) /\ SameBooks(sub[v], s)
    BY <1>0, <1>10, <2>1, <2>2, AccrueSub, ShareValuePositive
  <2>5. s.total_shares # 0
    <3>1. s \in SubVault BY <2>4 DEF SoundSub
    <3>2. s.deployed_principal >= m.principal BY <1>5, <2>2 DEF CanCloseOut
    <3>3. s.deployed_principal # 0 BY <1>2, <3>1, <3>2, SubFields, SMT
    <3> QED BY <2>4, <3>3 DEF SoundSub
  <2>6. /\ SoundSub(x) /\ x.status = s.status /\ x.total_shares = s.total_shares
        /\ x.open_orders_count = s.open_orders_count
        /\ x.open_loans_count = s.open_loans_count - 1
        /\ x.deployed_principal = s.deployed_principal - m.principal
        /\ x.encumbered_in_orders = s.encumbered_in_orders
        /\ x.total_weighted_rate = s.total_weighted_rate - WeightedOf(m)
        /\ x.total_weighted_net_rate = s.total_weighted_net_rate - NetWeightedOf(m)
    BY <1>0, <1>2, <1>5, <2>2, <2>4, <2>5, CloseOutFacts
  <2> HIDE DEF x
  <2>7. c \in Nat /\ y \in ClaimedSeat /\ y.open_lend_count = c
    <3>1. c \in Nat BY <1>10, <2>2, SMT
    <3> HIDE DEF c
    <3>2. PICK k \in ClaimedSeat : k = seat[v] BY <1>10
    <3> DEFINE z == [k EXCEPT !.debt_withdrawable = h, !.open_lend_count = c]
    <3>3. z \in ClaimedSeat BY <3>1, SeatUpdate, Zenon
    <3>4. z.open_lend_count = c BY SMT DEF ClaimedSeat
    <3> QED BY <3>1, <3>2, <3>3, <3>4
  <2> HIDE DEF c, y
  <2>8. SoundNode(n, now) /\ n.status = "Closed"
    <3>1. n \in MatchedLoan
      BY NoBodyTyped DEF NoLoan, MatchedLoan
    <3>2. n.curator_fee = 0 /\ n.lender_rate = 0 /\ n.borrower_rate = 0 /\ n.status = "Closed"
      BY DEF NoLoan
    <3>3. 0 <= BPS_PER_UNIT /\ 0 <= 0 BY ScaleAssumption, SMT
    <3> HIDE DEF n
    <3> QED BY <3>1, <3>2, <3>3 DEF SoundNode, Uncleared, Drawn
  <2> HIDE DEF n
  <2>9. OpenBit(n) = 0 /\ NodeOf(n, v)
    BY <2>8 DEF OpenBit, IsOpen, NodeOf, Uncleared, Drawn
  <2>10. \A kind \in Kinds :
           FigureOf(kind, x) = (FigureOf(kind, sub[v]) - PartOf(kind, m, v)) + PartOf(kind, n, v)
    <3>1. /\ PartOf("encumbered", m, v) = 0 /\ PartOf("deployed", m, v) = m.principal
          /\ PartOf("weighted", m, v) = WeightedOf(m) /\ PartOf("net", m, v) = NetWeightedOf(m)
      BY <1>2, <1>3 DEF PartOf, CountedStatus, Drawn
    <3>2. \A kind : PartOf(kind, n, v) = 0
      BY <2>8 DEF PartOf, CountedStatus, Drawn
    <3>3. WeightedOf(m) \in Nat /\ NetWeightedOf(m) \in Nat
      BY <1>2, PartTyped
    <3>4. /\ x.deployed_principal = (sub[v].deployed_principal - m.principal) + 0
          /\ x.encumbered_in_orders = (sub[v].encumbered_in_orders - 0) + 0
          /\ x.total_weighted_rate = (sub[v].total_weighted_rate - WeightedOf(m)) + 0
          /\ x.total_weighted_net_rate = (sub[v].total_weighted_net_rate - NetWeightedOf(m)) + 0
      BY <1>2, <1>10, <2>4, <2>6, <3>3, SubFields, SMT DEF SameBooks
    <3> QED BY <3>1, <3>2, <3>4 DEF Kinds, FigureOf
  <2>11. /\ x.open_loans_count + OpenBit(m) = sub[v].open_loans_count + OpenBit(n)
         /\ y.open_lend_count + OpenBit(m) = seat[v].open_lend_count + OpenBit(n)
    BY <1>10, <1>12, <2>4, <2>6, <2>7, <2>9, SubFields, SMT DEF SameBooks, c
  <2>12. Booked(v, m, n, x, y)
    BY <2>4, <2>6, <2>7, <2>10, <2>11 DEF Booked, SameBooks
  <2> QED BY <1>1, <1>4, <1>7, <1>8, <1>9, <1>13, <2>2, <2>3, <2>8, <2>9, <2>12,
             WriteLoan, Zenon
<1> QED BY <1>14, <1>15

-----------------------------------------------------------------------------
(* The invariant holds always *)

\* repay, liquidate_loan and settle_matured_loan keep the invariant.
LEMMA PaymentsInv ==
    ASSUME IInv, NEW l \in LoanIds, NEW amount \in Payments(l),
           \/ Repay(l, amount)
           \/ \E bad \in BOOLEAN : LiquidateLoan(l, amount, bad)
           \/ SettleMaturedLoan(l, amount)
    PROVE  IInv' /\ SharesKept
<1>1. CASE Repay(l, amount)
  <2> DEFINE body == RepaidBody(Accrued(l), amount)
  <2>1. loan[l].status = "Active" /\ Resolve(l, amount, body) BY <1>1 DEF Repay
  <2>2. PaidBody(loan[l], body, amount) BY <2>1, HandlersPay
  <2> HIDE DEF body
  <2> QED BY <2>1, <2>2, ResolveInv
<1>2. CASE \E bad \in BOOLEAN : LiquidateLoan(l, amount, bad)
  <2>0. PICK bad \in BOOLEAN : LiquidateLoan(l, amount, bad) BY <1>2
  <2> DEFINE body == LiquidatedBody(Accrued(l), amount, ProtocolBps, bad)
  <2>1. loan[l].status = "Active" /\ Resolve(l, amount, body) BY <2>0 DEF LiquidateLoan
  <2>2. PaidBody(loan[l], body, amount) BY <2>1, HandlersPay
  <2> HIDE DEF body
  <2> QED BY <2>1, <2>2, ResolveInv
<1>3. CASE SettleMaturedLoan(l, amount)
  <2> DEFINE body == SettledBody(Accrued(l), amount, ProtocolBps)
  <2>1. loan[l].status = "Active" /\ Resolve(l, amount, body) BY <1>3 DEF SettleMaturedLoan
  <2>2. PaidBody(loan[l], body, amount) BY <2>1, HandlersPay
  <2> HIDE DEF body
  <2> QED BY <2>1, <2>2, ResolveInv
<1> QED BY <1>1, <1>2, <1>3

\* A vault starts without sub-vaults, asks and loans.
LEMMA InitInv == Init => IInv
<1> SUFFICES ASSUME Init PROVE IInv
  OBVIOUS
<1>1. \A l \in LoanIds :
         /\ loan[l] \in MatchedLoan /\ loan[l].status = "Unused"
         /\ loan[l].curator_fee = 0 /\ loan[l].lender_rate = 0 /\ loan[l].borrower_rate = 0
  BY NoBodyTyped DEF Init, NoLoan, MatchedLoan
<1>2. \A v \in SubVaultIds : sub[v] = SubVault_new_empty("Absent")
  BY DEF Init
<1>3. \A v \in SubVaultIds : seat[v] = [debt_withdrawable |-> 0, open_lend_count |-> 0]
  BY DEF Init
<1>4. \A v \in SubVaultIds : \A d \in Depositors : position[v][d] = 0
  BY DEF Init
<1>5. asks = {}
  BY DEF Init
<1>6. TypeOK
  <2>1. sub \in [SubVaultIds -> SubVault]
    <3>1. SubVault_new_empty("Absent") \in SubVault BY NewSub DEF SoundSub
    <3> QED BY <3>1 DEF Init
  <2>2. loan \in [LoanIds -> MatchedLoan]
    <3>1. NoLoan("Unused") \in MatchedLoan BY NoBodyTyped DEF NoLoan, MatchedLoan
    <3> QED BY <3>1 DEF Init
  <2>3. seat \in [SubVaultIds -> ClaimedSeat]
    <3>1. [debt_withdrawable |-> 0, open_lend_count |-> 0] \in ClaimedSeat BY DEF ClaimedSeat
    <3> QED BY <3>1 DEF Init
  <2>4. position \in [SubVaultIds -> [Depositors -> Nat]]
    BY DEF Init
  <2> QED BY <2>1, <2>2, <2>3, <2>4 DEF Init, TypeOK
<1>7. SoundLoans
  <2>1. 0 <= BPS_PER_UNIT /\ 0 <= 0 BY ScaleAssumption, SMT
  <2> QED BY <1>1, <2>1 DEF SoundLoans, SoundNode, Uncleared, Drawn
<1>8. OneAskEach BY <1>5 DEF OneAskEach
<1>9. NoOrphans BY <1>1, <1>5 DEF NoOrphans, Uncleared, Drawn
<1>10. ASSUME NEW v \in SubVaultIds PROVE BookAt(v)
  <2> DEFINE s == SubVault_new_empty("Absent")
  <2>1. /\ SoundSub(s) /\ s.total_shares = 0
        /\ s.deployed_principal = 0 /\ s.encumbered_in_orders = 0
        /\ s.total_weighted_rate = 0 /\ s.total_weighted_net_rate = 0
        /\ s.open_orders_count = 0 /\ s.open_loans_count = 0
    BY NewSub
  <2>2. sub[v] = s BY <1>2
  <2> HIDE DEF s
  <2>3. OpenLoans(v) = {} BY <1>1 DEF OpenLoans, Open, Uncleared, Drawn
  <2>4. AsksOf(v) = {} BY <1>5 DEF AsksOf
  <2>5. TotalsAt(v)
    BY <2>1, <2>2, <2>3, NoLoansNoTotals DEF TotalsAt
  <2>6. CountersAt(v)
    <3>1. Cardinality({}) = 0 BY FS_EmptySet
    <3>2. seat[v].open_lend_count = 0 BY <1>3
    <3> QED BY <2>1, <2>2, <2>3, <2>4, <3>1, <3>2, SMT DEF CountersAt
  <2>7. Sum(Depositors, position[v]) = 0 BY <1>4, SumZero
  <2> QED BY <2>1, <2>2, <2>5, <2>6, <2>7 DEF BookAt, s
<1> QED BY <1>6, <1>7, <1>8, <1>9, <1>10 DEF IInv

\* Every instruction keeps the invariant.
LEMMA NextInv == IInv /\ [Next]_vars => IInv'
<1> SUFFICES ASSUME IInv, [Next]_vars PROVE IInv'
  OBVIOUS
<1>1. CASE Tick BY <1>1, TickInv
<1>2. CASE CreateSubVault BY <1>2, CreateSubVaultInv
<1>3. ASSUME NEW v \in SubVaultIds,
             \/ SunsetSubVault(v) \/ ResumeSubVault(v)
      PROVE  IInv'
  BY <1>3, SetStatusInv DEF SunsetSubVault, ResumeSubVault
<1>4. ASSUME NEW v \in SubVaultIds, RemoveSubVault(v) PROVE IInv'
  BY <1>4, RemoveSubVaultInv
<1>5. ASSUME NEW v \in SubVaultIds, CancelOrderForSubVault(v) PROVE IInv'
  BY <1>5, CancelOrderInv
<1>6. ASSUME NEW v \in SubVaultIds, ClaimRepaymentForSubVault(v) PROVE IInv'
  BY <1>6, ClaimRepaymentInv
<1>7. ASSUME NEW v \in SubVaultIds, ClaimCuratorFee(v) PROVE IInv'
  BY <1>7, ClaimCuratorFeeInv
<1>8. ASSUME NEW v \in SubVaultIds, NEW rate \in AskRates, PlaceOrderForSubVault(v, rate)
      PROVE  IInv'
  BY <1>8, PlaceOrderInv
<1>9. ASSUME NEW v \in SubVaultIds, NEW rate \in AskRates, UpdateOrderForSubVault(v, rate)
      PROVE  IInv'
  BY <1>9, UpdateOrderInv
<1>10. ASSUME NEW v \in SubVaultIds, NEW d \in Depositors, NEW amount \in DepositAmounts,
              GlobalVaultDeposit(d, v, amount)
       PROVE  IInv'
  BY <1>10, DepositInv
<1>11. ASSUME NEW v \in SubVaultIds, NEW d \in Depositors, NEW burn \in BurnAmounts,
              GlobalVaultWithdraw(d, v, burn)
       PROVE  IInv'
  BY <1>11, GlobalVaultWithdrawInv
<1>12. ASSUME NEW a \in asks, NEW bid \in BidRates, NEW demand \in Demands,
              MatchFill(a, bid, demand)
       PROVE  IInv'
  BY <1>12, MatchFillInv
<1>13. ASSUME NEW l \in LoanIds, ProcessMatchedLoan(l) PROVE IInv'
  BY <1>13, ProcessMatchedLoanInv
<1>14. ASSUME NEW l \in LoanIds, NEW amount \in Payments(l),
              \/ Repay(l, amount)
              \/ \E bad \in BOOLEAN : LiquidateLoan(l, amount, bad)
              \/ SettleMaturedLoan(l, amount)
       PROVE  IInv'
  BY <1>14, PaymentsInv
<1>15. CASE ProtocolFeeClaim BY <1>15, ProtocolFeeClaimInv
<1>16. CASE Withdraw(borrowerClaim, TRUE)
  <2>1. borrowerClaim \in Nat BY DEF IInv, TypeOK
  <2> QED BY <1>16, <2>1, WithdrawInv
<1>17. ASSUME NEW amount \in WithdrawAmounts, Withdraw(Shares(amount), FALSE) PROVE IInv'
  <2>1. TypeOK /\ amount \in Nat BY LedgerAssumption DEF IInv
  <2>2. Shares(amount) \in Nat BY <2>1, MarginfiTyped
  <2> QED BY <1>17, <2>2, WithdrawInv
<1>18. CASE UNCHANGED vars
  <2>1. TypeOK BY DEF IInv
  <2>2. now' \in Nat /\ now <= now' BY <1>18, <2>1, SMT DEF vars, TypeOK
  <2>3. /\ UNCHANGED <<sub, next_id, position, asks, seat, loan, next_loan>>
        /\ shareValue' \in ShareValues
        /\ vaultAccount' \in Nat /\ lenderAccount' \in Nat
        /\ borrowerClaim' \in Nat /\ protocolClaim' \in Nat /\ dust' \in Nat
    BY <1>18, <2>1 DEF vars, TypeOK
  <2> QED BY <2>2, <2>3, WriteAccounts
<1>19. ASSUME NEW l \in LoanIds, ProcessPresettledLoan(l) PROVE IInv'
  BY <1>19, ProcessPresettledLoanInv
<1>20. ASSUME NEW n \in SubVaultIds, NEW max_rate \in BidRates, NEW live \in Demands,
              NEW whole \in BOOLEAN, NEW order \in [1..n -> asks],
              ConvertP2PoolToFixed(order, max_rate, live, whole)
       PROVE  IInv'
  BY <1>20, ConvertInv
<1>21. CASE Next
  BY <1>1, <1>2, <1>3, <1>4, <1>5, <1>6, <1>7, <1>8, <1>9, <1>10, <1>11, <1>12, <1>13,
     <1>14, <1>15, <1>16, <1>17, <1>19, <1>20, <1>21, Zenon DEF Next
<1> QED BY <1>18, <1>21

\* The invariant holds in every reachable state.
LEMMA InvAlways == Spec => []IInv
  BY InitInv, NextInv, PTL DEF Spec

-----------------------------------------------------------------------------
(* The theorems *)

\* Every instruction leaves the vault, its sub-vaults, the seats, the asks, the loans
\* and the accounts within their types: no counter, claim or total underflows.
THEOREM TypeHolds == Spec => []TypeOK
<1>1. IInv => TypeOK BY DEF IInv
<1> QED BY <1>1, InvAlways, PTL

\* A sub-vault's shares are its depositors' positions, across deposits, withdrawals,
\* the burn of the last share and removal.
THEOREM SharesMatchPositionsHolds == Spec => []SharesMatchPositions
<1>1. IInv => SharesMatchPositions BY DEF IInv, BookAt, SharesMatchPositions
<1> QED BY <1>1, InvAlways, PTL

\* global_vault_withdraw refuses to burn the last share while capital is deployed or
\* encumbered, and no other instruction strands capital without shares.
THEOREM NoOwnerlessCapitalHolds == Spec => []NoOwnerlessCapital
<1>1. IInv => NoOwnerlessCapital BY DEF IInv, BookAt, SoundSub, NoOwnerlessCapital
<1> QED BY <1>1, InvAlways, PTL

\* restore_assets_principal_invariant is called wherever it is needed: no accrual,
\* write-off, shortfall or withdrawal leaves the assets below the principal.
THEOREM AssetsCoverPrincipalHolds == Spec => []AssetsCoverPrincipal
<1>1. IInv => AssetsCoverPrincipal BY DEF IInv, BookAt, SoundSub, AssetsCoverPrincipal
<1> QED BY <1>1, InvAlways, PTL

\* The four totals the instructions maintain by increments are the sums over the
\* matched-loan queue and the loan accounts, so no checked_sub on them can fail.
THEOREM LedgerMatchesLoansHolds == Spec => []LedgerMatchesLoans
<1>1. IInv => LedgerMatchesLoans
  <2> SUFFICES ASSUME IInv PROVE LedgerMatchesLoans OBVIOUS
  <2>1. \A v \in SubVaultIds : TotalsAt(v) BY DEF IInv, BookAt
  <2> QED BY <2>1, TotalsAreSums
<1> QED BY <1>1, InvAlways, PTL

\* open_orders_count, open_loans_count and the seat's open_lend_count count the asks
\* and the open loans exactly, so the guards of removal and close-out mean what they say.
THEOREM CountersMatchBookHolds == Spec => []CountersMatchBook
<1>1. IInv => CountersMatchBook BY DEF IInv, BookAt, CountersAt, CountersMatchBook
<1> QED BY <1>1, InvAlways, PTL

\* remove_sub_vault never leaves an open loan or a resting ask behind.
THEOREM NoOrphansHolds == Spec => []NoOrphans
<1>1. IInv => NoOrphans BY DEF IInv
<1> QED BY <1>1, InvAlways, PTL

-----------------------------------------------------------------------------
(* No dilution *)

\* Where no shares were minted or burned, and where none are left, nothing is diluted.
LEMMA KeptOrGone ==
    ASSUME NEW v, sub'[v].total_shares = sub[v].total_shares \/ sub'[v].total_shares = 0
    PROVE  DilutionFree(v)
  BY SMT DEF DilutionFree

\* A mint at net asset value: m shares for c atoms, of t shares, assets a, principal p.
LEMMA MintRounds ==
    ASSUME NEW t \in Nat, NEW a \in Nat \ {0}, NEW p \in Nat, NEW q \in Nat, NEW c \in Nat,
           q <= p, p <= a
    PROVE  LET m == mul_div(c, t, a) IN (p + c) * t >= q * (t + m)
<1>1. PICK y \in Nat : y = c * t BY SMT
<1>2. PICK m \in Nat : m = y \div a /\ a * m <= y BY DivFloor
<1>3. q * m <= a * m BY SMT
<1>4. q * t <= p * t BY SMT
<1>5. (p + c) * t = p * t + y /\ q * (t + m) = q * t + q * m BY <1>1, SMT
<1>6. (p + c) * t >= q * (t + m)
  <2>1. PICK k \in Nat : k = a * m BY SMT
  <2>2. PICK h \in Nat : h = q * m BY SMT
  <2>3. PICK i \in Nat : i = p * t BY SMT
  <2>4. PICK j \in Nat : j = q * t BY SMT
  <2>5. i + y >= j + h BY <1>2, <1>3, <1>4, <2>1, <2>2, <2>3, <2>4, SMT
  <2> QED BY <1>5, <2>2, <2>3, <2>4, <2>5
<1> QED BY <1>1, <1>2, <1>6 DEF mul_div

\* A burn at principal: b of t shares take their floored part of the principal p.
LEMMA BurnRounds ==
    ASSUME NEW t \in Nat \ {0}, NEW p \in Nat, NEW q \in Nat, NEW b \in Nat, q <= p, b <= t
    PROVE  LET o == mul_div(b, p, t) IN (p - o) * t >= q * (t - b)
<1>1. PICK y \in Nat : y = b * p BY SMT
<1>2. PICK o \in Nat : o = y \div t /\ t * o <= y BY DivFloor
<1>3. PICK d \in Nat : d = t - b /\ t = d + b BY SMT
<1>4. q * d <= p * d BY SMT
<1>5. p * t = p * d + y BY <1>1, <1>3, SMT
<1>6. (p - o) * t = p * t - t * o BY SMT
<1>7. (p - o) * t >= q * d
  <2>1. PICK k \in Nat : k = t * o BY SMT
  <2>2. PICK h \in Nat : h = q * d BY SMT
  <2>3. PICK i \in Nat : i = p * d BY SMT
  <2>4. i + y - k >= h BY <1>2, <1>4, <2>1, <2>2, <2>3, SMT
  <2> QED BY <1>5, <1>6, <2>1, <2>2, <2>3, <2>4
<1> QED BY <1>1, <1>2, <1>3, <1>7 DEF mul_div

\* global_vault_deposit charges net asset value, which is never below the principal.
LEMMA DepositNoDilution ==
    ASSUME IInv, NEW v \in SubVaultIds, NEW d \in Depositors, NEW amount \in DepositAmounts,
           GlobalVaultDeposit(d, v, amount), NEW w \in SubVaultIds
    PROVE  DilutionFree(w)
<1>0. TypeOK /\ SoundSub(sub[v]) /\ amount \in Nat /\ now \in Nat /\ shareValue \in Nat \ {0}
  BY LedgerAssumption, ShareValuePositive DEF IInv, TypeOK, BookAt
<1>1. PICK c \in Nat : c = Paid(Shares(amount))
  <2>1. Shares(amount) \in Nat BY <1>0, MarginfiTyped
  <2> QED BY <1>0, <2>1, MarginfiTyped
<1>2. PICK s : s = accrue_sub_vault(sub[v], now, shareValue) OBVIOUS
<1>3. PICK x : x = Deposited(s, c) OBVIOUS
<1>4. /\ c > 0 /\ CanAccrue(sub[v], now)
      /\ s.total_shares > 0 => s.total_assets > 0
      /\ SharesFor(s, c) > 0 /\ sub' = [sub EXCEPT ![v] = x]
  BY <1>1, <1>2, <1>3 DEF GlobalVaultDeposit
<1>5. CASE w # v
  <2>1. sub'[w] = sub[w] BY <1>0, <1>4, <1>5 DEF TypeOK
  <2> QED BY <2>1, KeptOrGone
<1>6. CASE w = v
  <2>1. sub'[v] = x BY <1>0, <1>4 DEF TypeOK
  <2>2. /\ SoundSub(s) /\ SameBooks(sub[v], s)
        /\ shareValue >= sub[v].last_supply_share_value =>
              s.total_principal >= sub[v].total_principal
    BY <1>0, <1>2, <1>4, AccrueSub
  <2>3. /\ x.total_shares = s.total_shares + SharesFor(s, c)
        /\ x.total_principal = s.total_principal + c
    <3>1. c \in Nat \ {0} BY <1>4, SMT
    <3> QED BY <1>3, <1>4, <2>2, <3>1, DepositedFacts
  <2> SUFFICES ASSUME sub[v].total_shares > 0,
                      shareValue >= sub[v].last_supply_share_value
               PROVE  x.total_principal * sub[v].total_shares
                        >= sub[v].total_principal * x.total_shares
    BY <1>6, <2>1 DEF DilutionFree
  <2>4. PICK t \in Nat : t = sub[v].total_shares /\ t = s.total_shares
    BY <1>0, <2>2, SubFields DEF SoundSub, SameBooks
  <2>5. PICK q \in Nat : q = sub[v].total_principal BY <1>0, SubFields DEF SoundSub
  <2>6. PICK p \in Nat : p = s.total_principal BY <2>2, SubFields DEF SoundSub
  <2>7. PICK a \in Nat : a = s.total_assets BY <2>2, SubFields DEF SoundSub
  <2>8. q <= p /\ p <= a /\ a > 0 /\ t > 0
    BY <1>4, <2>2, <2>4, <2>5, <2>6, <2>7, SMT DEF SoundSub
  <2>9. SharesFor(s, c) = mul_div(c, t, a)
    <3>1. t # 0 BY <2>8, SMT
    <3> QED BY <2>4, <2>7, <3>1 DEF SharesFor
  <2>10. (p + c) * t >= q * (t + mul_div(c, t, a))
    <3>1. a \in Nat \ {0} BY <2>8, SMT
    <3> QED BY <2>8, <3>1, MintRounds
  <2> QED BY <2>3, <2>4, <2>5, <2>6, <2>9, <2>10
<1> QED BY <1>5, <1>6

\* global_vault_withdraw pays a floored part of the principal.
LEMMA WithdrawNoDilution ==
    ASSUME IInv, NEW v \in SubVaultIds, NEW d \in Depositors, NEW burn \in BurnAmounts,
           GlobalVaultWithdraw(d, v, burn), NEW w \in SubVaultIds
    PROVE  DilutionFree(w)
<1>0. TypeOK /\ SoundSub(sub[v]) /\ burn \in Nat \ {0} /\ now \in Nat
      /\ shareValue \in Nat \ {0}
  BY LedgerAssumption, ShareValuePositive DEF IInv, TypeOK, BookAt
<1>1. PICK s : s = accrue_sub_vault(sub[v], now, shareValue) OBVIOUS
<1>2. PICK x : x = Withdrawn(s, burn) OBVIOUS
<1>3. /\ s.total_shares >= burn /\ CanAccrue(sub[v], now)
      /\ sub_vault_idle(s) >= AtomsOut(s, burn)
      /\ burn = s.total_shares => s.deployed_principal = 0 /\ s.encumbered_in_orders = 0
      /\ s.total_assets >= AtomsOut(s, burn)
      /\ sub' = [sub EXCEPT ![v] = x]
  BY <1>1, <1>2 DEF GlobalVaultWithdraw
<1>4. CASE w # v
  <2>1. sub'[w] = sub[w] BY <1>0, <1>3, <1>4 DEF TypeOK
  <2> QED BY <2>1, KeptOrGone
<1>5. CASE w = v
  <2>1. sub'[v] = x BY <1>0, <1>3 DEF TypeOK
  <2>2. /\ SoundSub(s) /\ SameBooks(sub[v], s)
        /\ shareValue >= sub[v].last_supply_share_value =>
              s.total_principal >= sub[v].total_principal
    BY <1>0, <1>1, <1>3, AccrueSub
  <2>3. /\ x.total_shares = s.total_shares - burn
        /\ x.total_shares > 0 =>
              /\ AtomsOut(s, burn) = mul_div(burn, s.total_principal, s.total_shares)
              /\ x.total_principal = s.total_principal - AtomsOut(s, burn)
    BY <1>0, <1>2, <1>3, <2>2, WithdrawnFacts
  <2> SUFFICES ASSUME x.total_shares > 0, shareValue >= sub[v].last_supply_share_value
               PROVE  x.total_principal * sub[v].total_shares
                        >= sub[v].total_principal * x.total_shares
    BY <1>5, <2>1 DEF DilutionFree
  <2>4. PICK t \in Nat : t = sub[v].total_shares /\ t = s.total_shares
    BY <1>0, <2>2, SubFields DEF SoundSub, SameBooks
  <2>5. PICK q \in Nat : q = sub[v].total_principal BY <1>0, SubFields DEF SoundSub
  <2>6. PICK p \in Nat : p = s.total_principal BY <2>2, SubFields DEF SoundSub
  <2>7. q <= p /\ burn <= t /\ t \in Nat \ {0}
    BY <1>0, <1>3, <2>2, <2>4, <2>5, <2>6, SMT
  <2>8. (p - mul_div(burn, p, t)) * t >= q * (t - burn)
    BY <1>0, <2>7, BurnRounds
  <2> QED BY <2>3, <2>4, <2>5, <2>6, <2>8
<1> QED BY <1>4, <1>5

\* No other instruction mints or burns; removal and creation leave no shares.
LEMMA NextNoDilution == IInv /\ Next => \A w \in SubVaultIds : DilutionFree(w)
<1> SUFFICES ASSUME IInv, Next, NEW w \in SubVaultIds PROVE DilutionFree(w)
  OBVIOUS
<1>0. TypeOK /\ sub \in [SubVaultIds -> SubVault] BY DEF IInv, TypeOK
<1>1. ASSUME NEW status, NEW v \in SubVaultIds, status \in {"Open", "Removed"},
             sub' = [sub EXCEPT ![v] = SubVault_new_empty(status)]
      PROVE  DilutionFree(w)
  <2>1. SubVault_new_empty(status).total_shares = 0 BY <1>1, NewSub
  <2>2. sub'[w] = sub[w] \/ sub'[w].total_shares = 0 BY <1>0, <1>1, <2>1
  <2> QED BY <2>2, KeptOrGone
<1>2. ASSUME UNCHANGED sub PROVE DilutionFree(w)
  BY <1>2, KeptOrGone
<1>3. ASSUME SharesKept PROVE DilutionFree(w)
  BY <1>3, KeptOrGone DEF SharesKept
<1>4. CASE Tick \/ ProtocolFeeClaim \/ Withdraw(borrowerClaim, TRUE)
           \/ \E amount \in WithdrawAmounts : Withdraw(Shares(amount), FALSE)
  BY <1>2, <1>4 DEF Tick, ProtocolFeeClaim, Withdraw
<1>5. CASE CreateSubVault
  BY <1>1, <1>5 DEF CreateSubVault
<1>6. ASSUME NEW v \in SubVaultIds, RemoveSubVault(v) PROVE DilutionFree(w)
  BY <1>1, <1>6 DEF RemoveSubVault
<1>7. ASSUME NEW v \in SubVaultIds, NEW rate, UpdateOrderForSubVault(v, rate)
      PROVE  DilutionFree(w)
  BY <1>2, <1>7 DEF UpdateOrderForSubVault
<1>8. ASSUME NEW v \in SubVaultIds, NEW x, sub' = [sub EXCEPT ![v] = x],
             x.total_shares = sub[v].total_shares
      PROVE  DilutionFree(w)
  <2>1. sub'[w].total_shares = sub[w].total_shares BY <1>0, <1>8
  <2> QED BY <2>1, KeptOrGone
<1>9. ASSUME NEW v \in SubVaultIds, NEW z,
             \/ sub' = [sub EXCEPT ![v].status = z]
             \/ sub' = [sub EXCEPT ![v].open_orders_count = z]
             \/ sub' = [sub EXCEPT ![v].accumulated_curator_fee = z]
             \/ sub' = [sub EXCEPT ![v].pending_claim = z]
      PROVE  DilutionFree(w)
  <2>1. PICK s \in SubVault : s = sub[v] BY <1>0
  <2>2. /\ [s EXCEPT !.status = z].total_shares = s.total_shares
        /\ [s EXCEPT !.open_orders_count = z].total_shares = s.total_shares
        /\ [s EXCEPT !.accumulated_curator_fee = z].total_shares = s.total_shares
        /\ [s EXCEPT !.pending_claim = z].total_shares = s.total_shares
    BY SMT DEF SubVault
  <2>3. \/ sub' = [sub EXCEPT ![v] = [s EXCEPT !.status = z]]
        \/ sub' = [sub EXCEPT ![v] = [s EXCEPT !.open_orders_count = z]]
        \/ sub' = [sub EXCEPT ![v] = [s EXCEPT !.accumulated_curator_fee = z]]
        \/ sub' = [sub EXCEPT ![v] = [s EXCEPT !.pending_claim = z]]
    BY <1>9, <2>1
  <2> QED BY <1>8, <2>1, <2>2, <2>3
<1>10. ASSUME NEW v \in SubVaultIds,
              \/ SunsetSubVault(v) \/ ResumeSubVault(v)
              \/ CancelOrderForSubVault(v) \/ ClaimCuratorFee(v)
              \/ \E rate \in AskRates : PlaceOrderForSubVault(v, rate)
       PROVE  DilutionFree(w)
  <2>1. CASE SunsetSubVault(v) \/ ResumeSubVault(v)
    BY <1>9, <2>1 DEF SunsetSubVault, ResumeSubVault, SetStatus
  <2>2. CASE CancelOrderForSubVault(v)
    BY <1>9, <2>2 DEF CancelOrderForSubVault
  <2>3. CASE ClaimCuratorFee(v)
    BY <1>9, <2>3 DEF ClaimCuratorFee
  <2>4. CASE \E rate \in AskRates : PlaceOrderForSubVault(v, rate)
    BY <1>9, <2>4 DEF PlaceOrderForSubVault
  <2> QED BY <1>10, <2>1, <2>2, <2>3, <2>4
<1>11. ASSUME NEW v \in SubVaultIds, ClaimRepaymentForSubVault(v) PROVE DilutionFree(w)
  BY <1>9, <1>11 DEF ClaimRepaymentForSubVault, Swept
<1>12. ASSUME NEW v \in SubVaultIds, NEW d \in Depositors,
              \/ \E amount \in DepositAmounts : GlobalVaultDeposit(d, v, amount)
              \/ \E burn \in BurnAmounts : GlobalVaultWithdraw(d, v, burn)
       PROVE  DilutionFree(w)
  BY <1>12, DepositNoDilution, WithdrawNoDilution
<1>13. ASSUME NEW a \in asks, NEW bid \in BidRates, NEW demand \in Demands,
              MatchFill(a, bid, demand)
       PROVE  DilutionFree(w)
  BY <1>3, <1>13, MatchFillInv
<1>14. ASSUME NEW l \in LoanIds, ProcessMatchedLoan(l) PROVE DilutionFree(w)
  BY <1>3, <1>14, ProcessMatchedLoanInv
<1>15. ASSUME NEW l \in LoanIds, NEW amount \in Payments(l),
              \/ Repay(l, amount)
              \/ \E bad \in BOOLEAN : LiquidateLoan(l, amount, bad)
              \/ SettleMaturedLoan(l, amount)
       PROVE  DilutionFree(w)
  BY <1>3, <1>15, PaymentsInv
<1>16. ASSUME NEW l \in LoanIds, ProcessPresettledLoan(l) PROVE DilutionFree(w)
  BY <1>3, <1>16, ProcessPresettledLoanInv
<1>17. ASSUME NEW n \in SubVaultIds, NEW max_rate \in BidRates, NEW live \in Demands,
              NEW whole \in BOOLEAN, NEW order \in [1..n -> asks],
              ConvertP2PoolToFixed(order, max_rate, live, whole)
       PROVE  DilutionFree(w)
  BY <1>3, <1>17, ConvertInv
<1> QED BY <1>4, <1>5, <1>6, <1>7, <1>10, <1>11, <1>12, <1>13, <1>14, <1>15, <1>16, <1>17,
           Zenon DEF Next

\* Whatever the order of deposits and withdrawals, nobody's mint or burn lowers what
\* the other depositors' shares redeem, unless the bank's share value fell.
THEOREM NoDilutionHolds == Spec => NoDilution
<1>1. IInv /\ [Next]_vars => [\A v \in SubVaultIds : DilutionFree(v)]_vars
  BY NextNoDilution
<1> QED BY <1>1, InvAlways, PTL DEF Spec, NoDilution

=============================================================================
