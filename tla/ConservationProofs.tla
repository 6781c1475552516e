------------------------- MODULE ConservationProofs -------------------------
(***************************************************************************)
(* The books of the ledger agree with each other in every regular history: *)
(* holds with collateral, pools with positions, and accounts with pools,   *)
(* for every number of accounts, assets, pools and positions and every     *)
(* amount.                                                                 *)
(***************************************************************************)
EXTENDS RateProofs

Regular == anomaly \subseteq {"stalled"}

\* The statements of the three properties in a regular state, and the pools
\* that do not exist yet, which create_pool must find empty.
Books ==
    /\ \A h \in Holdings : held[h] = CollateralIn(h)
    /\ \A pool \in PoolIds : /\ pools[pool].principal_outstanding = PrincipalIn(pool)
                             /\ pools[pool].collateral_locked = SecurityIn(pool)
    /\ \A s \in Assets : CashOf(s) + Swept(s) = deposited[s]
BooksInv ==
    /\ \A p \in PoolIds : p \notin live => pools[p] = NewPool
    /\ Regular => Books

---------------------------------------------------------------------------
\* The sums, term by term

HoldTerm(p, h) == IF Secures(p, h) THEN positions[p].collateral ELSE 0
LoanTerm(p, pool) == IF Funded(p, pool) THEN positions[p].principal ELSE 0
SecurityTerm(p, pool) == IF Funded(p, pool) THEN positions[p].collateral ELSE 0
SweptTerm(p, s) ==
    IF Known(p) /\ AssetOf(p) = s /\ positions[p].state = "Expired"
    THEN positions[p].collateral ELSE 0
LiquidTerm(p, s) == IF PoolAsset[p] = s THEN pools[p].liquidity_available ELSE 0

Owned(s) == SumOver([a \in Accounts |-> balance[<<a, s>>]], Accounts)
Liquid(s) == SumOver([p \in PoolIds |-> LiquidTerm(p, s)], PoolIds)

TermsNat ==
    \A p \in PositionIds :
        /\ \A h \in Holdings : HoldTerm(p, h) \in Nat
        /\ \A pool \in PoolIds : LoanTerm(p, pool) \in Nat /\ SecurityTerm(p, pool) \in Nat
        /\ \A s \in Assets : SweptTerm(p, s) \in Nat

LEMMA PositionTermsNat == TypeOK => TermsNat
<1> SUFFICES ASSUME TypeOK, NEW p \in PositionIds
             PROVE  /\ \A h \in Holdings : HoldTerm(p, h) \in Nat
                    /\ \A pool \in PoolIds : /\ LoanTerm(p, pool) \in Nat
                                             /\ SecurityTerm(p, pool) \in Nat
                    /\ \A s \in Assets : SweptTerm(p, s) \in Nat
  BY DEF TermsNat
<1>1. Known(p) => positions[p].principal \in Nat /\ positions[p].collateral \in Nat
  BY BookTypes
<1> QED  BY <1>1 DEF HoldTerm, Secures, LoanTerm, SecurityTerm, Funded, SweptTerm

LEMMA PositionTermsNatNext == TypeOK' => TermsNat'
  BY PositionTermsNat, PTL

LEMMA PositionIdsFinite == IsFiniteSet(PositionIds)
<1>1. 1 \in Int /\ MaxPositions \in Int  BY LedgerAssumption
<1>2. IsFiniteSet(1 .. MaxPositions)  BY <1>1, FS_Interval
<1> QED  BY <1>2 DEF PositionIds

\* When one position changes, every sum over the positions moves by the
\* change of its term.
LEMMA OnePositionMoves ==
    ASSUME TypeOK, TypeOK', NEW id \in PositionIds,
           \A q \in PositionIds : q # id => positions'[q] = positions[q]
    PROVE  /\ \A h \in Holdings :
                /\ CollateralIn(h) \in Nat /\ CollateralIn(h)' \in Nat
                /\ CollateralIn(h)' + HoldTerm(id, h) = CollateralIn(h) + HoldTerm(id, h)'
           /\ \A pool \in PoolIds :
                /\ PrincipalIn(pool) \in Nat /\ PrincipalIn(pool)' \in Nat
                /\ PrincipalIn(pool)' + LoanTerm(id, pool)
                     = PrincipalIn(pool) + LoanTerm(id, pool)'
                /\ SecurityIn(pool) \in Nat /\ SecurityIn(pool)' \in Nat
                /\ SecurityIn(pool)' + SecurityTerm(id, pool)
                     = SecurityIn(pool) + SecurityTerm(id, pool)'
           /\ \A s \in Assets :
                /\ Swept(s) \in Nat /\ Swept(s)' \in Nat
                /\ Swept(s)' + SweptTerm(id, s) = Swept(s) + SweptTerm(id, s)'
<1>1. \A q \in PositionIds :
        /\ \A h \in Holdings : HoldTerm(q, h) \in Nat /\ HoldTerm(q, h)' \in Nat
        /\ \A pool \in PoolIds : /\ LoanTerm(q, pool) \in Nat /\ LoanTerm(q, pool)' \in Nat
                                 /\ SecurityTerm(q, pool) \in Nat
                                 /\ SecurityTerm(q, pool)' \in Nat
        /\ \A s \in Assets : SweptTerm(q, s) \in Nat /\ SweptTerm(q, s)' \in Nat
  BY PositionTermsNat, PositionTermsNatNext DEF TermsNat
<1>2. \A q \in PositionIds : q # id =>
        /\ \A h \in Holdings : HoldTerm(q, h)' = HoldTerm(q, h)
        /\ \A pool \in PoolIds : /\ LoanTerm(q, pool)' = LoanTerm(q, pool)
                                 /\ SecurityTerm(q, pool)' = SecurityTerm(q, pool)
        /\ \A s \in Assets : SweptTerm(q, s)' = SweptTerm(q, s)
  BY DEF HoldTerm, Secures, LoanTerm, SecurityTerm, Funded, SweptTerm, Known, AssetOf
<1>3. ASSUME NEW h \in Holdings
      PROVE  /\ CollateralIn(h) \in Nat /\ CollateralIn(h)' \in Nat
             /\ CollateralIn(h)' + HoldTerm(id, h) = CollateralIn(h) + HoldTerm(id, h)'
  <2> DEFINE f == [q \in PositionIds |-> HoldTerm(q, h)]
             g == [q \in PositionIds |-> HoldTerm(q, h)']
  <2>1. CollateralIn(h) = SumOver(f, PositionIds)  BY DEF CollateralIn, HoldTerm
  <2>2. CollateralIn(h)' = SumOver(g, PositionIds)  BY DEF CollateralIn, HoldTerm
  <2>3. \A q \in PositionIds : /\ f[q] \in Nat /\ g[q] \in Nat
                               /\ q # id => g[q] = f[q]
    BY <1>1, <1>2
  <2>4. f[id] = HoldTerm(id, h) /\ g[id] = HoldTerm(id, h)'  OBVIOUS
  <2> HIDE DEF f, g
  <2>5. /\ SumOver(f, PositionIds) \in Nat /\ SumOver(g, PositionIds) \in Nat
        /\ SumOver(g, PositionIds) + f[id] = SumOver(f, PositionIds) + g[id]
    BY <2>3, PositionIdsFinite, SumOverNat, SumUpdate
  <2> QED  BY <2>1, <2>2, <2>4, <2>5
<1>4. ASSUME NEW pool \in PoolIds
      PROVE  /\ PrincipalIn(pool) \in Nat /\ PrincipalIn(pool)' \in Nat
             /\ PrincipalIn(pool)' + LoanTerm(id, pool)
                  = PrincipalIn(pool) + LoanTerm(id, pool)'
  <2> DEFINE f == [q \in PositionIds |-> LoanTerm(q, pool)]
             g == [q \in PositionIds |-> LoanTerm(q, pool)']
  <2>1. PrincipalIn(pool) = SumOver(f, PositionIds)  BY DEF PrincipalIn, LoanTerm
  <2>2. PrincipalIn(pool)' = SumOver(g, PositionIds)  BY DEF PrincipalIn, LoanTerm
  <2>3. \A q \in PositionIds : /\ f[q] \in Nat /\ g[q] \in Nat
                               /\ q # id => g[q] = f[q]
    BY <1>1, <1>2
  <2>4. f[id] = LoanTerm(id, pool) /\ g[id] = LoanTerm(id, pool)'  OBVIOUS
  <2> HIDE DEF f, g
  <2>5. /\ SumOver(f, PositionIds) \in Nat /\ SumOver(g, PositionIds) \in Nat
        /\ SumOver(g, PositionIds) + f[id] = SumOver(f, PositionIds) + g[id]
    BY <2>3, PositionIdsFinite, SumOverNat, SumUpdate
  <2> QED  BY <2>1, <2>2, <2>4, <2>5
<1>5. ASSUME NEW pool \in PoolIds
      PROVE  /\ SecurityIn(pool) \in Nat /\ SecurityIn(pool)' \in Nat
             /\ SecurityIn(pool)' + SecurityTerm(id, pool)
                  = SecurityIn(pool) + SecurityTerm(id, pool)'
  <2> DEFINE f == [q \in PositionIds |-> SecurityTerm(q, pool)]
             g == [q \in PositionIds |-> SecurityTerm(q, pool)']
  <2>1. SecurityIn(pool) = SumOver(f, PositionIds)  BY DEF SecurityIn, SecurityTerm
  <2>2. SecurityIn(pool)' = SumOver(g, PositionIds)  BY DEF SecurityIn, SecurityTerm
  <2>3. \A q \in PositionIds : /\ f[q] \in Nat /\ g[q] \in Nat
                               /\ q # id => g[q] = f[q]
    BY <1>1, <1>2
  <2>4. f[id] = SecurityTerm(id, pool) /\ g[id] = SecurityTerm(id, pool)'  OBVIOUS
  <2> HIDE DEF f, g
  <2>5. /\ SumOver(f, PositionIds) \in Nat /\ SumOver(g, PositionIds) \in Nat
        /\ SumOver(g, PositionIds) + f[id] = SumOver(f, PositionIds) + g[id]
    BY <2>3, PositionIdsFinite, SumOverNat, SumUpdate
  <2> QED  BY <2>1, <2>2, <2>4, <2>5
<1>6. ASSUME NEW s \in Assets
      PROVE  /\ Swept(s) \in Nat /\ Swept(s)' \in Nat
             /\ Swept(s)' + SweptTerm(id, s) = Swept(s) + SweptTerm(id, s)'
  <2> DEFINE f == [q \in PositionIds |-> SweptTerm(q, s)]
             g == [q \in PositionIds |-> SweptTerm(q, s)']
  <2>1. Swept(s) = SumOver(f, PositionIds)  BY DEF Swept, SweptTerm
  <2>2. Swept(s)' = SumOver(g, PositionIds)  BY DEF Swept, SweptTerm
  <2>3. \A q \in PositionIds : /\ f[q] \in Nat /\ g[q] \in Nat
                               /\ q # id => g[q] = f[q]
    BY <1>1, <1>2
  <2>4. f[id] = SweptTerm(id, s) /\ g[id] = SweptTerm(id, s)'  OBVIOUS
  <2> HIDE DEF f, g
  <2>5. /\ SumOver(f, PositionIds) \in Nat /\ SumOver(g, PositionIds) \in Nat
        /\ SumOver(g, PositionIds) + f[id] = SumOver(f, PositionIds) + g[id]
    BY <2>3, PositionIdsFinite, SumOverNat, SumUpdate
  <2> QED  BY <2>1, <2>2, <2>4, <2>5
<1> QED  BY <1>3, <1>4, <1>5, <1>6

\* When one balance changes, so does what the accounts own of its asset.
LEMMA OneBalanceMoves ==
    ASSUME TypeOK, TypeOK', NEW a \in Accounts, NEW s \in Assets,
           \A h \in Holdings : h # <<a, s>> => balance'[h] = balance[h]
    PROVE  /\ \A t \in Assets : /\ Owned(t) \in Nat /\ Owned(t)' \in Nat
                                /\ t # s => Owned(t)' = Owned(t)
           /\ Owned(s)' + balance[<<a, s>>] = Owned(s) + balance'[<<a, s>>]
<1>1. \A h \in Holdings : balance[h] \in Nat /\ balance'[h] \in Nat
  BY AmountIffFits DEF TypeOK
<1>2. \A b \in Accounts, t \in Assets : <<b, t>> \in Holdings  BY DEF Holdings
<1> DEFINE f(t) == [b \in Accounts |-> balance[<<b, t>>]]
           g(t) == [b \in Accounts |-> balance'[<<b, t>>]]
<1>3. \A t \in Assets : /\ Owned(t) = SumOver(f(t), Accounts)
                        /\ Owned(t)' = SumOver(g(t), Accounts)
  BY DEF Owned
<1>4. \A t \in Assets : \A b \in Accounts :
        /\ f(t)[b] = balance[<<b, t>>] /\ g(t)[b] = balance'[<<b, t>>]
        /\ f(t)[b] \in Nat /\ g(t)[b] \in Nat
        /\ (b # a \/ t # s) => g(t)[b] = f(t)[b]
  BY <1>1, <1>2
<1> HIDE DEF f, g
<1>5. IsFiniteSet(Accounts)  BY LedgerAssumption
<1>6. \A t \in Assets : SumOver(f(t), Accounts) \in Nat /\ SumOver(g(t), Accounts) \in Nat
  BY <1>4, <1>5, SumOverNat
<1>7. \A t \in Assets : t # s => SumOver(g(t), Accounts) = SumOver(f(t), Accounts)
  <2> SUFFICES ASSUME NEW t \in Assets, t # s
               PROVE  SumOver(g(t), Accounts) = SumOver(f(t), Accounts)
    OBVIOUS
  <2>1. \A b \in Accounts : g(t)[b] = f(t)[b]  BY <1>4
  <2> QED  BY <2>1, SumSame
<1>8. SumOver(g(s), Accounts) + f(s)[a] = SumOver(f(s), Accounts) + g(s)[a]
  <2>1. \A b \in Accounts : /\ f(s)[b] \in Nat /\ g(s)[b] \in Nat
                            /\ b # a => g(s)[b] = f(s)[b]
    BY <1>4
  <2> QED  BY <2>1, <1>5, SumUpdate
<1> QED  BY <1>3, <1>4, <1>6, <1>7, <1>8

\* When one pool changes, so does the liquidity of its asset.
LEMMA OnePoolMoves ==
    ASSUME TypeOK, TypeOK', NEW p \in PoolIds,
           \A q \in PoolIds : q # p => pools'[q] = pools[q]
    PROVE  /\ \A t \in Assets : /\ Liquid(t) \in Nat /\ Liquid(t)' \in Nat
                                /\ t # PoolAsset[p] => Liquid(t)' = Liquid(t)
           /\ Liquid(PoolAsset[p])' + pools[p].liquidity_available
                = Liquid(PoolAsset[p]) + pools'[p].liquidity_available
<1>1. \A q \in PoolIds : /\ pools[q].liquidity_available \in Nat
                         /\ pools'[q].liquidity_available \in Nat
  BY AmountIffFits DEF TypeOK, Pool
<1>2. PoolAsset[p] \in Assets /\ IsFiniteSet(PoolIds)  BY LedgerAssumption
<1> DEFINE f(t) == [q \in PoolIds |-> LiquidTerm(q, t)]
           g(t) == [q \in PoolIds |-> LiquidTerm(q, t)']
<1>3. \A t \in Assets : /\ Liquid(t) = SumOver(f(t), PoolIds)
                        /\ Liquid(t)' = SumOver(g(t), PoolIds)
  BY DEF Liquid
<1>4. \A t \in Assets : \A q \in PoolIds :
        /\ f(t)[q] \in Nat /\ g(t)[q] \in Nat
        /\ (q # p \/ t # PoolAsset[p]) => g(t)[q] = f(t)[q]
  BY <1>1 DEF LiquidTerm
<1>5. /\ f(PoolAsset[p])[p] = pools[p].liquidity_available
      /\ g(PoolAsset[p])[p] = pools'[p].liquidity_available
  BY DEF LiquidTerm
<1> HIDE DEF f, g
<1>6. \A t \in Assets : SumOver(f(t), PoolIds) \in Nat /\ SumOver(g(t), PoolIds) \in Nat
  BY <1>2, <1>4, SumOverNat
<1>7. \A t \in Assets : t # PoolAsset[p] => SumOver(g(t), PoolIds) = SumOver(f(t), PoolIds)
  <2> SUFFICES ASSUME NEW t \in Assets, t # PoolAsset[p]
               PROVE  SumOver(g(t), PoolIds) = SumOver(f(t), PoolIds)
    OBVIOUS
  <2>1. \A q \in PoolIds : g(t)[q] = f(t)[q]  BY <1>4
  <2> QED  BY <2>1, SumSame
<1>8. SumOver(g(PoolAsset[p]), PoolIds) + f(PoolAsset[p])[p]
        = SumOver(f(PoolAsset[p]), PoolIds) + g(PoolAsset[p])[p]
  <2>1. \A q \in PoolIds : /\ f(PoolAsset[p])[q] \in Nat /\ g(PoolAsset[p])[q] \in Nat
                           /\ q # p => g(PoolAsset[p])[q] = f(PoolAsset[p])[q]
    BY <1>2, <1>4
  <2> QED  BY <2>1, <1>2, SumUpdate
<1> QED  BY <1>2, <1>3, <1>5, <1>6, <1>7, <1>8
---------------------------------------------------------------------------
\* What the methods of a pool do to the fields that the books compare

LEMMA DepositEffect ==
    ASSUME NEW q \in Pool, NEW x \in Nat, DepositInto(q, x).ok
    PROVE  LET n == DepositInto(q, x).pool
           IN  /\ n.liquidity_available = q.liquidity_available + x
               /\ n.principal_outstanding = q.principal_outstanding
               /\ n.collateral_locked = q.collateral_locked
  BY DEF DepositInto, Done, Failed, Pool

LEMMA BorrowEffect ==
    ASSUME NEW q \in Pool, NEW x \in Nat, NEW c \in Nat, Borrow(q, x, c).ok
    PROVE  LET n == Borrow(q, x, c).pool
           IN  /\ n.liquidity_available = q.liquidity_available - x
               /\ n.principal_outstanding = q.principal_outstanding + x
               /\ n.collateral_locked = q.collateral_locked + c
  BY DEF Borrow, Done, Failed, Pool

PaysBack(q, x, i, f, c) ==
    LET n == Repay(q, x, i, f, c).pool
    IN  /\ n.liquidity_available = q.liquidity_available + x + (i + f)
        /\ n.principal_outstanding = q.principal_outstanding - x
        /\ n.collateral_locked = SaturatingSub(q.collateral_locked, c)
LEMMA RepayEffect ==
    ASSUME NEW q \in Pool, NEW x \in Nat, NEW i \in Nat, NEW f \in Nat, NEW c \in Nat,
           Repay(q, x, i, f, c).ok
    PROVE  PaysBack(q, x, i, f, c)
  BY DEF Repay, Done, Failed, Pool, PaysBack

LEMMA ChargeOffEffect ==
    ASSUME NEW q \in Pool, NEW x \in Nat, NEW f \in Nat, NEW c \in Nat,
           ChargeOff(q, x, f, c).ok
    PROVE  LET n == ChargeOff(q, x, f, c).pool
           IN  /\ n.liquidity_available = q.liquidity_available
               /\ n.principal_outstanding = q.principal_outstanding - x
               /\ n.collateral_locked = q.collateral_locked - c
  BY DEF ChargeOff, Done, Failed, Pool

---------------------------------------------------------------------------
\* Where the terms of a position go

TermsShape ==
    \A p \in PositionIds :
        LET pos == positions[p]
            open == Known(p) /\ pos.state \in {"Active", "Locked"}
        IN  /\ \A h \in Holdings :
                 HoldTerm(p, h) = IF open /\ h = <<pos.borrower, AssetOf(p)>>
                                  THEN pos.collateral ELSE 0
            /\ \A pool \in PoolIds :
                 /\ LoanTerm(p, pool) = IF open /\ pool = pos.pool THEN pos.principal ELSE 0
                 /\ SecurityTerm(p, pool) = IF open /\ pool = pos.pool
                                            THEN pos.collateral ELSE 0
            /\ \A s \in Assets :
                 SweptTerm(p, s) = IF /\ Known(p) /\ pos.state = "Expired"
                                      /\ s = AssetOf(p)
                                   THEN pos.collateral ELSE 0

LEMMA TermsShaped == TypeOK => TermsShape
<1> SUFFICES ASSUME TypeOK, NEW p \in PositionIds
             PROVE  LET pos == positions[p]
                        open == Known(p) /\ pos.state \in {"Active", "Locked"}
                    IN  /\ \A h \in Holdings :
                             HoldTerm(p, h) = IF open /\ h = <<pos.borrower, AssetOf(p)>>
                                              THEN pos.collateral ELSE 0
                        /\ \A pool \in PoolIds :
                             /\ LoanTerm(p, pool) = IF open /\ pool = pos.pool
                                                    THEN pos.principal ELSE 0
                             /\ SecurityTerm(p, pool) = IF open /\ pool = pos.pool
                                                        THEN pos.collateral ELSE 0
                        /\ \A s \in Assets :
                             SweptTerm(p, s) = IF /\ Known(p) /\ pos.state = "Expired"
                                                  /\ s = AssetOf(p)
                                               THEN pos.collateral ELSE 0
  BY DEF TermsShape
<1>1. \A h \in Holdings : \A b, s : (h[1] = b /\ h[2] = s) <=> h = <<b, s>>
  BY DEF Holdings
<1>2. \A h \in Holdings :
        Secures(p, h) <=> /\ Known(p) /\ positions[p].state \in {"Active", "Locked"}
                          /\ h = <<positions[p].borrower, AssetOf(p)>>
  BY <1>1 DEF Secures
<1> QED  BY <1>2 DEF HoldTerm, LoanTerm, SecurityTerm, Funded, SweptTerm

LEMMA TermsShapedNext == TypeOK' => TermsShape'
  BY TermsShaped, PTL
---------------------------------------------------------------------------
\* Steps that leave the sums over positions alone

SumsSame ==
    /\ \A h \in Holdings : CollateralIn(h)' = CollateralIn(h)
    /\ \A pool \in PoolIds : /\ PrincipalIn(pool)' = PrincipalIn(pool)
                             /\ SecurityIn(pool)' = SecurityIn(pool)
    /\ \A s \in Assets : Swept(s)' = Swept(s)

LEMMA SamePositions ==
    ASSUME UNCHANGED positions
    PROVE  SumsSame
  BY DEF SumsSame, CollateralIn, PrincipalIn, SecurityIn, Swept, Secures, Funded,
         Known, AssetOf

\* Locks and releases move a position between Active and Locked only.
LEMMA SameTerms ==
    ASSUME TypeOK, TypeOK', NEW id \in PositionIds, Known(id), Known(id)',
           \A q \in PositionIds : q # id => positions'[q] = positions[q],
           LET old == positions[id]  new == positions'[id]
           IN  /\ <<new.borrower, new.pool, new.principal, new.collateral>>
                    = <<old.borrower, old.pool, old.principal, old.collateral>>
               /\ old.state \in {"Active", "Locked"} <=> new.state \in {"Active", "Locked"}
               /\ old.state = "Expired" <=> new.state = "Expired"
    PROVE  SumsSame
<1>1. AssetOf(id)' = AssetOf(id)  BY DEF AssetOf
<1>2. /\ \A h \in Holdings : HoldTerm(id, h)' = HoldTerm(id, h)
      /\ \A pool \in PoolIds : /\ LoanTerm(id, pool)' = LoanTerm(id, pool)
                               /\ SecurityTerm(id, pool)' = SecurityTerm(id, pool)
      /\ \A s \in Assets : SweptTerm(id, s)' = SweptTerm(id, s)
  BY <1>1 DEF HoldTerm, Secures, LoanTerm, SecurityTerm, Funded, SweptTerm
<1>3. TermsNat  BY PositionTermsNat
<1> QED  BY <1>2, <1>3, OnePositionMoves DEF SumsSame, TermsNat

LEMMA QuietBooks ==
    ASSUME Books, SumsSame, UNCHANGED <<balance, held, pools, deposited>>
    PROVE  Books'
<1>1. \A s \in Assets : CashOf(s)' = CashOf(s)  BY DEF CashOf
<1> QED  BY <1>1 DEF Books, SumsSame

LEMMA LiquidSweptNat ==
    ASSUME TypeOK, NEW s \in Assets
    PROVE  Liquid(s) \in Nat /\ Swept(s) \in Nat
<1>1. Liquid(s) \in Nat
  <2> DEFINE f == [p \in PoolIds |-> LiquidTerm(p, s)]
  <2>1. \A p \in PoolIds : f[p] \in Nat
    BY AmountIffFits DEF LiquidTerm, TypeOK, Pool
  <2>2. IsFiniteSet(PoolIds)  BY LedgerAssumption
  <2> HIDE DEF f
  <2>3. SumOver(f, PoolIds) \in Nat  BY <2>1, <2>2, SumOverNat
  <2> QED  BY <2>3 DEF Liquid, f
<1>2. Swept(s) \in Nat
  <2> DEFINE f == [p \in PositionIds |-> SweptTerm(p, s)]
  <2>1. \A p \in PositionIds : f[p] \in Nat
    BY PositionTermsNat DEF TermsNat
  <2> HIDE DEF f
  <2>2. SumOver(f, PositionIds) \in Nat  BY <2>1, PositionIdsFinite, SumOverNat
  <2> QED  BY <2>2 DEF Swept, SweptTerm, f
<1> QED  BY <1>1, <1>2

LEMMA CashParts ==
    /\ \A s \in Assets : CashOf(s) = Owned(s) + Liquid(s)
    /\ \A s \in Assets : CashOf(s)' = Owned(s)' + Liquid(s)'
  BY DEF CashOf, Owned, Liquid, LiquidTerm

LEMMA CreatePoolBooks ==
    ASSUME IInv, BooksInv, NEW p \in PoolIds, CreatePool(p)
    PROVE  BooksInv'
<1>1. pools' = pools /\ live \subseteq live'
  BY DEF CreatePool, BooksInv, IInv, TypeOK
<1>2. UNCHANGED <<balance, held, deposited, positions, anomaly>>
  BY DEF CreatePool
<1> QED  BY <1>1, <1>2, QuietBooks, SamePositions DEF BooksInv, Regular

LEMMA DepositBooks ==
    ASSUME IInv, IInv', BooksInv, NEW a \in Accounts, NEW s \in Assets, NEW x \in Nat,
           Deposit(a, s, x)
    PROVE  BooksInv'
<1>1. /\ balance' = [balance EXCEPT ![<<a, s>>] = @ + x]
      /\ deposited' = [deposited EXCEPT ![s] = @ + x]
      /\ UNCHANGED <<live, held, pools, positions, anomaly>>
  BY DEF Deposit, Credit
<1>2. <<a, s>> \in Holdings  BY DEF Holdings
<1>3. /\ balance'[<<a, s>>] = balance[<<a, s>>] + x
      /\ balance[<<a, s>>] \in Nat
      /\ \A h \in Holdings : h # <<a, s>> => balance'[h] = balance[h]
  BY <1>1, <1>2, BookTypes DEF IInv, TypeOK
<1>4. \A t \in Assets : deposited'[t] = IF t = s THEN deposited[t] + x ELSE deposited[t]
  BY <1>1 DEF IInv, TypeOK
<1>5. \A t \in Assets : Liquid(t)' = Liquid(t)
  BY <1>1 DEF Liquid, LiquidTerm
<1>6. SumsSame  BY <1>1, SamePositions
<1>7. ASSUME Books, NEW t \in Assets
      PROVE  CashOf(t)' + Swept(t)' = deposited'[t]
  <2>1. /\ CashOf(t) = Owned(t) + Liquid(t) /\ CashOf(t)' = Owned(t)' + Liquid(t)'
        /\ CashOf(t) + Swept(t) = deposited[t] /\ Swept(t)' = Swept(t)
    BY <1>6, <1>7, CashParts DEF Books, SumsSame
  <2>2. /\ Owned(t) \in Nat /\ Owned(t)' \in Nat
        /\ t # s => Owned(t)' = Owned(t)
        /\ t = s => Owned(t)' + balance[<<a, s>>] = Owned(t) + balance'[<<a, s>>]
    BY <1>3, OneBalanceMoves DEF IInv
  <2>3. Liquid(t) \in Int /\ Swept(t) \in Int
    BY LiquidSweptNat DEF IInv
  <2> QED  BY <1>3, <1>4, <1>5, <2>1, <2>2, <2>3
<1> QED  BY <1>1, <1>6, <1>7 DEF BooksInv, Books, SumsSame, Regular
---------------------------------------------------------------------------
\* Liquidity and positions.  A step that ends in a regular state has not
\* failed halfway, and has not used a position that was swept.

LEMMA DepositLiquidityBooks ==
    ASSUME IInv, IInv', BooksInv, NEW a \in Accounts, NEW p \in PoolIds, NEW x \in Nat,
           DepositLiquidity(a, p, x)
    PROVE  BooksInv'
<1> DEFINE s == PoolAsset[p]
           n == DepositInto(pools[p], x).pool
<1>1. /\ p \in live
      /\ balance' = [balance EXCEPT ![<<a, s>>] = @ - x]
      /\ pools' = [pools EXCEPT ![p] = n]
      /\ UNCHANGED <<live, held, positions, deposited>>
      /\ anomaly \subseteq anomaly'
      /\ Regular' => DepositInto(pools[p], x).ok
  BY DEF DepositLiquidity, DebitAvailable, Regular
<1>2. s \in Assets /\ <<a, s>> \in Holdings /\ pools[p] \in Pool
  BY LedgerAssumption DEF Holdings, IInv, TypeOK
<1> HIDE DEF n, s
<1>3. /\ balance'[<<a, s>>] = balance[<<a, s>>] - x
      /\ balance[<<a, s>>] \in Nat
      /\ \A h \in Holdings : h # <<a, s>> => balance'[h] = balance[h]
  BY <1>1, <1>2, BookTypes DEF IInv, TypeOK
<1>4. pools'[p] = n /\ \A q \in PoolIds : q # p => pools'[q] = pools[q]
  BY <1>1 DEF IInv, TypeOK
<1>5. SumsSame  BY <1>1, SamePositions
<1>6. ASSUME Regular' PROVE Books'
  <2>1. Books  BY <1>1, <1>6 DEF BooksInv, Regular
  <2>2. /\ n.liquidity_available = pools[p].liquidity_available + x
        /\ n.principal_outstanding = pools[p].principal_outstanding
        /\ n.collateral_locked = pools[p].collateral_locked
    BY <1>1, <1>2, <1>6, DepositEffect DEF n
  <2>3. pools[p].liquidity_available \in Nat
    BY <1>2, AmountIffFits DEF Pool
  <2>4. \A pool \in PoolIds :
          /\ pools'[pool].principal_outstanding = pools[pool].principal_outstanding
          /\ pools'[pool].collateral_locked = pools[pool].collateral_locked
    BY <1>4, <2>2
  <2>5. ASSUME NEW t \in Assets
        PROVE  CashOf(t)' + Swept(t)' = deposited'[t]
    <3>1. /\ CashOf(t) = Owned(t) + Liquid(t) /\ CashOf(t)' = Owned(t)' + Liquid(t)'
          /\ CashOf(t) + Swept(t) = deposited[t] /\ Swept(t)' = Swept(t)
      BY <1>5, <2>1, CashParts DEF Books, SumsSame
    <3>2. /\ Owned(t) \in Nat /\ Owned(t)' \in Nat
          /\ t # s => Owned(t)' = Owned(t)
          /\ t = s => Owned(t)' + balance[<<a, s>>] = Owned(t) + balance'[<<a, s>>]
      BY <1>2, <1>3, OneBalanceMoves DEF IInv
    <3>3. /\ Liquid(t) \in Nat /\ Liquid(t)' \in Nat
          /\ t # s => Liquid(t)' = Liquid(t)
          /\ t = s => Liquid(t)' + pools[p].liquidity_available
                        = Liquid(t) + pools'[p].liquidity_available
      BY <1>4, OnePoolMoves DEF IInv, s
    <3>4. Swept(t) \in Nat  BY LiquidSweptNat DEF IInv
    <3>5. /\ balance'[<<a, s>>] = balance[<<a, s>>] - x /\ balance[<<a, s>>] \in Nat
          /\ pools'[p].liquidity_available = pools[p].liquidity_available + x
          /\ pools[p].liquidity_available \in Nat
      BY <1>3, <1>4, <2>2, <2>3
    <3>6. Owned(t)' + Liquid(t)' = Owned(t) + Liquid(t)
      BY <3>2, <3>3, <3>5
    <3> QED  BY <1>1, <3>1, <3>6
  <2> QED  BY <1>1, <1>5, <2>1, <2>4, <2>5 DEF Books, SumsSame
<1> QED  BY <1>1, <1>4, <1>6 DEF BooksInv

\* An opening reserves what the pool books as security, and pays out what
\* the pool lends.
LEMMA OpenPositionBooks ==
    ASSUME IInv, IInv', BooksInv, NEW a \in Accounts, NEW p \in PoolIds, NEW x \in Nat,
           NEW c \in Nat, NEW m \in Nat, OpenPosition(a, p, x, c, m)
    PROVE  BooksInv'
<1> DEFINE s   == PoolAsset[p]
           h   == <<a, PoolAsset[p]>>
           n   == Borrow(pools[p], x, c).pool
           new == NewPosition(a, p, x, c, m, rates[p])
<1>1. /\ p \in live
      /\ held' = [held EXCEPT ![h] = @ + c]
      /\ pools' = [pools EXCEPT ![p] = n]
      /\ UNCHANGED <<live, deposited>>
      /\ anomaly \subseteq anomaly'
  BY DEF OpenPosition, Reserve
<1>2. s \in Assets /\ h \in Holdings /\ pools[p] \in Pool
  BY LedgerAssumption DEF Holdings, IInv, TypeOK
<1>3. pools'[p] = n /\ \A q \in PoolIds : q # p => pools'[q] = pools[q]
  BY <1>1 DEF IInv, TypeOK
<1>4. ASSUME Regular' PROVE Books'
  <2>1. Books  BY <1>1, <1>4 DEF BooksInv, Regular
  <2>2. PICK id \in NextId(positions, Absent) :
          /\ Borrow(pools[p], x, c).ok
          /\ balance' = [balance EXCEPT ![h] = @ + x]
          /\ positions' = [positions EXCEPT ![id] = new]
    BY <1>4 DEF OpenPosition, Credit, Regular
  <2>3. id \in PositionIds /\ ~Known(id)
    BY DEF NextId, Known, IInv, TypeOK
  <2>4. positions'[id] = new /\ \A q \in PositionIds : q # id => positions'[q] = positions[q]
    BY <2>2, <2>3 DEF IInv, TypeOK
  <2>5. /\ n.liquidity_available = pools[p].liquidity_available - x
        /\ n.principal_outstanding = pools[p].principal_outstanding + x
        /\ n.collateral_locked = pools[p].collateral_locked + c
    BY <1>2, <2>2, BorrowEffect
  <2>6. /\ pools[p].liquidity_available \in Nat /\ pools[p].principal_outstanding \in Nat
        /\ pools[p].collateral_locked \in Nat
    BY <1>2, AmountIffFits DEF Pool
  <2>7. /\ Known(id)' /\ positions'[id].state = "Active"
        /\ positions'[id].borrower = a /\ positions'[id].pool = p
        /\ positions'[id].principal = x /\ positions'[id].collateral = c
        /\ AssetOf(id)' = s
    <3>1. new \in Position
      <4>1. n \in Pool  BY <1>3 DEF IInv, TypeOK
      <4>2. x \in Amount /\ c \in Amount
        BY <2>5, <2>6, <4>1, AmountsAssumption DEF Pool, Amount
      <4>3. 0 \in Amount  BY AmountsAssumption DEF Amount
      <4> QED
        BY <4>2, <4>3 DEF NewPosition, Position, StoredState, IInv, TypeOK
    <3>2. /\ new.state = "Active" /\ new.borrower = a /\ new.pool = p
          /\ new.principal = x /\ new.collateral = c
      BY DEF NewPosition
    <3>3. positions'[id] # Absent
      BY <2>4, <3>1, AbsentAssumption
    <3> QED  BY <2>4, <3>2, <3>3 DEF Known, AssetOf
  <2> HIDE DEF n, s, h, new
  <2>8. /\ balance'[h] = balance[h] + x /\ balance[h] \in Nat
        /\ \A g \in Holdings : g # h => balance'[g] = balance[g]
        /\ \A g \in Holdings : held'[g] = IF g = h THEN held[g] + c ELSE held[g]
    BY <1>1, <1>2, <2>2, BookTypes DEF IInv, TypeOK
  <2>9. TermsShape /\ TermsShape'
    BY TermsShaped, TermsShapedNext DEF IInv
  <2>10. /\ \A g \in Holdings : /\ HoldTerm(id, g) = 0
                               /\ HoldTerm(id, g)' = IF g = h THEN c ELSE 0
         /\ \A pool \in PoolIds :
              /\ LoanTerm(id, pool) = 0 /\ LoanTerm(id, pool)' = IF pool = p THEN x ELSE 0
              /\ SecurityTerm(id, pool) = 0
              /\ SecurityTerm(id, pool)' = IF pool = p THEN c ELSE 0
         /\ \A t \in Assets : SweptTerm(id, t) = 0 /\ SweptTerm(id, t)' = 0
    <3>1. h = <<a, s>>  BY DEF h, s
    <3> QED  BY <2>3, <2>7, <2>9, <3>1 DEF TermsShape
  <2>11. \A g \in Holdings : held'[g] = CollateralIn(g)'
    <3>1. \A g \in Holdings : /\ held[g] = CollateralIn(g)
                              /\ CollateralIn(g) \in Nat /\ CollateralIn(g)' \in Nat
                              /\ CollateralIn(g)' + HoldTerm(id, g)
                                   = CollateralIn(g) + HoldTerm(id, g)'
      BY <2>1, <2>3, <2>4, OnePositionMoves DEF Books, IInv
    <3> QED  BY <2>8, <2>10, <3>1
  <2>12. \A pool \in PoolIds : /\ pools'[pool].principal_outstanding = PrincipalIn(pool)'
                               /\ pools'[pool].collateral_locked = SecurityIn(pool)'
    <3>1. \A pool \in PoolIds :
            /\ pools[pool].principal_outstanding = PrincipalIn(pool)
            /\ pools[pool].collateral_locked = SecurityIn(pool)
            /\ PrincipalIn(pool) \in Nat /\ PrincipalIn(pool)' \in Nat
            /\ PrincipalIn(pool)' + LoanTerm(id, pool)
                 = PrincipalIn(pool) + LoanTerm(id, pool)'
            /\ SecurityIn(pool) \in Nat /\ SecurityIn(pool)' \in Nat
            /\ SecurityIn(pool)' + SecurityTerm(id, pool)
                 = SecurityIn(pool) + SecurityTerm(id, pool)'
      BY <2>1, <2>3, <2>4, OnePositionMoves DEF Books, IInv
    <3> QED  BY <1>3, <2>5, <2>10, <3>1
  <2>13. ASSUME NEW t \in Assets PROVE CashOf(t)' + Swept(t)' = deposited'[t]
    <3>1. /\ CashOf(t) = Owned(t) + Liquid(t) /\ CashOf(t)' = Owned(t)' + Liquid(t)'
          /\ CashOf(t) + Swept(t) = deposited[t]
      BY <2>1, CashParts DEF Books
    <3>2. /\ Owned(t) \in Nat /\ Owned(t)' \in Nat
          /\ t # s => Owned(t)' = Owned(t)
          /\ t = s => Owned(t)' + balance[h] = Owned(t) + balance'[h]
      BY <1>2, <2>8, OneBalanceMoves DEF IInv, h, s
    <3>3. /\ Liquid(t) \in Nat /\ Liquid(t)' \in Nat
          /\ t # s => Liquid(t)' = Liquid(t)
          /\ t = s => Liquid(t)' + pools[p].liquidity_available
                        = Liquid(t) + pools'[p].liquidity_available
      BY <1>3, OnePoolMoves DEF IInv, s
    <3>4. /\ Swept(t) \in Nat /\ Swept(t)' \in Nat
          /\ Swept(t)' + SweptTerm(id, t) = Swept(t) + SweptTerm(id, t)'
      BY <2>3, <2>4, OnePositionMoves DEF IInv
    <3>5. Swept(t)' = Swept(t)  BY <2>10, <3>4
    <3>6. /\ balance'[h] = balance[h] + x /\ balance[h] \in Nat
          /\ pools'[p].liquidity_available = pools[p].liquidity_available - x
          /\ pools[p].liquidity_available \in Nat
      BY <1>3, <2>5, <2>6, <2>8
    <3>7. Owned(t)' + Liquid(t)' = Owned(t) + Liquid(t)
      BY <3>2, <3>3, <3>6
    <3> QED  BY <1>1, <3>1, <3>5, <3>7
  <2> QED  BY <2>11, <2>12, <2>13 DEF Books
<1> QED  BY <1>1, <1>3, <1>4 DEF BooksInv

LEMMA LockPositionLocks ==
    ASSUME IInv, NEW p \in PositionIds, NEW r \in Nat, LockPosition(p, r)
    PROVE  positions'[p].state = "Locked" /\ positions'[p] # Absent
<1> DEFINE pos     == positions[p]
           carried == IF IsBoundary(now, pos.effective_maturity_epoch) THEN pos
                      ELSE Materialize(pos, RateOf(p), now)
<1>1. Known(p) /\ QuoteFits(pos, RateOf(p), now)
  BY DEF LockPosition
<1>2. PICK l \in NextId(locks, Absent) :
        positions' = [positions EXCEPT ![p] = AttachLock(carried, l, r, RateOf(p))]
  BY DEF LockPosition
<1>3. l \in LockIds  BY DEF NextId, IInv, TypeOK
<1>4. pos \in Position /\ RateOf(p) \in Accrual /\ now \in Nat
  BY <1>1, BookTypes DEF IInv
<1>5. carried \in Position
  BY <1>1, <1>4, MaterializeTyped
<1> HIDE DEF carried
<1>6. /\ AttachLock(carried, l, r, RateOf(p)) \in Position
      /\ AttachLock(carried, l, r, RateOf(p)).state = "Locked"
  BY <1>3, <1>4, <1>5, AttachLockTyped, PositionEffects
<1>7. positions'[p] = AttachLock(carried, l, r, RateOf(p))
  BY <1>2 DEF IInv, TypeOK
<1> QED  BY <1>6, <1>7, AbsentAssumption

\* A lock on a position that was not swept leaves every sum alone.
LEMMA LockKeepsSums ==
    ASSUME IInv, IInv', NEW p \in PositionIds, NEW r \in Nat, LockPosition(p, r),
           positions[p].state # "Expired"
    PROVE  SumsSame
<1>1. Known(p) /\ positions[p].state # "Closed"
  BY DEF LockPosition, AdmitsClose
<1>2. PICK l \in NextId(locks, Absent) :
        positions' = [positions EXCEPT ![p] =
          AttachLock(IF IsBoundary(now, positions[p].effective_maturity_epoch)
                     THEN positions[p] ELSE Materialize(positions[p], RateOf(p), now),
                     l, r, RateOf(p))]
  BY DEF LockPosition
<1>3. \A q \in PositionIds : q # p => positions'[q] = positions[q]
  BY <1>2 DEF IInv, TypeOK
<1>4. positions[p].state \in {"Active", "Locked"}
  BY <1>1, BookTypes DEF IInv, StoredState
<1>5. LET old == positions[p]  new == positions'[p]
      IN  /\ new # Absent /\ new.state = "Locked"
          /\ <<new.borrower, new.pool, new.principal, new.collateral>>
               = <<old.borrower, old.pool, old.principal, old.collateral>>
  <2>1. PositionMoves(p)  BY <1>1, LockPositionMoves
  <2>2. <<positions'[p].borrower, positions'[p].pool, positions'[p].principal,
          positions'[p].collateral>>
         = <<positions[p].borrower, positions[p].pool, positions[p].principal,
             positions[p].collateral>>
    BY <1>1, <2>1, MovesKeepTerms DEF IInv
  <2> QED  BY <2>2, LockPositionLocks
<1> QED  BY <1>1, <1>3, <1>4, <1>5, SameTerms DEF IInv, Known

LEMMA LockPositionBooks ==
    ASSUME IInv, IInv', BooksInv, NEW p \in PositionIds, NEW r \in Nat, LockPosition(p, r)
    PROVE  BooksInv'
<1>1. /\ UNCHANGED <<live, balance, held, pools, deposited>>
      /\ anomaly' = anomaly \cup Replay(p)
  BY DEF LockPosition
<1>2. ASSUME Regular' PROVE Books'
  <2>1. Books /\ positions[p].state # "Expired"
    BY <1>1, <1>2 DEF BooksInv, Regular, Replay
  <2> QED  BY <1>1, <2>1, LockKeepsSums, QuietBooks
<1> QED  BY <1>1, <1>2 DEF BooksInv

\* So does every release of a lock.
LEMMA ReleaseKeepsSums ==
    ASSUME IInv, IInv', NEW l \in LockIds, ReleaseLock(l)
    PROVE  SumsSame
<1>1. /\ locks[l] # Absent
      /\ positions' = [positions EXCEPT ![locks[l].position] = DetachLock(@)]
  BY DEF ReleaseLock
<1>2. PICK p \in PositionIds : p = locks[l].position
  BY <1>1, BookTypes DEF IInv, Lock
<1>3. Known(p) /\ positions' = [positions EXCEPT ![p] = DetachLock(@)]
  BY <1>1, <1>2 DEF IInv, LockBinding
<1>4. positions[p] \in Position  BY <1>3, BookTypes DEF IInv
<1>5. LET old == positions[p]  new == DetachLock(positions[p])
      IN  /\ new \in Position
          /\ <<new.borrower, new.pool, new.principal, new.collateral>>
               = <<old.borrower, old.pool, old.principal, old.collateral>>
          /\ old.state \in {"Active", "Locked"} <=> new.state \in {"Active", "Locked"}
          /\ old.state = "Expired" <=> new.state = "Expired"
  <2>1. DetachLock(positions[p]) \in Position  BY <1>4, PositionSteps
  <2> QED  BY <1>4, <2>1 DEF DetachLock, TransitionTo, Position
<1>6. /\ positions'[p] = DetachLock(positions[p])
      /\ \A q \in PositionIds : q # p => positions'[q] = positions[q]
  BY <1>3 DEF IInv, TypeOK
<1>7. Known(p)'  BY <1>5, <1>6, AbsentAssumption DEF Known
<1> QED  BY <1>3, <1>5, <1>6, <1>7, SameTerms DEF IInv

LEMMA ReleaseLockBooks ==
    ASSUME IInv, IInv', BooksInv, NEW l \in LockIds, ReleaseLock(l)
    PROVE  BooksInv'
<1>1. UNCHANGED <<live, balance, held, pools, deposited, anomaly>>
  BY DEF ReleaseLock
<1> QED  BY <1>1, ReleaseKeepsSums, QuietBooks DEF BooksInv, Regular

\* A settlement frees what the position has locked, in the account as in the
\* pool, and passes what the payer loses to the pool.
LEMMA SettlePositionBooks ==
    ASSUME IInv, IInv', CheckInv, BooksInv, NEW p \in PositionIds, NEW payer \in Accounts,
           NEW limit \in Nat, SettlePosition(p, payer, limit)
    PROVE  BooksInv'
<1>1. PICK pos \in Position, s \in Assets, k \in PoolIds :
        pos = positions[p] /\ s = AssetOf(p) /\ k = pos.pool
  <2>1. Known(p)  BY DEF SettlePosition
  <2> QED  BY <2>1, BookTypes DEF IInv
<1>2. PICK i \in Nat, f \in Nat, e \in Nat :
        /\ i = Interest(pos, RateOf(p)) /\ f = Penalty(pos, RateOf(p), now) /\ e = Fee(pos)
  <2>1. Known(p)  BY DEF SettlePosition
  <2> QED  BY <1>1, <2>1, BookTypes, DebtNat DEF IInv
<1>3. PICK due \in Nat : due = TotalDue(pos, RateOf(p), now) /\ due = pos.principal + i + f + e
  <2>1. pos.principal \in Nat  BY <1>1, AmountIffFits DEF Position
  <2> QED  BY <1>2, <2>1 DEF TotalDue
<1>4. PICK h \in Holdings, g \in Holdings : h = <<pos.borrower, s>> /\ g = <<payer, s>>
  BY <1>1 DEF Holdings, Position
<1>5. PICK n \in Pool : n = pools'[k]
  BY DEF IInv, TypeOK
<1>6. /\ Known(p) /\ pos.state # "Closed"
      /\ balance' = [balance EXCEPT ![g] = @ - due]
      /\ pools' = [pools EXCEPT ![k] =
                     Repay(pools[k], pos.principal, i + e, f, pos.collateral).pool]
      /\ anomaly \subseteq anomaly'
      /\ UNCHANGED <<live, deposited>>
  BY <1>1, <1>2, <1>3, <1>4 DEF SettlePosition, DebitAvailable, AdmitsClose
<1>7. n = Repay(pools[k], pos.principal, i + e, f, pos.collateral).pool
      /\ \A q \in PoolIds : q # k => pools'[q] = pools[q]
  BY <1>5, <1>6 DEF IInv, TypeOK
<1>8. k \in live  BY <1>1, <1>6 DEF CheckInv
<1>9. ASSUME Regular' PROVE Books'
  <2>1. Books  BY <1>6, <1>9 DEF BooksInv, Regular
  <2>2. /\ Repay(pools[k], pos.principal, i + e, f, pos.collateral).ok
        /\ held' = [held EXCEPT ![h] = @ - pos.collateral]
        /\ positions' = [positions EXCEPT ![p] = Close(pos)]
        /\ pos.state # "Expired"
    BY <1>1, <1>2, <1>4, <1>9 DEF SettlePosition, Release, Regular, Replay
  <2>3. /\ pos.principal \in Nat /\ pos.collateral \in Nat
        /\ pos.state \in {"Active", "Locked"}
    BY <1>6, <2>2, AmountIffFits DEF Position, StoredState
  <2>4. pools[k] \in Pool  BY DEF IInv, TypeOK
  <2>5. /\ n.liquidity_available = pools[k].liquidity_available + due
        /\ n.principal_outstanding = pools[k].principal_outstanding - pos.principal
        /\ n.collateral_locked = SaturatingSub(pools[k].collateral_locked, pos.collateral)
    <3>1. i + e \in Nat  OBVIOUS
    <3>2. LET r == Repay(pools[k], pos.principal, i + e, f, pos.collateral).pool
          IN  /\ r.liquidity_available
                   = pools[k].liquidity_available + pos.principal + ((i + e) + f)
              /\ r.principal_outstanding = pools[k].principal_outstanding - pos.principal
              /\ r.collateral_locked
                   = SaturatingSub(pools[k].collateral_locked, pos.collateral)
      <4>1. Repay(pools[k], pos.principal, i + e, f, pos.collateral).ok  BY <2>2
      <4>2. pos.principal \in Nat /\ pos.collateral \in Nat  BY <2>3
      <4>3. PaysBack(pools[k], pos.principal, i + e, f, pos.collateral)
        BY <2>4, <3>1, <4>1, <4>2, RepayEffect
      <4> QED  BY <4>3 DEF PaysBack
    <3>3. pools[k].liquidity_available \in Nat  BY <2>4, AmountIffFits DEF Pool
    <3> QED  BY <1>3, <1>7, <2>3, <3>2, <3>3
  <2>6. /\ pools[k].liquidity_available \in Nat /\ pools[k].principal_outstanding \in Nat
        /\ pools[k].collateral_locked \in Nat
    BY <2>4, AmountIffFits DEF Pool
  <2>7. /\ positions'[p] = Close(pos)
        /\ \A q \in PositionIds : q # p => positions'[q] = positions[q]
    BY <2>2 DEF IInv, TypeOK
  <2>8. positions'[p].state = "Closed"  BY <2>7, PositionEffects
  <2>9. /\ balance'[g] = balance[g] - due /\ balance[g] \in Nat
        /\ \A j \in Holdings : j # g => balance'[j] = balance[j]
        /\ \A j \in Holdings : held'[j] = IF j = h THEN held[j] - pos.collateral ELSE held[j]
    BY <1>6, <2>2, BookTypes DEF IInv, TypeOK
  <2>10. TermsShape /\ TermsShape'
    BY TermsShaped, TermsShapedNext DEF IInv
  <2>11. /\ \A j \in Holdings : /\ HoldTerm(p, j) = IF j = h THEN pos.collateral ELSE 0
                               /\ HoldTerm(p, j)' = 0
         /\ \A pool \in PoolIds :
              /\ LoanTerm(p, pool) = IF pool = k THEN pos.principal ELSE 0
              /\ LoanTerm(p, pool)' = 0
              /\ SecurityTerm(p, pool) = IF pool = k THEN pos.collateral ELSE 0
              /\ SecurityTerm(p, pool)' = 0
         /\ \A t \in Assets : SweptTerm(p, t) = 0 /\ SweptTerm(p, t)' = 0
    BY <1>1, <1>4, <1>6, <2>2, <2>3, <2>8, <2>10 DEF TermsShape
  <2>12. \A j \in Holdings : held'[j] = CollateralIn(j)'
    <3>1. \A j \in Holdings : /\ held[j] = CollateralIn(j)
                              /\ CollateralIn(j) \in Nat /\ CollateralIn(j)' \in Nat
                              /\ CollateralIn(j)' + HoldTerm(p, j)
                                   = CollateralIn(j) + HoldTerm(p, j)'
      BY <2>1, <2>7, OnePositionMoves DEF Books, IInv
    <3> QED  BY <2>3, <2>9, <2>11, <3>1
  <2>13. \A pool \in PoolIds : /\ pools'[pool].principal_outstanding = PrincipalIn(pool)'
                               /\ pools'[pool].collateral_locked = SecurityIn(pool)'
    <3>1. \A pool \in PoolIds :
            /\ pools[pool].principal_outstanding = PrincipalIn(pool)
            /\ pools[pool].collateral_locked = SecurityIn(pool)
            /\ PrincipalIn(pool) \in Nat /\ PrincipalIn(pool)' \in Nat
            /\ PrincipalIn(pool)' + LoanTerm(p, pool)
                 = PrincipalIn(pool) + LoanTerm(p, pool)'
            /\ SecurityIn(pool) \in Nat /\ SecurityIn(pool)' \in Nat
            /\ SecurityIn(pool)' + SecurityTerm(p, pool)
                 = SecurityIn(pool) + SecurityTerm(p, pool)'
      BY <2>1, <2>7, OnePositionMoves DEF Books, IInv
    <3>2. SecurityIn(k)' + pos.collateral = pools[k].collateral_locked
      BY <2>3, <2>11, <3>1
    <3>3. n.collateral_locked = SecurityIn(k)'
      BY <2>3, <2>5, <2>6, <3>1, <3>2 DEF SaturatingSub
    <3>4. n.principal_outstanding = PrincipalIn(k)'
      BY <2>3, <2>5, <2>6, <2>11, <3>1
    <3>5. ASSUME NEW pool \in PoolIds, pool # k
          PROVE  /\ pools'[pool].principal_outstanding = PrincipalIn(pool)'
                 /\ pools'[pool].collateral_locked = SecurityIn(pool)'
      BY <1>7, <2>11, <3>1, <3>5
    <3> QED  BY <1>5, <3>3, <3>4, <3>5
  <2>14. ASSUME NEW t \in Assets PROVE CashOf(t)' + Swept(t)' = deposited'[t]
    <3>1. /\ CashOf(t) = Owned(t) + Liquid(t) /\ CashOf(t)' = Owned(t)' + Liquid(t)'
          /\ CashOf(t) + Swept(t) = deposited[t]
      BY <2>1, CashParts DEF Books
    <3>2. /\ Owned(t) \in Nat /\ Owned(t)' \in Nat
          /\ t # s => Owned(t)' = Owned(t)
          /\ t = s => Owned(t)' + balance[g] = Owned(t) + balance'[g]
      BY <1>4, <2>9, OneBalanceMoves DEF IInv
    <3>3. /\ Liquid(t) \in Nat /\ Liquid(t)' \in Nat
          /\ t # s => Liquid(t)' = Liquid(t)
          /\ t = s => Liquid(t)' + pools[k].liquidity_available
                        = Liquid(t) + pools'[k].liquidity_available
      <4>1. s = PoolAsset[k]  BY <1>1 DEF AssetOf
      <4> QED  BY <1>7, <4>1, OnePoolMoves DEF IInv
    <3>4. /\ Swept(t) \in Nat /\ Swept(t)' \in Nat
          /\ Swept(t)' + SweptTerm(p, t) = Swept(t) + SweptTerm(p, t)'
      BY <2>7, OnePositionMoves DEF IInv
    <3>5. Swept(t)' = Swept(t)  BY <2>11, <3>4
    <3>6. /\ balance'[g] = balance[g] - due /\ balance[g] \in Nat
          /\ pools'[k].liquidity_available = pools[k].liquidity_available + due
          /\ pools[k].liquidity_available \in Nat
      BY <1>5, <2>5, <2>6, <2>9
    <3>7. Owned(t)' + Liquid(t)' = Owned(t) + Liquid(t)
      BY <3>2, <3>3, <3>6
    <3> QED  BY <1>6, <3>1, <3>5, <3>7
  <2> QED  BY <2>12, <2>13, <2>14 DEF Books
<1> QED  BY <1>6, <1>7, <1>8, <1>9 DEF BooksInv

\* A sweep takes from the account what the position has locked there, and
\* books it nowhere but in the history of what was swept.
LEMMA ExpirePositionBooks ==
    ASSUME IInv, IInv', CheckInv, BooksInv, NEW p \in PositionIds, ExpirePosition(p)
    PROVE  BooksInv'
<1>1. PICK pos \in Position, s \in Assets, k \in PoolIds :
        pos = positions[p] /\ s = AssetOf(p) /\ k = pos.pool
  <2>1. Known(p)  BY DEF ExpirePosition
  <2> QED  BY <2>1, BookTypes DEF IInv
<1>2. PICK f \in Nat : f = Penalty(pos, RateOf(p), now)
  <2>1. Known(p)  BY DEF ExpirePosition
  <2> QED  BY <1>1, <2>1, BookTypes, DebtNat DEF IInv
<1>3. PICK h \in Holdings : h = <<pos.borrower, s>>
  BY <1>1 DEF Holdings, Position
<1>4. SweepsWhole(p)  BY ExpireTakesAll DEF IInv
<1>5. PICK n \in Pool : n = pools'[k]
  BY DEF IInv, TypeOK
<1>6. /\ Known(p) /\ pos.state # "Closed"
      /\ balance' = [balance EXCEPT ![h] = @ - pos.collateral]
      /\ held' = [held EXCEPT ![h] = @ - pos.collateral]
      /\ pools' = [pools EXCEPT ![k] =
                     ChargeOff(pools[k], pos.principal, f, pos.collateral).pool]
      /\ anomaly \subseteq anomaly'
      /\ UNCHANGED <<live, deposited>>
  BY <1>1, <1>2, <1>3, <1>4 DEF SweepsWhole, ExpirePosition, AdmitsClose
<1>7. n = ChargeOff(pools[k], pos.principal, f, pos.collateral).pool
      /\ \A q \in PoolIds : q # k => pools'[q] = pools[q]
  BY <1>5, <1>6 DEF IInv, TypeOK
<1>8. k \in live  BY <1>1, <1>6 DEF CheckInv
<1>9. ASSUME Regular' PROVE Books'
  <2>1. Books  BY <1>6, <1>9 DEF BooksInv, Regular
  <2>2. /\ ChargeOff(pools[k], pos.principal, f, pos.collateral).ok
        /\ positions' = [positions EXCEPT ![p] = Expire(pos)]
        /\ pos.state # "Expired"
    BY <1>1, <1>2, <1>4, <1>9 DEF SweepsWhole, Regular, Replay
  <2>3. /\ pos.principal \in Nat /\ pos.collateral \in Nat
        /\ pos.state \in {"Active", "Locked"}
    BY <1>6, <2>2, AmountIffFits DEF Position, StoredState
  <2>4. pools[k] \in Pool  BY DEF IInv, TypeOK
  <2>5. /\ n.liquidity_available = pools[k].liquidity_available
        /\ n.principal_outstanding = pools[k].principal_outstanding - pos.principal
        /\ n.collateral_locked = pools[k].collateral_locked - pos.collateral
    <3>1. LET r == ChargeOff(pools[k], pos.principal, f, pos.collateral).pool
          IN  /\ r.liquidity_available = pools[k].liquidity_available
              /\ r.principal_outstanding = pools[k].principal_outstanding - pos.principal
              /\ r.collateral_locked = pools[k].collateral_locked - pos.collateral
      BY <2>2, <2>3, <2>4, ChargeOffEffect
    <3> QED  BY <1>7, <3>1
  <2>6. /\ pools[k].liquidity_available \in Nat /\ pools[k].principal_outstanding \in Nat
        /\ pools[k].collateral_locked \in Nat
    BY <2>4, AmountIffFits DEF Pool
  <2>7. /\ positions'[p] = Expire(pos)
        /\ \A q \in PositionIds : q # p => positions'[q] = positions[q]
    BY <2>2 DEF IInv, TypeOK
  <2>8. /\ positions'[p].state = "Expired" /\ Known(p)'
        /\ positions'[p].collateral = pos.collateral /\ AssetOf(p)' = s
    <3>1. Expire(pos) \in Position /\ Expire(pos).state = "Expired"
      BY PositionSteps, PositionEffects
    <3>2. Expire(pos).collateral = pos.collateral /\ Expire(pos).pool = pos.pool
      BY DEF Expire, TransitionTo, Position
    <3> QED  BY <1>1, <2>7, <3>1, <3>2, AbsentAssumption DEF Known, AssetOf
  <2>9. /\ balance'[h] = balance[h] - pos.collateral /\ balance[h] \in Nat
        /\ \A j \in Holdings : j # h => balance'[j] = balance[j]
        /\ \A j \in Holdings : held'[j] = IF j = h THEN held[j] - pos.collateral ELSE held[j]
    BY <1>6, BookTypes DEF IInv, TypeOK
  <2>10. TermsShape /\ TermsShape'
    BY TermsShaped, TermsShapedNext DEF IInv
  <2>11. /\ \A j \in Holdings : /\ HoldTerm(p, j) = IF j = h THEN pos.collateral ELSE 0
                               /\ HoldTerm(p, j)' = 0
         /\ \A pool \in PoolIds :
              /\ LoanTerm(p, pool) = IF pool = k THEN pos.principal ELSE 0
              /\ LoanTerm(p, pool)' = 0
              /\ SecurityTerm(p, pool) = IF pool = k THEN pos.collateral ELSE 0
              /\ SecurityTerm(p, pool)' = 0
         /\ \A t \in Assets : /\ SweptTerm(p, t) = 0
                             /\ SweptTerm(p, t)' = IF t = s THEN pos.collateral ELSE 0
    BY <1>1, <1>3, <1>6, <2>2, <2>3, <2>8, <2>10 DEF TermsShape
  <2>12. \A j \in Holdings : held'[j] = CollateralIn(j)'
    <3>1. \A j \in Holdings : /\ held[j] = CollateralIn(j)
                              /\ CollateralIn(j) \in Nat /\ CollateralIn(j)' \in Nat
                              /\ CollateralIn(j)' + HoldTerm(p, j)
                                   = CollateralIn(j) + HoldTerm(p, j)'
      BY <2>1, <2>7, OnePositionMoves DEF Books, IInv
    <3> QED  BY <2>3, <2>9, <2>11, <3>1
  <2>13. \A pool \in PoolIds : /\ pools'[pool].principal_outstanding = PrincipalIn(pool)'
                               /\ pools'[pool].collateral_locked = SecurityIn(pool)'
    <3>1. \A pool \in PoolIds :
            /\ pools[pool].principal_outstanding = PrincipalIn(pool)
            /\ pools[pool].collateral_locked = SecurityIn(pool)
            /\ PrincipalIn(pool) \in Nat /\ PrincipalIn(pool)' \in Nat
            /\ PrincipalIn(pool)' + LoanTerm(p, pool)
                 = PrincipalIn(pool) + LoanTerm(p, pool)'
            /\ SecurityIn(pool) \in Nat /\ SecurityIn(pool)' \in Nat
            /\ SecurityIn(pool)' + SecurityTerm(p, pool)
                 = SecurityIn(pool) + SecurityTerm(p, pool)'
      BY <2>1, <2>7, OnePositionMoves DEF Books, IInv
    <3>2. n.collateral_locked = SecurityIn(k)' /\ n.principal_outstanding = PrincipalIn(k)'
      BY <2>3, <2>5, <2>6, <2>11, <3>1
    <3>3. ASSUME NEW pool \in PoolIds, pool # k
          PROVE  /\ pools'[pool].principal_outstanding = PrincipalIn(pool)'
                 /\ pools'[pool].collateral_locked = SecurityIn(pool)'
      BY <1>7, <2>11, <3>1, <3>3
    <3> QED  BY <1>5, <3>2, <3>3
  <2>14. ASSUME NEW t \in Assets PROVE CashOf(t)' + Swept(t)' = deposited'[t]
    <3>1. /\ CashOf(t) = Owned(t) + Liquid(t) /\ CashOf(t)' = Owned(t)' + Liquid(t)'
          /\ CashOf(t) + Swept(t) = deposited[t]
      BY <2>1, CashParts DEF Books
    <3>2. /\ Owned(t) \in Nat /\ Owned(t)' \in Nat
          /\ t # s => Owned(t)' = Owned(t)
          /\ t = s => Owned(t)' + balance[h] = Owned(t) + balance'[h]
      BY <1>1, <1>3, <2>9, OneBalanceMoves DEF IInv, Position
    <3>3. /\ Liquid(t) \in Nat /\ Liquid(t)' \in Nat
          /\ t # s => Liquid(t)' = Liquid(t)
          /\ t = s => Liquid(t)' + pools[k].liquidity_available
                        = Liquid(t) + pools'[k].liquidity_available
      <4>1. s = PoolAsset[k]  BY <1>1 DEF AssetOf
      <4> QED  BY <1>7, <4>1, OnePoolMoves DEF IInv
    <3>4. /\ Swept(t) \in Nat /\ Swept(t)' \in Nat
          /\ Swept(t)' + SweptTerm(p, t) = Swept(t) + SweptTerm(p, t)'
      BY <2>7, OnePositionMoves DEF IInv
    <3>5. Swept(t)' = IF t = s THEN Swept(t) + pos.collateral ELSE Swept(t)
      BY <2>3, <2>11, <3>4
    <3>6. /\ balance'[h] = balance[h] - pos.collateral /\ balance[h] \in Nat
          /\ pools'[k].liquidity_available = pools[k].liquidity_available
          /\ pools[k].liquidity_available \in Nat
      BY <1>5, <2>5, <2>6, <2>9
    <3>7. Owned(t)' + Liquid(t)' + Swept(t)' = Owned(t) + Liquid(t) + Swept(t)
      BY <2>3, <3>2, <3>3, <3>4, <3>5, <3>6
    <3> QED  BY <1>6, <3>1, <3>7
  <2> QED  BY <2>12, <2>13, <2>14 DEF Books
<1> QED  BY <1>6, <1>7, <1>8, <1>9 DEF BooksInv
---------------------------------------------------------------------------
\* The invariant

LEMMA BooksInit == Init => BooksInv
<1> SUFFICES ASSUME Init PROVE BooksInv  OBVIOUS
<1>1. TypeOK  BY InitInv DEF IInv
<1>2. \A p \in PositionIds : ~Known(p)  BY DEF Init, Known
<1>3. \A p \in PositionIds :
        /\ \A h \in Holdings : HoldTerm(p, h) = 0
        /\ \A pool \in PoolIds : LoanTerm(p, pool) = 0 /\ SecurityTerm(p, pool) = 0
        /\ \A s \in Assets : SweptTerm(p, s) = 0
  BY <1>2 DEF HoldTerm, Secures, LoanTerm, SecurityTerm, Funded, SweptTerm
<1>4. ASSUME NEW f, \A p \in PositionIds : f[p] = 0 PROVE SumOver(f, PositionIds) = 0
  BY <1>4, PositionIdsFinite, SumZero
<1>5. \A h \in Holdings : CollateralIn(h) = 0
  BY <1>3, <1>4 DEF CollateralIn, HoldTerm
<1>6. \A pool \in PoolIds : PrincipalIn(pool) = 0 /\ SecurityIn(pool) = 0
  BY <1>3, <1>4 DEF PrincipalIn, LoanTerm, SecurityIn, SecurityTerm
<1>7. \A s \in Assets : Swept(s) = 0
  BY <1>3, <1>4 DEF Swept, SweptTerm
<1>8. \A p \in PoolIds :
        /\ pools[p].liquidity_available = IF p \in SetupPools THEN SetupLiquidity[p] ELSE 0
        /\ pools[p].principal_outstanding = 0 /\ pools[p].collateral_locked = 0
        /\ p \notin live => pools[p] = NewPool
  BY DEF Init, NewPool
<1>9. ASSUME NEW s \in Assets PROVE CashOf(s) + Swept(s) = deposited[s]
  <2> DEFINE T == {p \in SetupPools : PoolAsset[p] = s}
             g == [p \in PoolIds |-> LiquidTerm(p, s)]
  <2>1. T \in SUBSET PoolIds  BY LedgerAssumption
  <2>2. \A p \in PoolIds : g[p] = IF p \in T THEN SetupLiquidity[p] ELSE 0
    BY <1>8 DEF LiquidTerm
  <2> HIDE DEF g, T
  <2>3. SumOver(g, PoolIds) = SumOver(SetupLiquidity, T)
    BY <2>1, <2>2, SumRestrict
  <2>4. CashOf(s) = Owned(s) + SumOver(g, PoolIds)  BY CashParts DEF Liquid, g
  <2>5. Owned(s) = SumOver([a \in Accounts |-> SetupBalance[<<a, s>>]], Accounts)
    BY DEF Owned, Init
  <2>6. deposited[s] = Owned(s) + SumOver(SetupLiquidity, T)
    BY <2>5 DEF Init, T
  <2>7. deposited[s] \in Nat  BY <1>1 DEF TypeOK
  <2> QED  BY <1>7, <2>3, <2>4, <2>6, <2>7
<1>10. \A h \in Holdings : held[h] = 0  BY DEF Init
<1> QED  BY <1>5, <1>6, <1>8, <1>9, <1>10 DEF BooksInv, Books

LEMMA BooksStep == IInv /\ IInv' /\ CheckInv /\ BooksInv /\ [Next]_vars => BooksInv'
<1> SUFFICES ASSUME IInv, IInv', CheckInv, BooksInv, [Next]_vars PROVE BooksInv'
  OBVIOUS
<1>1. ASSUME NEW p \in PoolIds, CreatePool(p) PROVE BooksInv'
  BY <1>1, CreatePoolBooks
<1>2. ASSUME NEW a \in Accounts, NEW s \in Assets, NEW x \in DepositAmounts,
             Deposit(a, s, x)
      PROVE  BooksInv'
  BY <1>2, DepositBooks, LedgerAssumption
<1>3. ASSUME NEW a \in Accounts, NEW p \in PoolIds, NEW x \in DepositAmounts,
             DepositLiquidity(a, p, x)
      PROVE  BooksInv'
  BY <1>3, DepositLiquidityBooks, LedgerAssumption
<1>4. ASSUME NEW a \in Accounts, NEW p \in PoolIds, NEW x \in Principals,
             NEW c \in Collaterals, NEW m \in Maturities, OpenPosition(a, p, x, c, m)
      PROVE  BooksInv'
  BY <1>4, OpenPositionBooks, LedgerAssumption
<1>5. ASSUME NEW p \in PositionIds, NEW r \in Releases, LockPosition(p, r)
      PROVE  BooksInv'
  BY <1>5, LockPositionBooks, LedgerAssumption
<1>6. ASSUME NEW l \in LockIds, ReleaseLock(l) PROVE BooksInv'
  BY <1>6, ReleaseLockBooks
<1>7. ASSUME NEW p \in PositionIds, NEW a \in Accounts, NEW d \in DueLimits,
             SettlePosition(p, a, d)
      PROVE  BooksInv'
  BY <1>7, SettlePositionBooks, LedgerAssumption
<1>8. ASSUME NEW p \in PositionIds, ExpirePosition(p) PROVE BooksInv'
  BY <1>8, ExpirePositionBooks
<1>9. CASE \/ \E s \in Assets, config \in AssetConfigs : RegisterAssetConfig(s, config)
           \/ \E n \in Advances : AdvanceEpochs(n)
           \/ AdvanceLoop
           \/ UNCHANGED vars
  <2>1. /\ UNCHANGED <<live, balance, held, pools, positions, deposited>>
        /\ anomaly \subseteq anomaly'
    BY <1>9 DEF RegisterAssetConfig, AdvanceEpochs, AdvanceLoop, AccruePool, StallAdvance,
                bookVars, vars
  <2> QED  BY <2>1, SamePositions, QuietBooks DEF BooksInv, Regular
<1> QED  BY <1>1, <1>2, <1>3, <1>4, <1>5, <1>6, <1>7, <1>8, <1>9 DEF Next

LEMMA BooksAlways == Spec => []BooksInv
<1>1. IInv /\ CheckInv /\ BooksInv /\ [Next]_vars => BooksInv'
  BY NextInv, BooksStep
<1>2. Spec => []IInv /\ []CheckInv
  BY Inductive, CheckAlways
<1> QED  BY <1>1, <1>2, BooksInit, PTL DEF Spec

\* In a regular history the holds of an account are the collateral of its
\* open positions, however many it has, over all pools of the asset.
THEOREM HoldsMatch == Spec => []HoldsMatchCollateral
<1>1. BooksInv => HoldsMatchCollateral
  BY DEF BooksInv, Books, Regular, HoldsMatchCollateral
<1> QED  BY <1>1, BooksAlways, PTL

\* The aggregates of a pool, which repay and charge_off compare before they
\* subtract, are the sums over its open positions.
THEOREM PoolsMatch == Spec => []PoolMatchesPositions
<1>1. BooksInv => PoolMatchesPositions
  BY DEF BooksInv, Books, Regular, PoolMatchesPositions
<1> QED  BY <1>1, BooksAlways, PTL

\* No regular call creates or destroys cash, whatever interest, penalties and
\* fees it computes.
THEOREM Conservation == Spec => []CashConserved
<1>1. BooksInv => CashConserved
  BY DEF BooksInv, Books, Regular, CashConserved
<1> QED  BY <1>1, BooksAlways, PTL

---------------------------------------------------------------------------
\* The utilization of a pool

\* A pool with liquidity l and outstanding principal o is within limit m.
Within(l, o, m) == l + o = 0 \/ o * BPS_DENOMINATOR < (m + 1) * (l + o)

LEMMA UtilizationBound ==
    ASSUME NEW q \in Pool, NEW m \in Nat
    PROVE  Utilization(q) <= m
             <=> Within(q.liquidity_available, q.principal_outstanding, m)
<1>1. q.principal_outstanding \in Nat /\ q.liquidity_available \in Nat
  BY AmountIffFits DEF Pool
<1>2. q.principal_outstanding * BPS_DENOMINATOR \in Nat
  BY <1>1, TimesNat, AmountsAssumption
<1>3. CASE Funds(q) = 0
  BY <1>1, <1>3 DEF Utilization, Within, Funds
<1>4. CASE Funds(q) # 0
  <2>1. Funds(q) \in Nat \ {0}  BY <1>1, <1>4 DEF Funds
  <2>2. Utilization(q) = (q.principal_outstanding * BPS_DENOMINATOR) \div Funds(q)
    BY <1>4 DEF Utilization
  <2> QED  BY <1>2, <1>4, <2>1, <2>2, DivBound DEF Within, Funds
<1> QED  BY <1>3, <1>4

\* More liquidity or less principal never raises it above a limit of at most
\* one.
LEMMA WithinRelaxed ==
    ASSUME NEW l \in Nat, NEW o \in Nat, NEW l2 \in Nat, NEW o2 \in Nat,
           l <= l2, o2 <= o, NEW m \in Nat, m <= BPS_DENOMINATOR, Within(l, o, m)
    PROVE  Within(l2, o2, m)
<1> DEFINE B == BPS_DENOMINATOR
<1>1. B \in Nat  BY AmountsAssumption
<1> HIDE DEF B
<1>2. CASE m = BPS_DENOMINATOR
  <2>1. (m + 1) * (l2 + o2) = m * l2 + l2 + o2 * m + o2  OBVIOUS
  <2>2. m * l2 \in Nat  BY TimesNat
  <2>3. o2 * m \in Nat  BY TimesNat
  <2> QED  BY <1>2, <2>1, <2>2, <2>3 DEF Within
<1>3. CASE m + 1 <= BPS_DENOMINATOR
  <2>1. PICK d \in Nat : BPS_DENOMINATOR = (m + 1) + d
    <3>1. BPS_DENOMINATOR - (m + 1) \in Nat  BY <1>1, <1>3 DEF B
    <3>2. BPS_DENOMINATOR = (m + 1) + (BPS_DENOMINATOR - (m + 1))  BY <1>1 DEF B
    <3> QED  BY <3>1, <3>2
  <2>2. \A x, y \in Nat : x * BPS_DENOMINATOR < (m + 1) * (y + x) <=> x * d < (m + 1) * y
    <3> SUFFICES ASSUME NEW x \in Nat, NEW y \in Nat
                 PROVE  x * BPS_DENOMINATOR < (m + 1) * (y + x) <=> x * d < (m + 1) * y
      OBVIOUS
    <3>1. x * BPS_DENOMINATOR = (m + 1) * x + x * d  BY <2>1
    <3>2. (m + 1) * (y + x) = (m + 1) * y + (m + 1) * x  OBVIOUS
    <3>3. (m + 1) * x \in Nat /\ x * d \in Nat /\ (m + 1) * y \in Nat  BY TimesNat
    <3> QED  BY <3>1, <3>2, <3>3
  <2>3. CASE l + o = 0
    <3>1. o2 = 0  BY <2>3
    <3>2. l2 + o2 # 0 => (m + 1) * (l2 + o2) > 0  OBVIOUS
    <3> QED  BY <1>1, <3>1, <3>2 DEF Within, B
  <2>4. CASE l + o # 0
    <3>1. o * d < (m + 1) * l  BY <2>2, <2>4 DEF Within
    <3>2. o2 * d <= o * d /\ (m + 1) * l <= (m + 1) * l2  OBVIOUS
    <3>3. /\ o * d \in Nat /\ o2 * d \in Nat
          /\ (m + 1) * l \in Nat /\ (m + 1) * l2 \in Nat
      BY TimesNat
    <3>4. o2 * d < (m + 1) * l2  BY <3>1, <3>2, <3>3
    <3> QED  BY <2>2, <3>4 DEF Within
  <2> QED  BY <2>3, <2>4
<1> QED  BY <1>1, <1>2, <1>3 DEF B

\* A pool method that fails after it has lent leaves less liquidity and no
\* more principal: also that stays within a limit that covers the whole loan.
LEMMA WithinLent ==
    ASSUME NEW l \in Nat, NEW o \in Nat, NEW x \in Nat, x <= l,
           NEW m \in Nat, m <= BPS_DENOMINATOR, Within(l - x, o + x, m)
    PROVE  Within(l - x, o, m)
<1>1. l - x \in Nat /\ o + x \in Nat  OBVIOUS
<1> QED  BY <1>1, WithinRelaxed

Bounded(q) == Utilization(q) <= MaxUtilization

\* A pool with no less liquidity and no more principal than a bounded one.
LEMMA BoundedRelaxed ==
    ASSUME NEW q \in Pool, NEW n \in Pool, Bounded(q),
           q.liquidity_available <= n.liquidity_available,
           n.principal_outstanding <= q.principal_outstanding
    PROVE  Bounded(n)
<1>1. /\ q.liquidity_available \in Nat /\ q.principal_outstanding \in Nat
      /\ n.liquidity_available \in Nat /\ n.principal_outstanding \in Nat
  BY AmountIffFits DEF Pool
<1> QED  BY <1>1, UtilizationBound, WithinRelaxed, PoolsAssumption DEF Bounded

\* Deposits, repayments and write-offs, complete or cut short, only lower the
\* utilization.
LEMMA DepositBounded ==
    ASSUME NEW q \in Pool, NEW x \in Nat, DepositInto(q, x).pool \in Pool, Bounded(q)
    PROVE  Bounded(DepositInto(q, x).pool)
<1> DEFINE n == DepositInto(q, x).pool
<1>1. q.liquidity_available \in Nat /\ q.principal_outstanding \in Nat
  BY AmountIffFits DEF Pool
<1>2. /\ q.liquidity_available <= n.liquidity_available
      /\ n.principal_outstanding <= q.principal_outstanding
  BY <1>1 DEF DepositInto, Done, Failed, Pool
<1> HIDE DEF n
<1>3. n \in Pool  BY DEF n
<1> QED  BY <1>2, <1>3, BoundedRelaxed DEF n

LEMMA RepayBounded ==
    ASSUME NEW q \in Pool, NEW x \in Nat, NEW i \in Nat, NEW f \in Nat, NEW c \in Nat,
           Repay(q, x, i, f, c).pool \in Pool, Bounded(q)
    PROVE  Bounded(Repay(q, x, i, f, c).pool)
<1> DEFINE n == Repay(q, x, i, f, c).pool
<1>1. q.liquidity_available \in Nat /\ q.principal_outstanding \in Nat
  BY AmountIffFits DEF Pool
<1>2. /\ q.liquidity_available <= n.liquidity_available
      /\ n.principal_outstanding <= q.principal_outstanding
  BY <1>1 DEF Repay, Done, Failed, Pool
<1> HIDE DEF n
<1>3. n \in Pool  BY DEF n
<1> QED  BY <1>2, <1>3, BoundedRelaxed DEF n

LEMMA ChargeOffBounded ==
    ASSUME NEW q \in Pool, NEW x \in Nat, NEW f \in Nat, NEW c \in Nat,
           ChargeOff(q, x, f, c).pool \in Pool, Bounded(q)
    PROVE  Bounded(ChargeOff(q, x, f, c).pool)
<1> DEFINE n == ChargeOff(q, x, f, c).pool
<1>1. q.liquidity_available \in Nat /\ q.principal_outstanding \in Nat
  BY AmountIffFits DEF Pool
<1>2. /\ q.liquidity_available <= n.liquidity_available
      /\ n.principal_outstanding <= q.principal_outstanding
  BY <1>1 DEF ChargeOff, Done, Failed, Pool
<1> HIDE DEF n
<1>3. n \in Pool  BY DEF n
<1> QED  BY <1>2, <1>3, BoundedRelaxed DEF n

\* The narrowing to 32 bits changes no utilization that a pool can reach: a
\* loan of at most the liquidity leaves at most BPS_DENOMINATOR.
LEMMA NarrowingExact ==
    ASSUME NEW o \in Nat, NEW t \in Nat \ {0}, o <= t
    PROVE  AsU32((o * BPS_DENOMINATOR) \div t) = (o * BPS_DENOMINATOR) \div t
<1>1. o * BPS_DENOMINATOR \in Nat /\ BPS_DENOMINATOR \in Nat
  BY TimesNat, AmountsAssumption
<1>2. o * BPS_DENOMINATOR < (BPS_DENOMINATOR + 1) * t
  <2>1. o * BPS_DENOMINATOR <= t * BPS_DENOMINATOR  BY <1>1
  <2>2. (BPS_DENOMINATOR + 1) * t = t * BPS_DENOMINATOR + t  BY <1>1
  <2>3. t * BPS_DENOMINATOR \in Nat  BY <1>1, TimesNat
  <2> QED  BY <1>1, <2>1, <2>2, <2>3
<1>3. (o * BPS_DENOMINATOR) \div t <= BPS_DENOMINATOR
  BY <1>1, <1>2, DivBound
<1>4. (o * BPS_DENOMINATOR) \div t \in Nat  BY <1>1, DivNat
<1>5. \A u \in Nat : u <= BPS_DENOMINATOR => u % U32 = u
  BY AmountsAssumption
<1> QED  BY <1>3, <1>4, <1>5 DEF AsU32

\* What the risk engine has accepted, the pool lends within the limit, and
\* also where it fails after taking the liquidity.
LEMMA BorrowBounded ==
    ASSUME NEW a, NEW q \in Pool, NEW x \in Nat, NEW c \in Nat, x > 0,
           RiskAcceptsOpen(a, q, x, c), Borrow(q, x, c).pool \in Pool, Bounded(q)
    PROVE  Bounded(Borrow(q, x, c).pool)
<1> DEFINE n == Borrow(q, x, c).pool
           l == q.liquidity_available
           o == q.principal_outstanding
<1>1. l \in Nat /\ o \in Nat  BY AmountIffFits DEF Pool
<1>2. CASE n = q  BY <1>2
<1>3. CASE x <= l /\ n.liquidity_available = l - x /\ n.principal_outstanding \in {o, o + x}
  <2>1. Funds(q) \in Nat \ {0} /\ o + x <= Funds(q) /\ o + x \in Nat
    BY <1>1, <1>3 DEF Funds
  <2>2. (o + x) * BPS_DENOMINATOR \in Nat  BY <2>1, TimesNat, AmountsAssumption
  <2>3. UtilizationAfter(q, x) = ((o + x) * BPS_DENOMINATOR) \div Funds(q)
    BY <2>1 DEF UtilizationAfter
  <2>4. UtilizationAfter(q, x) <= MaxUtilization
    BY <2>1, <2>3, NarrowingExact DEF RiskAcceptsOpen
  <2>5. (o + x) * BPS_DENOMINATOR < (MaxUtilization + 1) * Funds(q)
    BY <2>1, <2>2, <2>3, <2>4, DivBound, PoolsAssumption
  <2>6. Funds(q) = (l - x) + (o + x)  BY <1>1 DEF Funds
  <2>7. Within(l - x, o + x, MaxUtilization)
    BY <2>5, <2>6 DEF Within
  <2>8. Within(l - x, o, MaxUtilization)
    BY <1>1, <1>3, <2>7, WithinLent, PoolsAssumption
  <2>9. n \in Pool  OBVIOUS
  <2> HIDE DEF n, l, o
  <2>10. Bounded(n)
    BY <1>3, <2>7, <2>8, <2>9, UtilizationBound, PoolsAssumption DEF Bounded
  <2> QED  BY <2>10 DEF n
<1>4. n = q \/ (/\ x <= l /\ n.liquidity_available = l - x
                /\ n.principal_outstanding \in {o, o + x})
  BY <1>1 DEF Borrow, Done, Failed, Pool
<1> QED  BY <1>2, <1>3, <1>4

\* The limit holds for pools that do not exist yet as well: create_pool finds
\* them new.
LimitInv == \A p \in PoolIds : Bounded(pools[p])

\* Every step leaves a pool alone, renews it, or takes it through one of the
\* four methods of src/pools.
LEMMA OnePoolBounded ==
    ASSUME IInv, IInv', LimitInv, NEW p \in PoolIds, NEW n,
           pools' = [pools EXCEPT ![p] = n], n \in Pool => Bounded(n)
    PROVE  LimitInv'
<1>1. \A q \in PoolIds : pools'[q] = IF q = p THEN n ELSE pools[q]
  BY DEF IInv, TypeOK
<1>2. \A q \in PoolIds : pools'[q] \in Pool  BY DEF IInv, TypeOK
<1>3. n \in Pool  BY <1>1, <1>2
<1> HIDE DEF Bounded
<1>4. Bounded(n)  BY <1>3
<1> QED  BY <1>1, <1>4 DEF LimitInv

LEMMA LimitStep == IInv /\ IInv' /\ LimitInv /\ [Next]_vars => LimitInv'
<1> SUFFICES ASSUME IInv, IInv', LimitInv, [Next]_vars PROVE LimitInv'
  OBVIOUS
<1>a. \A p \in PoolIds : pools[p] \in Pool /\ Bounded(pools[p])
  BY DEF IInv, TypeOK, LimitInv
<1>1. ASSUME NEW p \in PoolIds, CreatePool(p) PROVE LimitInv'
  <2>1. pools' = [pools EXCEPT ![p] = NewPool]  BY <1>1 DEF CreatePool
  <2>2. Bounded(NewPool)
    BY PoolsAssumption DEF Bounded, Utilization, Funds, NewPool
  <2> QED  BY <2>1, <2>2, OnePoolBounded
<1>2. ASSUME NEW a \in Accounts, NEW p \in PoolIds, NEW x \in DepositAmounts,
             DepositLiquidity(a, p, x)
      PROVE  LimitInv'
  <2>1. pools' = [pools EXCEPT ![p] = DepositInto(pools[p], x).pool]
    BY <1>2 DEF DepositLiquidity
  <2>2. x \in Nat  BY LedgerAssumption
  <2> QED  BY <1>a, <2>1, <2>2, DepositBounded, OnePoolBounded
<1>3. ASSUME NEW a \in Accounts, NEW p \in PoolIds, NEW x \in Principals,
             NEW c \in Collaterals, NEW m \in Maturities, OpenPosition(a, p, x, c, m)
      PROVE  LimitInv'
  <2>1. /\ pools' = [pools EXCEPT ![p] = Borrow(pools[p], x, c).pool]
        /\ x > 0 /\ RiskAcceptsOpen(a, pools[p], x, c)
    BY <1>3 DEF OpenPosition, AcceptsBorrow
  <2>2. x \in Nat /\ c \in Nat  BY LedgerAssumption
  <2> QED  BY <1>a, <2>1, <2>2, BorrowBounded, OnePoolBounded
<1>4. ASSUME NEW p \in PositionIds, NEW a \in Accounts, NEW d \in DueLimits,
             SettlePosition(p, a, d)
      PROVE  LimitInv'
  <2> DEFINE pos == positions[p]
             i == Interest(pos, RateOf(p)) + Fee(pos)
             f == Penalty(pos, RateOf(p), now)
  <2>1. /\ Known(p)
        /\ pools' = [pools EXCEPT ![pos.pool] =
                       Repay(pools[pos.pool], pos.principal, i, f, pos.collateral).pool]
    BY <1>4 DEF SettlePosition
  <2>2. /\ pos \in Position /\ RateOf(p) \in Accrual /\ now \in Nat
        /\ pos.pool \in PoolIds /\ pos.principal \in Nat /\ pos.collateral \in Nat
    BY <2>1, BookTypes DEF IInv
  <2>3. i \in Nat /\ f \in Nat  BY <2>2, DebtNat
  <2> HIDE DEF i, f, pos
  <2> QED  BY <1>a, <2>1, <2>2, <2>3, RepayBounded, OnePoolBounded
<1>5. ASSUME NEW p \in PositionIds, ExpirePosition(p) PROVE LimitInv'
  <2> DEFINE pos == positions[p]
             f == Penalty(pos, RateOf(p), now)
             c == pos.collateral
  <2>1. /\ Known(p)
        /\ pools' = [pools EXCEPT ![pos.pool] =
                       ChargeOff(pools[pos.pool], pos.principal, f, c).pool]
    BY <1>5, ExpireTakesAll DEF SweepsWhole, IInv
  <2>2. /\ pos \in Position /\ RateOf(p) \in Accrual /\ now \in Nat
        /\ pos.pool \in PoolIds /\ pos.principal \in Nat /\ pos.collateral \in Nat
    BY <2>1, BookTypes DEF IInv
  <2>3. f \in Nat /\ c \in Nat  BY <2>2, DebtNat
  <2> HIDE DEF c, f, pos
  <2> QED  BY <1>a, <2>1, <2>2, <2>3, ChargeOffBounded, OnePoolBounded
<1>6. CASE UNCHANGED pools
  BY <1>6 DEF LimitInv
<1>7. \/ UNCHANGED pools
      \/ \E p \in PoolIds : CreatePool(p)
      \/ \E a \in Accounts, p \in PoolIds, x \in DepositAmounts : DepositLiquidity(a, p, x)
      \/ \E a \in Accounts, p \in PoolIds, x \in Principals, c \in Collaterals,
            m \in Maturities : OpenPosition(a, p, x, c, m)
      \/ \E p \in PositionIds, a \in Accounts, d \in DueLimits : SettlePosition(p, a, d)
      \/ \E p \in PositionIds : ExpirePosition(p)
  BY DEF Next, AdvanceLoop, vars, bookVars, RegisterAssetConfig, Deposit, AdvanceEpochs,
         AccruePool, StallAdvance, LockPosition, ReleaseLock
<1> QED  BY <1>1, <1>2, <1>3, <1>4, <1>5, <1>6, <1>7

LEMMA LimitInit == Init => LimitInv
<1> SUFFICES ASSUME Init, NEW p \in PoolIds PROVE Bounded(pools[p])
  BY DEF LimitInv
<1>1. pools[p].principal_outstanding = 0 /\ pools[p] \in Pool
  BY InitInv DEF Init, NewPool, IInv, TypeOK
<1>2. pools[p].liquidity_available \in Nat  BY <1>1, AmountIffFits DEF Pool
<1>3. Within(pools[p].liquidity_available, 0, MaxUtilization)
  <2>1. \A l \in Nat \ {0} : (MaxUtilization + 1) * l > 0 /\ 0 * BPS_DENOMINATOR = 0
    BY PoolsAssumption, AmountsAssumption
  <2> QED  BY <1>2, <2>1 DEF Within
<1> QED  BY <1>1, <1>3, UtilizationBound, PoolsAssumption DEF Bounded

LEMMA LimitAlways == Spec => []LimitInv
<1>1. Spec => [](IInv /\ LimitInv)
  BY InitInv, NextInv, LimitInit, LimitStep, PTL DEF Spec
<1> QED  BY <1>1, PTL

\* No sequence of calls takes the utilization of a pool above the limit that
\* open_position compares it with, for any amounts and any limit, and the
\* narrowing of that comparison to 32 bits lets nothing through.
THEOREM UtilizationLimited == Spec => []UtilizationWithinLimit
<1>1. IInv /\ LimitInv => UtilizationWithinLimit
  BY DEF IInv, TypeOK, LimitInv, Bounded, UtilizationWithinLimit
<1> QED  BY <1>1, Inductive, LimitAlways, PTL
---------------------------------------------------------------------------
\* What an auditor adds up

\* The fields of a pool that only collect.
LEMMA DepositCollects ==
    ASSUME NEW q \in Pool, NEW x \in Nat, DepositInto(q, x).ok
    PROVE  LET n == DepositInto(q, x).pool
           IN  /\ n.reserve_balance = q.reserve_balance
               /\ n.interest_collected = q.interest_collected
               /\ n.penalty_collected = q.penalty_collected
  BY DEF DepositInto, Done, Failed, Pool

LEMMA BorrowCollects ==
    ASSUME NEW q \in Pool, NEW x \in Nat, NEW c \in Nat, Borrow(q, x, c).ok
    PROVE  LET n == Borrow(q, x, c).pool
           IN  /\ n.reserve_balance = q.reserve_balance
               /\ n.interest_collected = q.interest_collected
               /\ n.penalty_collected = q.penalty_collected
  BY DEF Borrow, Done, Failed, Pool

Collects(q, x, i, f, c) ==
    LET n == Repay(q, x, i, f, c).pool
    IN  /\ n.reserve_balance = q.reserve_balance + MulBps(i + f, ReserveFactor)
        /\ n.interest_collected = q.interest_collected + i
        /\ n.penalty_collected = q.penalty_collected + f
LEMMA RepayCollects ==
    ASSUME NEW q \in Pool, NEW x \in Nat, NEW i \in Nat, NEW f \in Nat, NEW c \in Nat,
           Repay(q, x, i, f, c).ok
    PROVE  Collects(q, x, i, f, c)
  BY DEF Repay, Done, Failed, Pool, Collects

LEMMA ChargeOffCollects ==
    ASSUME NEW q \in Pool, NEW x \in Nat, NEW f \in Nat, NEW c \in Nat,
           ChargeOff(q, x, f, c).ok
    PROVE  LET n == ChargeOff(q, x, f, c).pool
           IN  /\ n.reserve_balance = q.reserve_balance + c + f
               /\ n.interest_collected = q.interest_collected
               /\ n.penalty_collected = q.penalty_collected + f
  BY DEF ChargeOff, Done, Failed, Pool

\* The reserve takes a part of the charges.
LEMMA ReserveCut ==
    ASSUME NEW x \in Nat
    PROVE  MulBps(x, ReserveFactor) \in Nat /\ MulBps(x, ReserveFactor) <= x
<1>1. /\ BPS_DENOMINATOR \in Nat \ {0} /\ ReserveFactor \in Nat
      /\ ReserveFactor <= BPS_DENOMINATOR
  BY AmountsAssumption, PoolsAssumption
<1>2. x * ReserveFactor \in Nat  BY <1>1, TimesNat
<1>3. x * ReserveFactor < (x + 1) * BPS_DENOMINATOR
  <2>1. x * ReserveFactor <= x * BPS_DENOMINATOR  BY <1>1
  <2>2. (x + 1) * BPS_DENOMINATOR = x * BPS_DENOMINATOR + BPS_DENOMINATOR  BY <1>1
  <2>3. x * BPS_DENOMINATOR \in Nat  BY <1>1, TimesNat
  <2> QED  BY <1>1, <1>2, <2>1, <2>2, <2>3
<1>4. (x * ReserveFactor) \div BPS_DENOMINATOR <= x
  BY <1>1, <1>2, <1>3, DivBound
<1> QED  BY <1>1, <1>4, MulBpsNat DEF MulBps

\* Sums over the pools of an asset.
LEMMA PoolSumMoves ==
    ASSUME NEW p \in PoolIds, NEW f, NEW g,
           \A q \in PoolIds : f[q] \in Nat /\ g[q] \in Nat,
           \A q \in PoolIds : q # p => g[q] = f[q], NEW s \in Assets
    PROVE  /\ PoolSum(f, s) \in Nat /\ PoolSum(g, s) \in Nat
           /\ PoolAsset[p] # s => PoolSum(g, s) = PoolSum(f, s)
           /\ PoolAsset[p] = s => PoolSum(g, s) + f[p] = PoolSum(f, s) + g[p]
<1> DEFINE u == [q \in PoolIds |-> IF PoolAsset[q] = s THEN f[q] ELSE 0]
           v == [q \in PoolIds |-> IF PoolAsset[q] = s THEN g[q] ELSE 0]
<1>1. \A q \in PoolIds : /\ u[q] \in Nat /\ v[q] \in Nat
                         /\ q # p => v[q] = u[q]
  OBVIOUS
<1>2. /\ PoolAsset[p] # s => u[p] = 0 /\ v[p] = 0
      /\ PoolAsset[p] = s => u[p] = f[p] /\ v[p] = g[p]
  OBVIOUS
<1>3. PoolSum(f, s) = SumOver(u, PoolIds) /\ PoolSum(g, s) = SumOver(v, PoolIds)
  BY DEF PoolSum
<1> HIDE DEF u, v
<1>4. IsFiniteSet(PoolIds)  BY LedgerAssumption
<1>5. SumOver(u, PoolIds) \in Nat /\ SumOver(v, PoolIds) \in Nat
  BY <1>1, <1>4, SumOverNat
<1>6. SumOver(v, PoolIds) + u[p] = SumOver(u, PoolIds) + v[p]
  BY <1>1, <1>4, SumUpdate
<1> QED  BY <1>2, <1>3, <1>5, <1>6

\* One pool collects: the reserves and the charges of its asset move by what
\* it has booked.
LEMMA OnePoolCollects ==
    ASSUME TypeOK, TypeOK', NEW p \in PoolIds,
           \A q \in PoolIds : q # p => pools'[q] = pools[q], NEW s \in Assets
    PROVE  LET old == pools[p]  new == pools'[p]
           IN  /\ ReservesOf(s) \in Nat /\ ReservesOf(s)' \in Nat
               /\ ChargesOf(s) \in Nat /\ ChargesOf(s)' \in Nat
               /\ PoolAsset[p] # s =>
                    ReservesOf(s)' = ReservesOf(s) /\ ChargesOf(s)' = ChargesOf(s)
               /\ PoolAsset[p] = s =>
                    /\ ReservesOf(s)' + old.reserve_balance
                         = ReservesOf(s) + new.reserve_balance
                    /\ ChargesOf(s)' + (old.interest_collected + old.penalty_collected)
                         = ChargesOf(s) + (new.interest_collected + new.penalty_collected)
<1> DEFINE f == [q \in PoolIds |-> pools[q].reserve_balance]
           g == [q \in PoolIds |-> pools'[q].reserve_balance]
           u == [q \in PoolIds |-> pools[q].interest_collected + pools[q].penalty_collected]
           v == [q \in PoolIds |-> pools'[q].interest_collected + pools'[q].penalty_collected]
<1>1. \A q \in PoolIds :
        /\ pools[q].reserve_balance \in Nat /\ pools'[q].reserve_balance \in Nat
        /\ pools[q].interest_collected \in Nat /\ pools'[q].interest_collected \in Nat
        /\ pools[q].penalty_collected \in Nat /\ pools'[q].penalty_collected \in Nat
  BY AmountIffFits DEF TypeOK, Pool
<1>2. \A q \in PoolIds : /\ f[q] \in Nat /\ g[q] \in Nat /\ u[q] \in Nat /\ v[q] \in Nat
                         /\ q # p => g[q] = f[q] /\ v[q] = u[q]
  BY <1>1
<1>3. /\ f[p] = pools[p].reserve_balance /\ g[p] = pools'[p].reserve_balance
      /\ u[p] = pools[p].interest_collected + pools[p].penalty_collected
      /\ v[p] = pools'[p].interest_collected + pools'[p].penalty_collected
  OBVIOUS
<1>4. /\ ReservesOf(s) = PoolSum(f, s) /\ ReservesOf(s)' = PoolSum(g, s)
      /\ ChargesOf(s) = PoolSum(u, s) /\ ChargesOf(s)' = PoolSum(v, s)
  BY DEF ReservesOf, ChargesOf, PoolSum
<1> HIDE DEF f, g, u, v
<1>5. /\ PoolSum(f, s) \in Nat /\ PoolSum(g, s) \in Nat
      /\ PoolAsset[p] # s => PoolSum(g, s) = PoolSum(f, s)
      /\ PoolAsset[p] = s => PoolSum(g, s) + f[p] = PoolSum(f, s) + g[p]
  BY <1>2, PoolSumMoves
<1>6. /\ PoolSum(u, s) \in Nat /\ PoolSum(v, s) \in Nat
      /\ PoolAsset[p] # s => PoolSum(v, s) = PoolSum(u, s)
      /\ PoolAsset[p] = s => PoolSum(v, s) + u[p] = PoolSum(u, s) + v[p]
  BY <1>2, PoolSumMoves
<1> QED  BY <1>3, <1>4, <1>5, <1>6


\* Reserves hold what the sweeps took, and at most the charges on top of it;
\* and no position stands for an empty loan.
Reserved(s) == Swept(s) <= ReservesOf(s) /\ ReservesOf(s) <= Swept(s) + ChargesOf(s)
ReserveInv ==
    /\ \A p \in PositionIds : Known(p) => positions[p].principal > 0
    /\ Regular => \A s \in Assets : Reserved(s)

\* Pools that book nothing leave the reserves and the charges as they are.
LEMMA QuietSums ==
    ASSUME \A q \in PoolIds :
             /\ pools'[q].reserve_balance = pools[q].reserve_balance
             /\ pools'[q].interest_collected = pools[q].interest_collected
             /\ pools'[q].penalty_collected = pools[q].penalty_collected,
           NEW s \in Assets
    PROVE  ReservesOf(s)' = ReservesOf(s) /\ ChargesOf(s)' = ChargesOf(s)
<1>1. [q \in PoolIds |-> pools'[q].reserve_balance]
        = [q \in PoolIds |-> pools[q].reserve_balance]
  OBVIOUS
<1>2. [q \in PoolIds |-> pools'[q].interest_collected + pools'[q].penalty_collected]
        = [q \in PoolIds |-> pools[q].interest_collected + pools[q].penalty_collected]
  OBVIOUS
<1> QED  BY <1>1, <1>2 DEF ReservesOf, ChargesOf, PoolSum

\* A step that books nothing and sweeps nothing keeps them matched.
LEMMA QuietReserves ==
    ASSUME ReserveInv, Regular, SumsSame,
           \A q \in PoolIds :
             /\ pools'[q].reserve_balance = pools[q].reserve_balance
             /\ pools'[q].interest_collected = pools[q].interest_collected
             /\ pools'[q].penalty_collected = pools[q].penalty_collected
    PROVE  \A s \in Assets : Reserved(s)'
  BY QuietSums DEF ReserveInv, Reserved, SumsSame

\* Loans are real: every step keeps the principal of a position, and opens
\* none without.
LEMMA LoansStayReal ==
    ASSUME IInv, ReserveInv, [Next]_vars, NEW p \in PositionIds, Known(p)'
    PROVE  positions'[p].principal > 0
<1>1. CASE Known(p)
  <2>1. PositionMoves(p)  BY <1>1, StepsMovePositions
  <2>2. positions'[p].principal = positions[p].principal
    BY <1>1, <2>1, MovesKeepTerms DEF IInv
  <2> QED  BY <1>1, <2>2 DEF ReserveInv
<1>2. CASE ~Known(p)
  <2>1. positions'[p] # positions[p]  BY <1>2 DEF Known
  <2>2. ASSUME NEW a \in Accounts, NEW k \in PoolIds, NEW x \in Principals,
               NEW c \in Collaterals, NEW m \in Maturities, OpenPosition(a, k, x, c, m)
        PROVE  positions'[p].principal > 0
    <3>1. x > 0  BY <2>2 DEF OpenPosition, AcceptsBorrow
    <3>2. PICK id \in NextId(positions, Absent) :
            positions' = [positions EXCEPT ![id] = NewPosition(a, k, x, c, m, rates[k])]
      BY <2>1, <2>2 DEF OpenPosition
    <3>3. positions'[p] = NewPosition(a, k, x, c, m, rates[k])
      BY <2>1, <3>2 DEF NextId, IInv, TypeOK
    <3> QED  BY <3>1, <3>3 DEF NewPosition
  <2>3. ASSUME NEW q \in PositionIds, NEW r \in Releases, LockPosition(q, r)
        PROVE  FALSE
    <3>1. q # p  BY <1>2, <2>3 DEF LockPosition
    <3> QED  BY <2>1, <2>3, <3>1 DEF LockPosition, IInv, TypeOK
  <2>4. ASSUME NEW l \in LockIds, ReleaseLock(l)
        PROVE  FALSE
    <3>1. Known(locks[l].position)  BY <2>4 DEF ReleaseLock, IInv, LockBinding
    <3> QED  BY <1>2, <2>1, <2>4, <3>1 DEF ReleaseLock, IInv, TypeOK
  <2>5. ASSUME NEW q \in PositionIds,
               \/ \E a \in Accounts, d \in DueLimits : SettlePosition(q, a, d)
               \/ ExpirePosition(q)
        PROVE  FALSE
    <3>1. q # p  BY <1>2, <2>5 DEF SettlePosition, ExpirePosition
    <3> QED  BY <2>1, <2>5, <3>1 DEF SettlePosition, ExpirePosition, IInv, TypeOK
  <2>6. \/ \E a \in Accounts, k \in PoolIds, x \in Principals, c \in Collaterals,
              m \in Maturities : OpenPosition(a, k, x, c, m)
        \/ \E q \in PositionIds, r \in Releases : LockPosition(q, r)
        \/ \E l \in LockIds : ReleaseLock(l)
        \/ \E q \in PositionIds :
              \/ \E a \in Accounts, d \in DueLimits : SettlePosition(q, a, d)
              \/ ExpirePosition(q)
    BY <2>1 DEF Next, AdvanceLoop, vars, bookVars, RegisterAssetConfig, CreatePool, Deposit,
                DepositLiquidity, AdvanceEpochs, AccruePool, StallAdvance
  <2> QED  BY <2>2, <2>3, <2>4, <2>5, <2>6
<1> QED  BY <1>1, <1>2

LEMMA SettlementReserves ==
    ASSUME IInv, IInv', ReserveInv, NEW p \in PositionIds, NEW payer \in Accounts,
           NEW limit \in Nat, SettlePosition(p, payer, limit), Regular'
    PROVE  \A s \in Assets : Reserved(s)'
<1>1. PICK pos \in Position, k \in PoolIds : pos = positions[p] /\ k = pos.pool
  <2>1. Known(p)  BY DEF SettlePosition
  <2> QED  BY <2>1, BookTypes DEF IInv
<1>2. PICK i \in Nat, f \in Nat : /\ i = Interest(pos, RateOf(p)) + Fee(pos)
                                  /\ f = Penalty(pos, RateOf(p), now)
  <2>1. Known(p)  BY DEF SettlePosition
  <2> QED  BY <1>1, <2>1, BookTypes, DebtNat DEF IInv
<1>3. /\ Known(p) /\ pos.state # "Closed" /\ pos.state # "Expired"
      /\ Repay(pools[k], pos.principal, i, f, pos.collateral).ok
      /\ pools' = [pools EXCEPT ![k] = Repay(pools[k], pos.principal, i, f, pos.collateral).pool]
      /\ positions' = [positions EXCEPT ![p] = Close(pos)]
      /\ Regular
  BY <1>1, <1>2 DEF SettlePosition, AdmitsClose, Regular, Replay
<1>4. PICK n \in Pool, old \in Pool : n = pools'[k] /\ old = pools[k]
  BY DEF IInv, TypeOK
<1>5. n = Repay(old, pos.principal, i, f, pos.collateral).pool
      /\ \A q \in PoolIds : q # k => pools'[q] = pools[q]
  BY <1>3, <1>4 DEF IInv, TypeOK
<1>6. /\ n.reserve_balance = old.reserve_balance + MulBps(i + f, ReserveFactor)
      /\ n.interest_collected = old.interest_collected + i
      /\ n.penalty_collected = old.penalty_collected + f
  <2>1. pos.principal \in Nat /\ pos.collateral \in Nat
    BY AmountIffFits DEF Position
  <2>2. pools[k] \in Pool  BY <1>4
  <2>3. LET r == Repay(pools[k], pos.principal, i, f, pos.collateral).pool
        IN  /\ r.reserve_balance = pools[k].reserve_balance + MulBps(i + f, ReserveFactor)
            /\ r.interest_collected = pools[k].interest_collected + i
            /\ r.penalty_collected = pools[k].penalty_collected + f
    <3>1. Repay(pools[k], pos.principal, i, f, pos.collateral).ok  BY <1>3
    <3>2. Collects(pools[k], pos.principal, i, f, pos.collateral)
      BY <2>1, <2>2, <3>1, RepayCollects
    <3> QED  BY <3>2 DEF Collects
  <2> QED  BY <1>4, <1>5, <2>3
<1>7. /\ old.reserve_balance \in Nat /\ old.interest_collected \in Nat
      /\ old.penalty_collected \in Nat
  BY AmountIffFits DEF Pool
<1>8. MulBps(i + f, ReserveFactor) \in Nat /\ MulBps(i + f, ReserveFactor) <= i + f
  BY ReserveCut
<1>9. ASSUME NEW s \in Assets PROVE Reserved(s)'
  <2>1. /\ Swept(s) \in Nat /\ Swept(s)' \in Nat
        /\ Swept(s)' + SweptTerm(p, s) = Swept(s) + SweptTerm(p, s)'
    <3>1. \A q \in PositionIds : q # p => positions'[q] = positions[q]
      BY <1>3 DEF IInv, TypeOK
    <3> QED  BY <3>1, OnePositionMoves DEF IInv
  <2>2. SweptTerm(p, s) = 0 /\ SweptTerm(p, s)' = 0
    <3>1. positions'[p].state = "Closed"
      BY <1>3, PositionEffects DEF IInv, TypeOK
    <3> QED  BY <1>1, <1>3, <3>1 DEF SweptTerm
  <2>3. Swept(s) <= ReservesOf(s) /\ ReservesOf(s) <= Swept(s) + ChargesOf(s)
    BY <1>3 DEF ReserveInv, Reserved
  <2>4. /\ ReservesOf(s) \in Nat /\ ReservesOf(s)' \in Nat
        /\ ChargesOf(s) \in Nat /\ ChargesOf(s)' \in Nat
        /\ PoolAsset[k] # s => ReservesOf(s)' = ReservesOf(s) /\ ChargesOf(s)' = ChargesOf(s)
        /\ PoolAsset[k] = s =>
             /\ ReservesOf(s)' + old.reserve_balance = ReservesOf(s) + n.reserve_balance
             /\ ChargesOf(s)' + (old.interest_collected + old.penalty_collected)
                  = ChargesOf(s) + (n.interest_collected + n.penalty_collected)
    BY <1>4, <1>5, OnePoolCollects DEF IInv
  <2>5. CASE PoolAsset[k] # s  BY <2>1, <2>2, <2>3, <2>4, <2>5 DEF Reserved
  <2>6. CASE PoolAsset[k] = s
    <3>1. ReservesOf(s)' = ReservesOf(s) + MulBps(i + f, ReserveFactor)
      BY <1>6, <1>7, <1>8, <2>4, <2>6
    <3>2. ChargesOf(s)' = ChargesOf(s) + (i + f)
      BY <1>6, <1>7, <2>4, <2>6
    <3> QED  BY <1>8, <2>1, <2>2, <2>3, <2>4, <3>1, <3>2 DEF Reserved
  <2> QED  BY <2>5, <2>6
<1> QED  BY <1>9

LEMMA SweepReserves ==
    ASSUME IInv, IInv', ReserveInv, NEW p \in PositionIds, ExpirePosition(p), Regular'
    PROVE  \A s \in Assets : Reserved(s)'
<1>1. PICK pos \in Position, k \in PoolIds : pos = positions[p] /\ k = pos.pool
  <2>1. Known(p)  BY DEF ExpirePosition
  <2> QED  BY <2>1, BookTypes DEF IInv
<1>2. PICK f \in Nat : f = Penalty(pos, RateOf(p), now)
  <2>1. Known(p)  BY DEF ExpirePosition
  <2> QED  BY <1>1, <2>1, BookTypes, DebtNat DEF IInv
<1>3. SweepsWhole(p)  BY ExpireTakesAll DEF IInv
<1>4. /\ Known(p) /\ pos.state # "Closed" /\ pos.state # "Expired"
      /\ ChargeOff(pools[k], pos.principal, f, pos.collateral).ok
      /\ pools' = [pools EXCEPT ![k] =
                     ChargeOff(pools[k], pos.principal, f, pos.collateral).pool]
      /\ positions' = [positions EXCEPT ![p] = Expire(pos)]
      /\ Regular
  <2>1. /\ Known(p) /\ pos.state # "Closed"
        /\ pools' = [pools EXCEPT ![k] =
                       ChargeOff(pools[k], pos.principal, f, pos.collateral).pool]
    BY <1>1, <1>2, <1>3 DEF SweepsWhole, ExpirePosition, AdmitsClose
  <2>2. /\ ChargeOff(pools[k], pos.principal, f, pos.collateral).ok
        /\ positions' = [positions EXCEPT ![p] = Expire(pos)]
        /\ pos.state # "Expired"
    BY <1>1, <1>2, <1>3 DEF SweepsWhole, Regular, Replay
  <2>3. Regular  BY DEF ExpirePosition, Regular
  <2> QED  BY <2>1, <2>2, <2>3
<1>5. PICK n \in Pool, old \in Pool : n = pools'[k] /\ old = pools[k]
  BY DEF IInv, TypeOK
<1>6. n = ChargeOff(old, pos.principal, f, pos.collateral).pool
      /\ \A q \in PoolIds : q # k => pools'[q] = pools[q]
  BY <1>4, <1>5 DEF IInv, TypeOK
<1>7. pos.principal \in Nat /\ pos.collateral \in Nat
  BY AmountIffFits DEF Position
<1>8. /\ n.reserve_balance = old.reserve_balance + pos.collateral + f
      /\ n.interest_collected = old.interest_collected
      /\ n.penalty_collected = old.penalty_collected + f
  <2>1. ChargeOff(old, pos.principal, f, pos.collateral).ok  BY <1>4, <1>5
  <2>2. LET m == ChargeOff(old, pos.principal, f, pos.collateral).pool
        IN  /\ m.reserve_balance = old.reserve_balance + pos.collateral + f
            /\ m.interest_collected = old.interest_collected
            /\ m.penalty_collected = old.penalty_collected + f
    BY <1>7, <2>1, ChargeOffCollects
  <2>3. n = ChargeOff(old, pos.principal, f, pos.collateral).pool  BY <1>6
  <2> QED  BY <2>2, <2>3
<1>9. /\ old.reserve_balance \in Nat /\ old.interest_collected \in Nat
      /\ old.penalty_collected \in Nat
  BY AmountIffFits DEF Pool
<1>10. ASSUME NEW s \in Assets PROVE Reserved(s)'
  <2>1. /\ Swept(s) \in Nat /\ Swept(s)' \in Nat
        /\ Swept(s)' + SweptTerm(p, s) = Swept(s) + SweptTerm(p, s)'
    <3>1. \A q \in PositionIds : q # p => positions'[q] = positions[q]
      BY <1>4 DEF IInv, TypeOK
    <3> QED  BY <3>1, OnePositionMoves DEF IInv
  <2>2. /\ SweptTerm(p, s) = 0
        /\ SweptTerm(p, s)' = IF PoolAsset[k] = s THEN pos.collateral ELSE 0
    <3>1. Expire(pos) \in Position /\ Expire(pos).state = "Expired"
      BY PositionSteps, PositionEffects
    <3>2. Expire(pos).collateral = pos.collateral /\ Expire(pos).pool = pos.pool
      BY DEF Expire, TransitionTo, Position
    <3>3. positions'[p] = Expire(pos)  BY <1>4 DEF IInv, TypeOK
    <3>4. Known(p)' /\ AssetOf(p)' = PoolAsset[k]
      BY <1>1, <3>1, <3>2, <3>3, AbsentAssumption DEF Known, AssetOf
    <3> QED  BY <1>1, <1>4, <3>1, <3>2, <3>3, <3>4 DEF SweptTerm
  <2>3. Swept(s) <= ReservesOf(s) /\ ReservesOf(s) <= Swept(s) + ChargesOf(s)
    BY <1>4 DEF ReserveInv, Reserved
  <2>4. /\ ReservesOf(s) \in Nat /\ ReservesOf(s)' \in Nat
        /\ ChargesOf(s) \in Nat /\ ChargesOf(s)' \in Nat
        /\ PoolAsset[k] # s => ReservesOf(s)' = ReservesOf(s) /\ ChargesOf(s)' = ChargesOf(s)
        /\ PoolAsset[k] = s =>
             /\ ReservesOf(s)' + old.reserve_balance = ReservesOf(s) + n.reserve_balance
             /\ ChargesOf(s)' + (old.interest_collected + old.penalty_collected)
                  = ChargesOf(s) + (n.interest_collected + n.penalty_collected)
    BY <1>5, <1>6, OnePoolCollects DEF IInv
  <2>5. CASE PoolAsset[k] # s  BY <2>1, <2>2, <2>3, <2>4, <2>5 DEF Reserved
  <2>6. CASE PoolAsset[k] = s
    <3>1. ReservesOf(s)' = ReservesOf(s) + pos.collateral + f
      BY <1>7, <1>8, <1>9, <2>4, <2>6
    <3>2. ChargesOf(s)' = ChargesOf(s) + f
      BY <1>2, <1>8, <1>9, <2>4, <2>6
    <3>3. Swept(s)' = Swept(s) + pos.collateral
      BY <1>7, <2>1, <2>2, <2>6
    <3> QED  BY <1>7, <2>1, <2>3, <2>4, <3>1, <3>2, <3>3 DEF Reserved
  <2> QED  BY <2>5, <2>6
<1> QED  BY <1>10

LEMMA ReserveStep ==
    IInv /\ IInv' /\ BooksInv /\ ReserveInv /\ [Next]_vars => ReserveInv'
<1> SUFFICES ASSUME IInv, IInv', BooksInv, ReserveInv, [Next]_vars PROVE ReserveInv'
  OBVIOUS
<1>1. \A p \in PositionIds : Known(p)' => positions'[p].principal > 0
  BY LoansStayReal
<1> SUFFICES ASSUME Regular' PROVE \A s \in Assets : Reserved(s)'
  BY <1>1 DEF ReserveInv
<1>2. CASE UNCHANGED <<pools, positions>> /\ Regular
  BY <1>2, SamePositions, QuietReserves
<1>3. ASSUME NEW p \in PoolIds, CreatePool(p) PROVE \A s \in Assets : Reserved(s)'
  <2>1. UNCHANGED <<pools, positions>> /\ Regular
    BY <1>3 DEF CreatePool, BooksInv, IInv, TypeOK, Regular
  <2> QED  BY <2>1, SamePositions, QuietReserves
<1>4. ASSUME NEW a \in Accounts, NEW p \in PoolIds, NEW x \in DepositAmounts,
             DepositLiquidity(a, p, x)
      PROVE  \A s \in Assets : Reserved(s)'
  <2>1. /\ pools' = [pools EXCEPT ![p] = DepositInto(pools[p], x).pool]
        /\ DepositInto(pools[p], x).ok
        /\ UNCHANGED positions /\ Regular
    BY <1>4 DEF DepositLiquidity, Regular
  <2>2. x \in Nat /\ pools[p] \in Pool  BY LedgerAssumption DEF IInv, TypeOK
  <2>3. LET n == DepositInto(pools[p], x).pool
        IN  /\ n.reserve_balance = pools[p].reserve_balance
            /\ n.interest_collected = pools[p].interest_collected
            /\ n.penalty_collected = pools[p].penalty_collected
    BY <2>1, <2>2, DepositCollects
  <2>4. \A q \in PoolIds : /\ pools'[q].reserve_balance = pools[q].reserve_balance
                           /\ pools'[q].interest_collected = pools[q].interest_collected
                           /\ pools'[q].penalty_collected = pools[q].penalty_collected
    BY <2>1, <2>3 DEF IInv, TypeOK
  <2> QED  BY <2>1, <2>4, SamePositions, QuietReserves
<1>5. ASSUME NEW a \in Accounts, NEW p \in PoolIds, NEW x \in Principals,
             NEW c \in Collaterals, NEW m \in Maturities, OpenPosition(a, p, x, c, m)
      PROVE  \A s \in Assets : Reserved(s)'
  <2> DEFINE new == NewPosition(a, p, x, c, m, rates[p])
  <2>1. PICK id \in NextId(positions, Absent) :
          /\ pools' = [pools EXCEPT ![p] = Borrow(pools[p], x, c).pool]
          /\ Borrow(pools[p], x, c).ok
          /\ positions' = [positions EXCEPT ![id] = new]
    BY <1>5 DEF OpenPosition, Regular
  <2>2. Regular  BY <1>5 DEF OpenPosition, Regular
  <2>3. x \in Nat /\ c \in Nat /\ pools[p] \in Pool
    BY LedgerAssumption DEF IInv, TypeOK
  <2>4. LET n == Borrow(pools[p], x, c).pool
        IN  /\ n.reserve_balance = pools[p].reserve_balance
            /\ n.interest_collected = pools[p].interest_collected
            /\ n.penalty_collected = pools[p].penalty_collected
    BY <2>1, <2>3, BorrowCollects
  <2>5. \A q \in PoolIds : /\ pools'[q].reserve_balance = pools[q].reserve_balance
                           /\ pools'[q].interest_collected = pools[q].interest_collected
                           /\ pools'[q].penalty_collected = pools[q].penalty_collected
    BY <2>1, <2>4 DEF IInv, TypeOK
  <2>6. id \in PositionIds /\ ~Known(id)  BY DEF NextId, Known, IInv, TypeOK
  <2>7. positions'[id].state # "Expired"
    BY <2>1, <2>6 DEF NewPosition, IInv, TypeOK
  <2>8. ASSUME NEW s \in Assets PROVE Swept(s)' = Swept(s)
    <3>1. \A q \in PositionIds : q # id => positions'[q] = positions[q]
      BY <2>1, <2>6 DEF IInv, TypeOK
    <3>2. /\ Swept(s) \in Nat /\ Swept(s)' \in Nat
          /\ Swept(s)' + SweptTerm(id, s) = Swept(s) + SweptTerm(id, s)'
      BY <2>6, <3>1, OnePositionMoves DEF IInv
    <3>3. SweptTerm(id, s) = 0 /\ SweptTerm(id, s)' = 0
      BY <2>6, <2>7 DEF SweptTerm
    <3> QED  BY <3>2, <3>3
  <2>9. \A s \in Assets : ReservesOf(s)' = ReservesOf(s) /\ ChargesOf(s)' = ChargesOf(s)
    BY <2>5, QuietSums
  <2> QED  BY <2>2, <2>8, <2>9 DEF ReserveInv, Reserved
<1>6. ASSUME NEW p \in PositionIds, NEW r \in Releases, LockPosition(p, r)
      PROVE  \A s \in Assets : Reserved(s)'
  <2>1. UNCHANGED pools /\ Regular /\ positions[p].state # "Expired"
    BY <1>6 DEF LockPosition, Regular, Replay
  <2>2. SumsSame  BY <1>6, <2>1, LockKeepsSums, LedgerAssumption
  <2> QED  BY <2>1, <2>2, QuietReserves
<1>7. ASSUME NEW l \in LockIds, ReleaseLock(l) PROVE \A s \in Assets : Reserved(s)'
  <2>1. UNCHANGED pools /\ Regular  BY <1>7 DEF ReleaseLock, Regular
  <2>2. SumsSame  BY <1>7, ReleaseKeepsSums
  <2> QED  BY <2>1, <2>2, QuietReserves
<1>8. ASSUME NEW p \in PositionIds, NEW a \in Accounts, NEW d \in DueLimits,
             SettlePosition(p, a, d)
      PROVE  \A s \in Assets : Reserved(s)'
  BY <1>8, SettlementReserves, LedgerAssumption
<1>9. ASSUME NEW p \in PositionIds, ExpirePosition(p) PROVE \A s \in Assets : Reserved(s)'
  BY <1>9, SweepReserves
<1>10. CASE \/ \E s \in Assets, config \in AssetConfigs : RegisterAssetConfig(s, config)
            \/ \E a \in Accounts, s \in Assets, x \in DepositAmounts : Deposit(a, s, x)
            \/ \E n \in Advances : AdvanceEpochs(n)
            \/ AdvanceLoop
            \/ UNCHANGED vars
  <2>1. UNCHANGED <<pools, positions>> /\ anomaly \subseteq anomaly'
    BY <1>10 DEF RegisterAssetConfig, Deposit, AdvanceEpochs, AdvanceLoop, AccruePool,
                 StallAdvance, bookVars, vars
  <2> QED  BY <1>2, <2>1 DEF Regular
<1> QED  BY <1>3, <1>4, <1>5, <1>6, <1>7, <1>8, <1>9, <1>10 DEF Next

LEMMA ReserveInit == Init => ReserveInv
<1> SUFFICES ASSUME Init, NEW s \in Assets PROVE Reserved(s)
  BY DEF Init, ReserveInv, Known
<1>1. Swept(s) = 0
  <2> DEFINE f == [p \in PositionIds |-> SweptTerm(p, s)]
  <2>1. \A p \in PositionIds : f[p] = 0  BY DEF Init, SweptTerm, Known
  <2>2. Swept(s) = SumOver(f, PositionIds)  BY DEF Swept, SweptTerm
  <2> HIDE DEF f
  <2> QED  BY <2>1, <2>2, PositionIdsFinite, SumZero
<1>2. ReservesOf(s) = 0
  <2> DEFINE f == [p \in PoolIds |-> IF PoolAsset[p] = s THEN pools[p].reserve_balance ELSE 0]
  <2>1. \A p \in PoolIds : f[p] = 0  BY DEF Init, NewPool
  <2>2. ReservesOf(s) = SumOver(f, PoolIds)  BY DEF ReservesOf, PoolSum
  <2>3. IsFiniteSet(PoolIds)  BY LedgerAssumption
  <2> HIDE DEF f
  <2> QED  BY <2>1, <2>2, <2>3, SumZero
<1>3. ChargesOf(s) = 0
  <2> DEFINE f == [p \in PoolIds |-> IF PoolAsset[p] = s
                                     THEN pools[p].interest_collected
                                            + pools[p].penalty_collected
                                     ELSE 0]
  <2>0. \A p \in PoolIds : /\ pools[p].interest_collected = 0
                           /\ pools[p].penalty_collected = 0
    BY DEF Init, NewPool
  <2>1. \A p \in PoolIds : f[p] = 0  BY <2>0
  <2>2. ChargesOf(s) = SumOver(f, PoolIds)  BY DEF ChargesOf, PoolSum
  <2>3. IsFiniteSet(PoolIds)  BY LedgerAssumption
  <2> HIDE DEF f
  <2> QED  BY <2>1, <2>2, <2>3, SumZero
<1> QED  BY <1>1, <1>2, <1>3 DEF Reserved

\* A pool that is owed nothing secures nothing: a position without principal
\* would still lock collateral there.
LEMMA NoLoanNoSecurity ==
    ASSUME IInv, BooksInv, ReserveInv, Regular, NEW k \in PoolIds,
           pools[k].principal_outstanding = 0
    PROVE  pools[k].collateral_locked = 0
<1> DEFINE f == [p \in PositionIds |-> LoanTerm(p, k)]
           g == [p \in PositionIds |-> SecurityTerm(p, k)]
<1>1. /\ pools[k].principal_outstanding = SumOver(f, PositionIds)
      /\ pools[k].collateral_locked = SumOver(g, PositionIds)
  BY DEF BooksInv, Books, PrincipalIn, SecurityIn, LoanTerm, SecurityTerm
<1>2. \A p \in PositionIds : f[p] \in Nat /\ g[p] \in Nat
  BY PositionTermsNat DEF TermsNat, IInv
<1>3. \A p \in PositionIds : f[p] = 0 => g[p] = 0
  <2>1. \A p \in PositionIds : Funded(p, k) => positions[p].principal > 0
    BY DEF Funded, ReserveInv
  <2> QED  BY <2>1 DEF LoanTerm, SecurityTerm
<1> HIDE DEF f, g
<1> QED  BY <1>1, <1>2, <1>3, PositionIdsFinite, SumZero

\* What the audit adds up are naturals.
LEMMA AuditSumsNat ==
    ASSUME TypeOK, NEW s \in Assets
    PROVE  /\ ReservesOf(s) \in Nat /\ ChargesOf(s) \in Nat
           /\ CashOf(s) \in Nat /\ Swept(s) \in Nat
<1>1. IsFiniteSet(PoolIds) /\ IsFiniteSet(Accounts)  BY LedgerAssumption
<1>2. \A p \in PoolIds : /\ pools[p].reserve_balance \in Nat
                         /\ pools[p].interest_collected \in Nat
                         /\ pools[p].penalty_collected \in Nat
  BY AmountIffFits DEF TypeOK, Pool
<1>3. ReservesOf(s) \in Nat
  <2> DEFINE f == [p \in PoolIds |-> IF PoolAsset[p] = s THEN pools[p].reserve_balance ELSE 0]
  <2>1. \A p \in PoolIds : f[p] \in Nat  BY <1>2
  <2>2. ReservesOf(s) = SumOver(f, PoolIds)  BY DEF ReservesOf, PoolSum
  <2> HIDE DEF f
  <2> QED  BY <1>1, <2>1, <2>2, SumOverNat
<1>4. ChargesOf(s) \in Nat
  <2> DEFINE f == [p \in PoolIds |-> IF PoolAsset[p] = s
                                     THEN pools[p].interest_collected
                                            + pools[p].penalty_collected
                                     ELSE 0]
  <2>1. \A p \in PoolIds : f[p] \in Nat  BY <1>2
  <2>2. ChargesOf(s) = SumOver(f, PoolIds)  BY DEF ChargesOf, PoolSum
  <2> HIDE DEF f
  <2> QED  BY <1>1, <2>1, <2>2, SumOverNat
<1>5. Owned(s) \in Nat
  <2> DEFINE f == [a \in Accounts |-> balance[<<a, s>>]]
  <2>1. \A a \in Accounts : f[a] \in Nat  BY BookTypes DEF Holdings
  <2>2. Owned(s) = SumOver(f, Accounts)  BY DEF Owned
  <2> HIDE DEF f
  <2> QED  BY <1>1, <2>1, <2>2, SumOverNat
<1> QED  BY <1>3, <1>4, <1>5, LiquidSweptNat, CashParts

\* A regular history never shows an auditor less than what was deposited,
\* nor more than that and the charges collected, nor a finding in any pool:
\* for every policy, and every order of openings, settlements and sweeps.
THEOREM AuditHolds == Spec => []AuditBalanced
<1>1. IInv /\ BooksInv /\ ReserveInv /\ LimitInv => AuditBalanced
  <2> SUFFICES ASSUME IInv, BooksInv, ReserveInv, LimitInv, Regular
               PROVE  /\ \A s \in Assets :
                           ObservedSupply(s) \in deposited[s] .. deposited[s] + ChargesOf(s)
                      /\ \A p \in live : PoolFindings(pools[p]) = {}
    BY DEF AuditBalanced, Regular
  <2>1. ASSUME NEW s \in Assets
        PROVE  ObservedSupply(s) \in deposited[s] .. deposited[s] + ChargesOf(s)
    <3>1. CashOf(s) + Swept(s) = deposited[s] /\ deposited[s] \in Nat
      BY DEF BooksInv, Books, IInv, TypeOK
    <3>2. Reserved(s)  BY DEF ReserveInv
    <3>3. /\ ReservesOf(s) \in Nat /\ ChargesOf(s) \in Nat
          /\ CashOf(s) \in Nat /\ Swept(s) \in Nat
      BY AuditSumsNat DEF IInv
    <3> QED  BY <3>1, <3>2, <3>3 DEF Reserved, ObservedSupply
  <2>2. ASSUME NEW p \in live PROVE PoolFindings(pools[p]) = {}
    <3>1. p \in PoolIds /\ pools[p] \in Pool  BY DEF IInv, TypeOK
    <3>2. Utilization(pools[p]) <= BPS_DENOMINATOR
      <4>1. Utilization(pools[p]) \in Nat  BY <3>1, UtilizationNat
      <4>2. Utilization(pools[p]) <= MaxUtilization  BY <3>1 DEF LimitInv, Bounded
      <4> QED  BY <4>1, <4>2, PoolsAssumption, AmountsAssumption
    <3>3. ~(Utilization(pools[p]) > BPS_DENOMINATOR)
      <4>1. Utilization(pools[p]) \in Nat  BY <3>1, UtilizationNat
      <4> QED  BY <3>2, <4>1, AmountsAssumption
    <3>4. pools[p].principal_outstanding = 0 => pools[p].collateral_locked = 0
      BY <3>1, NoLoanNoSecurity
    <3> QED  BY <3>3, <3>4 DEF PoolFindings
  <2> QED  BY <2>1, <2>2
<1>2. IInv /\ BooksInv /\ ReserveInv /\ [Next]_vars => ReserveInv'
  BY NextInv, ReserveStep
<1>3. Spec => []IInv /\ []BooksInv /\ []LimitInv
  BY Inductive, BooksAlways, LimitAlways
<1>4. Spec => []ReserveInv
  BY <1>2, <1>3, ReserveInit, PTL DEF Spec
<1> QED  BY <1>1, <1>3, <1>4, PTL
=============================================================================
