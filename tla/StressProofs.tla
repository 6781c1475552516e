---------------------------- MODULE StressProofs ----------------------------
(***************************************************************************)
(* The temporal stress test, for every policy and every portfolio: the     *)
(* client foresees the decision of the engine, no rounding makes an        *)
(* uncovered pool pass, and the concentration index brackets the share of  *)
(* the largest borrower.                                                   *)
(***************************************************************************)
EXTENDS Stress, AmountProofs

---------------------------------------------------------------------------
\* Roundings

\* mul_ratio_ceil and ceilRatio round up, and to the same number.
LEMMA CeilRatios ==
    ASSUME NEW v \in Nat, NEW n \in Nat
    PROVE  /\ CeilRatio(v, n) \in Nat
           /\ SdkCeilRatio(v, n) = CeilRatio(v, n)
           /\ v * n <= BPS_DENOMINATOR * CeilRatio(v, n)
<1> DEFINE D == BPS_DENOMINATOR
           x == v * n
           q == x \div D
           r == x % D
<1>1. D \in Nat \ {0} /\ x \in Nat  BY TimesNat, AmountsAssumption
<1> HIDE DEF D, x
<1>2. q \in Nat /\ r \in 0 .. D - 1 /\ x = D * q + r  BY <1>1, DivNat
<1> HIDE DEF q, r
<1>3. D * q \in Nat /\ D * (q + 1) = D * q + D  BY <1>1, <1>2, TimesNat
<1>4. CASE r = 0
  <2>1. (x + D - 1) \div D = q
    <3>1. /\ x + D - 1 \in Nat /\ D * q <= x + D - 1
          /\ x + D - 1 < D * q + D
      BY <1>1, <1>2, <1>3, <1>4
    <3> QED  BY <1>1, <1>2, <3>1, DivIs
  <2>2. CeilRatio(v, n) = q /\ SdkCeilRatio(v, n) = q
    BY <1>2, <1>4, <2>1 DEF CeilRatio, SdkCeilRatio, D, x, q, r
  <2> QED  BY <1>2, <1>3, <1>4, <2>2 DEF D, x
<1>5. CASE r # 0
  <2>1. (x + D - 1) \div D = q + 1
    <3>1. /\ x + D - 1 \in Nat /\ D * (q + 1) <= x + D - 1
          /\ x + D - 1 < D * (q + 1) + D
      BY <1>1, <1>2, <1>3, <1>5
    <3> QED  BY <1>1, <1>2, <3>1, DivIs
  <2>2. CeilRatio(v, n) = q + 1 /\ SdkCeilRatio(v, n) = q + 1
    BY <1>2, <1>5, <2>1 DEF CeilRatio, SdkCeilRatio, D, x, q, r
  <2> QED  BY <1>1, <1>2, <1>3, <2>2 DEF D, x
<1> QED  BY <1>4, <1>5

---------------------------------------------------------------------------
\* Portfolios

StressPosition == [borrower : Borrowers, pool : PoolIds, claim : Nat,
                   collateral : Nat, distance : Nat]

\* What the engine is given: every claim and every collateral is a natural,
\* of a borrower and a pool that it knows.
TypeInv ==
    /\ liquidity \in [PoolIds -> Amount]
    /\ portfolio \in [PositionIds -> StressPosition \cup {Absent}]

\* Every portfolio that can be built has this type.
LEMMA TypeCorrect == Spec => []TypeInv
<1>1. Init => TypeInv  BY StressAssumption DEF Init, TypeInv
<1>2. TypeInv /\ [Next]_vars => TypeInv'
  <2> SUFFICES ASSUME TypeInv, [Next]_vars PROVE TypeInv'  OBVIOUS
  <2>1. ASSUME NEW b \in Borrowers, NEW pool \in PoolIds, NEW claim \in Claims,
               NEW collateral \in Collaterals, NEW distance \in Distances,
               AddPosition(b, pool, claim, collateral, distance)
        PROVE  TypeInv'
    <3>1. [borrower |-> b, pool |-> pool, claim |-> claim,
           collateral |-> collateral, distance |-> distance] \in StressPosition
      BY StressAssumption DEF StressPosition
    <3> QED  BY <2>1, <3>1 DEF AddPosition, TypeInv
  <2>2. ASSUME NEW pool \in PoolIds, NEW amount \in Liquidities,
               SetLiquidity(pool, amount)
        PROVE  TypeInv'
    BY <2>2, StressAssumption DEF SetLiquidity, TypeInv
  <2>3. CASE UNCHANGED vars  BY <2>3 DEF vars, TypeInv
  <2> QED  BY <2>1, <2>2, <2>3 DEF Next
<1> QED  BY <1>1, <1>2, PTL DEF Spec

ClaimOf == [i \in PositionIds |-> portfolio[i].claim]
CollateralOf == [i \in PositionIds |-> portfolio[i].collateral]

\* The positions of a pool, and of a borrower in it.
LEMMA PositionsFinite ==
    ASSUME TypeInv, NEW pool
    PROVE  /\ IsFiniteSet(In(pool)) /\ In(pool) \subseteq PositionIds
           /\ \A i \in In(pool) : /\ ClaimOf[i] \in Nat /\ CollateralOf[i] \in Nat
                                  /\ portfolio[i] \in StressPosition
           /\ \A b : Of(pool, b) \subseteq In(pool) /\ IsFiniteSet(Of(pool, b))
<1>1. IsFiniteSet(PositionIds)  BY StressAssumption, FS_Interval DEF PositionIds
<1>2. In(pool) \subseteq PositionIds  BY DEF In
<1>3. IsFiniteSet(In(pool))  BY <1>1, <1>2, FS_Subset
<1>4. \A i \in In(pool) : portfolio[i] \in StressPosition  BY DEF TypeInv, In
<1>5. \A i \in In(pool) : ClaimOf[i] \in Nat /\ CollateralOf[i] \in Nat
  BY <1>2, <1>4 DEF ClaimOf, CollateralOf, StressPosition
<1>6. \A b : Of(pool, b) \subseteq In(pool)  BY DEF Of
<1>7. \A b : IsFiniteSet(Of(pool, b))  BY <1>3, <1>6, FS_Subset
<1> QED  BY <1>2, <1>3, <1>4, <1>5, <1>6, <1>7

\* The three sums of evaluate_pool.
LEMMA ClaimSums ==
    ASSUME TypeInv, NEW pool
    PROVE  /\ GrossClaim(pool) = SumOver(ClaimOf, In(pool))
           /\ Collateral(pool) = SumOver(CollateralOf, In(pool))
           /\ \A b : BorrowerClaim(pool, b) = SumOver(ClaimOf, Of(pool, b))
           /\ GrossClaim(pool) \in Nat /\ Collateral(pool) \in Nat
           /\ \A b : BorrowerClaim(pool, b) \in Nat
                     /\ BorrowerClaim(pool, b) <= GrossClaim(pool)
<1>1. ASSUME NEW S \in SUBSET In(pool)
      PROVE  /\ IsFiniteSet(S)
             /\ SumFunction([i \in S |-> portfolio[i].claim]) = SumOver(ClaimOf, S)
             /\ SumOver(ClaimOf, S) \in Nat
             /\ SumOver(ClaimOf, S) <= SumOver(ClaimOf, In(pool))
  <2> DEFINE f == [i \in S |-> portfolio[i].claim]
  <2>1. IsFiniteSet(S) /\ \A i \in S : f[i] = ClaimOf[i] /\ f[i] \in Nat
    BY PositionsFinite, FS_Subset DEF ClaimOf
  <2>2. SumFunction(f) = SumFunctionOnSet(f, S)  BY DEF SumFunction
  <2> HIDE DEF f
  <2>3. SumFunctionOnSet(f, S) = SumOver(f, S)  BY <2>1, FoldIsSum
  <2>4. SumOver(f, S) = SumOver(ClaimOf, S)  BY <2>1, SumSame
  <2>5. SumOver(f, S) \in Nat  BY <2>1, SumOverNat
  <2>6. SumOver(ClaimOf, S) <= SumOver(ClaimOf, In(pool))
    BY PositionsFinite, SumPart
  <2> QED  BY <2>1, <2>2, <2>3, <2>4, <2>5, <2>6 DEF f
<1>2. /\ GrossClaim(pool) = SumOver(ClaimOf, In(pool))
      /\ GrossClaim(pool) \in Nat
  BY <1>1 DEF GrossClaim
<1>3. ASSUME NEW b
      PROVE  /\ BorrowerClaim(pool, b) = SumOver(ClaimOf, Of(pool, b))
             /\ BorrowerClaim(pool, b) \in Nat
             /\ BorrowerClaim(pool, b) <= GrossClaim(pool)
  BY <1>1, <1>2, PositionsFinite DEF BorrowerClaim
<1>4. Collateral(pool) = SumOver(CollateralOf, In(pool)) /\ Collateral(pool) \in Nat
  <2> DEFINE f == [i \in In(pool) |-> portfolio[i].collateral]
             S == In(pool)
  <2>1. IsFiniteSet(S) /\ \A i \in S : f[i] = CollateralOf[i] /\ f[i] \in Nat
    BY PositionsFinite DEF CollateralOf
  <2>2. Collateral(pool) = SumFunctionOnSet(f, S)  BY DEF Collateral, SumFunction
  <2> HIDE DEF f, S
  <2>3. SumFunctionOnSet(f, S) = SumOver(f, S)  BY <2>1, FoldIsSum
  <2>4. SumOver(f, S) = SumOver(CollateralOf, S)  BY <2>1, SumSame
  <2>5. SumOver(f, S) \in Nat  BY <2>1, SumOverNat
  <2> QED  BY <2>2, <2>3, <2>4, <2>5 DEF S
<1> QED  BY <1>2, <1>3, <1>4

\* The largest claim is that of a borrower, or zero when there is none.
LEMMA Largest ==
    ASSUME TypeInv, NEW pool
    PROVE  /\ LargestClaim(pool) \in Nat
           /\ LargestClaim(pool) <= GrossClaim(pool)
           /\ \A b \in Borrowers : BorrowerClaim(pool, b) <= LargestClaim(pool)
           /\ \/ LargestClaim(pool) = 0
              \/ \E b \in Borrowers : LargestClaim(pool) = BorrowerClaim(pool, b)
<1> DEFINE C == {BorrowerClaim(pool, b) : b \in Borrowers}
           All == {0} \cup C
<1>1. IsFiniteSet(All)
  <2>1. IsFiniteSet(C)
    <3> DEFINE g == [b \in Borrowers |-> BorrowerClaim(pool, b)]
    <3>1. g \in Surjection(Borrowers, C)  BY DEF Surjection
    <3> QED  BY <3>1, StressAssumption, FS_Surjection
  <2>2. IsFiniteSet({0})  BY FS_Singleton
  <2> QED  BY <2>1, <2>2, FS_Union
<1>2. All \subseteq Nat /\ 0 \in All  BY ClaimSums
<1>3. \E m \in All : \A x \in All : m >= x
  <2> DEFINE W == {s \in SUBSET All : s = {} \/ \E m \in s : \A x \in s : m >= x}
  <2> HIDE DEF C, All
  <2>1. {} \in W  OBVIOUS
  <2>2. ASSUME NEW s \in SUBSET All, s # {}, \A x \in s : s \ {x} \in W PROVE s \in W
    <3>1. PICK y \in s : TRUE  BY <2>2
    <3>2. s \ {y} \in W  BY <2>2
    <3>3. CASE s \ {y} = {}
      <4>1. \A x \in s : y >= x  BY <3>3, <1>2
      <4> QED  BY <4>1
    <3>4. CASE s \ {y} # {}
      <4>1. PICK m \in s \ {y} : \A x \in s \ {y} : m >= x  BY <3>2, <3>4
      <4>2. CASE y >= m
        <5>1. \A x \in s : y >= x  BY <4>1, <4>2, <1>2
        <5> QED  BY <5>1
      <4>3. CASE ~(y >= m)
        <5>1. \A x \in s : m >= x  BY <4>1, <4>3, <1>2
        <5> QED  BY <5>1
      <4> QED  BY <4>2, <4>3
    <3> QED  BY <3>3, <3>4
  <2> HIDE DEF W
  <2>3. All \in W  BY <1>1, <2>1, <2>2, SubsetInduction
  <2> QED  BY <1>2, <2>3 DEF W
<1> DEFINE L == LargestClaim(pool)
<1>4. L \in All /\ \A x \in All : L >= x  BY <1>3 DEF LargestClaim, Max
<1>5. L \in Nat  BY <1>2, <1>4
<1>6. \A b \in Borrowers : BorrowerClaim(pool, b) <= L
  BY <1>4, <1>5, ClaimSums
<1>7. L = 0 \/ \E b \in Borrowers : L = BorrowerClaim(pool, b)  BY <1>4
<1>8. L <= GrossClaim(pool)  BY <1>7, ClaimSums
<1> QED  BY <1>5, <1>6, <1>7, <1>8
---------------------------------------------------------------------------
\* The engine and the client

\* The parts of an evaluation are naturals, and the client computes the same
\* obligation, requirement and shortfall.
LEMMA Parts ==
    ASSUME TypeInv, NEW pool \in PoolIds
    PROVE  /\ EngineObligation(pool) \in Nat /\ EngineRequired(pool) \in Nat
           /\ EligibleCollateral(pool) \in Nat /\ EligibleResources(pool) \in Nat
           /\ RateShock * Horizon \in Nat
           /\ BPS_DENOMINATOR - Haircut - LiquidationCost \in Nat
           /\ SdkObligation(pool) = EngineObligation(pool)
           /\ SdkRequired(pool) = EngineRequired(pool)
           /\ SdkShortfall(pool) = EngineShortfall(pool)
<1>1. /\ GrossClaim(pool) \in Nat /\ LargestClaim(pool) \in Nat
      /\ Collateral(pool) \in Nat
  BY ClaimSums, Largest
<1>2. /\ RateShock * Horizon \in Nat /\ ConcentrationAddon \in Nat
      /\ TargetCoverage \in Nat /\ OperationalBuffer \in Nat /\ Reserve \in Nat
      /\ BPS_DENOMINATOR - Haircut - LiquidationCost \in Nat
  <2>1. RateShock \in Nat /\ Horizon \in Nat  BY StressAssumption
  <2>2. RateShock * Horizon \in Nat  BY <2>1, TimesNat
  <2>3. Haircut \in Nat /\ LiquidationCost \in Nat /\ BPS_DENOMINATOR \in Nat
        /\ Haircut + LiquidationCost <= BPS_DENOMINATOR
    BY StressAssumption, AmountsAssumption
  <2>4. BPS_DENOMINATOR - Haircut - LiquidationCost \in Nat  BY <2>3
  <2> QED  BY <2>2, <2>4, StressAssumption, AmountsAssumption DEF Amount
<1>3. SdkObligation(pool) = EngineObligation(pool) /\ EngineObligation(pool) \in Nat
  <2> DEFINE shock == RateShock * Horizon
  <2>1. shock \in Nat  BY <1>2
  <2> HIDE DEF shock
  <2>2. /\ CeilRatio(GrossClaim(pool), shock) \in Nat
        /\ SdkCeilRatio(GrossClaim(pool), shock) = CeilRatio(GrossClaim(pool), shock)
        /\ CeilRatio(LargestClaim(pool), ConcentrationAddon) \in Nat
        /\ SdkCeilRatio(LargestClaim(pool), ConcentrationAddon)
             = CeilRatio(LargestClaim(pool), ConcentrationAddon)
    BY <1>1, <1>2, <2>1, CeilRatios
  <2>3. /\ EngineObligation(pool)
             = GrossClaim(pool) + CeilRatio(GrossClaim(pool), shock)
                 + CeilRatio(LargestClaim(pool), ConcentrationAddon)
        /\ SdkObligation(pool)
             = GrossClaim(pool) + SdkCeilRatio(GrossClaim(pool), shock)
                 + SdkCeilRatio(LargestClaim(pool), ConcentrationAddon)
    BY DEF EngineObligation, SdkObligation, shock
  <2> QED  BY <1>1, <2>2, <2>3
<1>4. SdkRequired(pool) = EngineRequired(pool) /\ EngineRequired(pool) \in Nat
  <2> DEFINE o == EngineObligation(pool)
  <2>1. CeilRatio(o, TargetCoverage) \in Nat
        /\ SdkCeilRatio(o, TargetCoverage) = CeilRatio(o, TargetCoverage)
    BY <1>2, <1>3, CeilRatios
  <2> QED  BY <1>2, <1>3, <2>1 DEF SdkRequired, EngineRequired
<1>5. EligibleCollateral(pool) \in Nat
  <2>1. Collateral(pool) * (BPS_DENOMINATOR - Haircut - LiquidationCost) \in Nat
    BY <1>1, <1>2, TimesNat
  <2> QED  BY <2>1, DivNat, AmountsAssumption DEF EligibleCollateral
<1>6. EligibleResources(pool) \in Nat
  BY <1>2, <1>5 DEF EligibleResources, TypeInv, Amount
<1> QED  BY <1>2, <1>3, <1>4, <1>5, <1>6 DEF SdkShortfall, EngineShortfall

\* A shortfall is what the resources lack.
LEMMA Shortfall ==
    ASSUME TypeInv, NEW pool \in PoolIds
    PROVE  /\ EngineShortfall(pool) \in Nat
           /\ EngineShortfall(pool) = 0
                <=> EngineRequired(pool) <= EligibleResources(pool)
  BY Parts DEF EngineShortfall, SaturatingSub

\* What evaluate has checked, the client refuses for its size only.
LEMMA ClientAccepts ==
    ASSUME TypeInv, EngineAccepts
    PROVE  SdkAccepts <=> WithinClientLimits
<1>1. ASSUME NEW i \in PositionIds, portfolio[i] # Absent
      PROVE  Fits(portfolio[i].claim)
  <2> DEFINE pool == portfolio[i].pool
  <2>1. portfolio[i] \in StressPosition  BY <1>1 DEF TypeInv
  <2>2. pool \in PoolIds /\ i \in In(pool)  BY <1>1, <2>1 DEF StressPosition, In
  <2>3. ClaimOf[i] <= GrossClaim(pool)  BY <2>2, PositionsFinite, ClaimSums, SumTerm
  <2>4. Fits(GrossClaim(pool))  BY <2>2 DEF EngineAccepts, EngineAcceptsPool
  <2>5. GrossClaim(pool) \in Nat /\ ClaimOf[i] \in Nat
    BY <2>2, PositionsFinite, ClaimSums
  <2>6. ClaimOf[i] = portfolio[i].claim  BY DEF ClaimOf
  <2> QED  BY <2>3, <2>4, <2>5, <2>6, AmountsAssumption DEF Fits
<1>2. ASSUME NEW v \in Nat, NEW n \in Nat, CeilFits(v, n) PROVE Fits(v * n)
  <2>1. v * n \in Nat  BY TimesNat
  <2> QED  BY <1>2, <2>1, AmountsAssumption DEF CeilFits, Fits
<1>3. ASSUME NEW pool \in PoolIds
      PROVE  /\ Fits(GrossClaim(pool) * RateShock * Horizon)
             /\ Fits(LargestClaim(pool) * ConcentrationAddon)
             /\ Fits(SdkObligation(pool) * TargetCoverage)
  <2>1. /\ CeilFits(GrossClaim(pool), RateShock * Horizon)
        /\ CeilFits(LargestClaim(pool), ConcentrationAddon)
        /\ CeilFits(EngineObligation(pool), TargetCoverage)
    BY DEF EngineAccepts, EngineAcceptsPool
  <2>2. /\ GrossClaim(pool) \in Nat /\ LargestClaim(pool) \in Nat
        /\ EngineObligation(pool) \in Nat /\ RateShock * Horizon \in Nat
        /\ RateShock \in Nat /\ Horizon \in Nat
        /\ ConcentrationAddon \in Nat /\ TargetCoverage \in Nat
    BY ClaimSums, Largest, Parts, StressAssumption, AmountsAssumption
  <2>3. GrossClaim(pool) * RateShock * Horizon = GrossClaim(pool) * (RateShock * Horizon)
    BY <2>2
  <2> QED  BY <1>2, <2>1, <2>2, <2>3, Parts
<1> QED  BY <1>1, <1>3 DEF SdkAccepts

\* The coverages of one pool.
LEMMA Coverages ==
    ASSUME TypeInv, NEW pool \in PoolIds
    PROVE  /\ SdkCoverage(pool) <= MAX_BPS => EngineCoverage(pool) = SdkCoverage(pool)
           /\ SdkCoverage(pool) < BPS_DENOMINATOR <=> EngineShortfall(pool) > 0
<1> DEFINE R == EngineRequired(pool)
           E == EligibleResources(pool)
           D == BPS_DENOMINATOR
<1>1. R \in Nat /\ E \in Nat /\ SdkRequired(pool) = R /\ D \in Nat \ {0}
  BY Parts, AmountsAssumption
<1>2. EngineShortfall(pool) > 0 <=> ~(R <= E)  BY Shortfall
<1>3. CASE R = 0
  <2>1. SdkCoverage(pool) = EngineCoverage(pool) /\ SdkCoverage(pool) >= D
    BY <1>1, <1>3 DEF SdkCoverage, EngineCoverage
  <2>2. SdkCoverage(pool) \in Nat  BY <1>1, <1>3 DEF SdkCoverage
  <2> QED  BY <1>1, <1>2, <1>3, <2>1, <2>2
<1>4. CASE R # 0
  <2>1. E * D \in Nat /\ R * D \in Nat  BY <1>1, TimesNat
  <2>2. SdkCoverage(pool) = (E * D) \div R  BY <1>1, <1>4 DEF SdkCoverage
  <2>3. (E * D) \div R \in Nat  BY <1>1, <1>4, <2>1, DivNat
  <2>4. SdkCoverage(pool) <= MAX_BPS => EngineCoverage(pool) = SdkCoverage(pool)
    BY <1>4, <2>2, <2>3, AmountsAssumption DEF EngineCoverage
  <2>5. (E * D) \div R <= D - 1 <=> E * D < D * R
    <3> DEFINE x == E * D
               m == D - 1
    <3>1. x \in Nat /\ R \in Nat \ {0} /\ m \in Nat /\ m + 1 = D
      BY <1>1, <1>4, <2>1
    <3> HIDE DEF x, m, R, D
    <3>2. x \div R <= m <=> x < (m + 1) * R  BY <3>1, DivBound
    <3> QED  BY <3>1, <3>2 DEF x, m
  <2>6. E * D < D * R <=> E < R  BY <1>1
  <2> QED  BY <1>1, <1>2, <2>2, <2>3, <2>4, <2>5, <2>6
<1> QED  BY <1>3, <1>4

\* The client foresees what the engine decides, whatever the policy and the
\* portfolio: of the inputs that the engine accepts it refuses exactly those
\* beyond its own limits, and on the others it comes to the same requirement,
\* shortfall, coverage (below the cap) and decision.
THEOREM ClientForesees == Spec => []SdkAgreesWithEngine
<1>1. TypeInv => SdkAgreesWithEngine
  <2> SUFFICES ASSUME TypeInv, EngineAccepts
               PROVE  /\ SdkAccepts <=> WithinClientLimits
                      /\ \A pool \in PoolIds :
                           /\ SdkRequired(pool) = EngineRequired(pool)
                           /\ SdkShortfall(pool) = EngineShortfall(pool)
                           /\ SdkCoverage(pool) <= MAX_BPS
                                => EngineCoverage(pool) = SdkCoverage(pool)
                           /\ SdkCoverage(pool) < BPS_DENOMINATOR
                                <=> EngineShortfall(pool) > 0
                      /\ SdkSatisfied <=> EngineSatisfied
    BY DEF SdkAgreesWithEngine
  <2>1. [pool \in PoolIds |-> SdkRequired(pool)]
          = [pool \in PoolIds |-> EngineRequired(pool)]
    BY Parts
  <2>2. OverPools(SdkRequired) = OverPools(EngineRequired)  BY <2>1 DEF OverPools
  <2>3. SdkSatisfied <=> EngineSatisfied
    BY <2>2, Parts DEF SdkSatisfied, EngineSatisfied
  <2> QED  BY <2>3, ClientAccepts, Parts, Coverages
<1> QED  BY <1>1, TypeCorrect, PTL
---------------------------------------------------------------------------
\* Roundings on the safe side

\* Three ceilings and one floor, in exact arithmetic: g and l are the gross
\* and the largest claim, c the collateral, u the funds beside it.
LEMMA RoundingsSafe ==
    ASSUME NEW g \in Nat, NEW l \in Nat, NEW c \in Nat, NEW u \in Int,
           NEW shock \in Nat, NEW addon \in Nat, NEW target \in Nat, NEW kept \in Nat,
           CeilRatio(g + CeilRatio(g, shock) + CeilRatio(l, addon), target)
             <= u + (c * kept) \div BPS_DENOMINATOR
    PROVE  target * (g * (BPS_DENOMINATOR + shock) + l * addon)
             <= BPS_DENOMINATOR * (u * BPS_DENOMINATOR + c * kept)
<1> DEFINE D == BPS_DENOMINATOR
           c1 == CeilRatio(g, shock)
           c2 == CeilRatio(l, addon)
           o  == g + c1 + c2
           c3 == CeilRatio(o, target)
           e  == (c * kept) \div D
<1>1. /\ D \in Nat \ {0} /\ g * shock \in Nat /\ l * addon \in Nat /\ c * kept \in Nat
  BY TimesNat, AmountsAssumption
<1>2. c1 \in Nat /\ g * shock <= D * c1 /\ c2 \in Nat /\ l * addon <= D * c2
  BY CeilRatios
<1>3. o \in Nat  BY <1>2
<1>4. c3 \in Nat /\ o * target <= D * c3
  <2> HIDE DEF o
  <2> QED  BY <1>3, CeilRatios
<1>5. e \in Nat /\ D * e <= c * kept  BY <1>1, DivNat, DivBracket
<1>6. c3 <= u + e  OBVIOUS
<1>7. o = g + c1 + c2  OBVIOUS
<1> HIDE DEF D, c1, c2, c3, o, e
<1> DEFINE need == g * (D + shock) + l * addon
<1>8. need <= D * o
  <2>1. g * (D + shock) = g * D + g * shock  BY <1>1
  <2>2. D * o = g * D + D * c1 + D * c2  BY <1>1, <1>2, <1>7
  <2>3. g * D \in Nat /\ D * c1 \in Nat /\ D * c2 \in Nat  BY <1>1, <1>2, TimesNat
  <2> QED  BY <1>1, <1>2, <2>1, <2>2, <2>3
<1>9. need \in Nat  BY <1>1, TimesNat
<1>10. target * need <= D * (D * c3)
  <2> HIDE DEF need
  <2>1. target * need <= target * (D * o)
    <3>1. D * o \in Nat  BY <1>1, <1>3, TimesNat
    <3> QED  BY <1>8, <1>9, <3>1
  <2>2. target * (D * o) = D * (o * target)  BY <1>1, <1>3
  <2>3. D * (o * target) <= D * (D * c3)
    <3>1. o * target \in Nat /\ D * c3 \in Nat  BY <1>1, <1>3, <1>4, TimesNat
    <3> QED  BY <1>1, <1>4, <3>1
  <2>4. /\ target * need \in Int /\ target * (D * o) \in Int
        /\ D * (o * target) \in Int /\ D * (D * c3) \in Int
    BY <1>1, <1>3, <1>4, <1>9
  <2> QED  BY <2>1, <2>2, <2>3, <2>4
<1>11. D * (D * c3) <= D * (u * D + c * kept)
  <2>1. D * c3 <= D * (u + e)  BY <1>1, <1>4, <1>5, <1>6
  <2>2. D * (u + e) = u * D + D * e  BY <1>1, <1>5
  <2>3. u * D \in Int /\ D * e \in Int /\ D * c3 \in Int  BY <1>1, <1>4, <1>5
  <2>4. D * c3 <= u * D + c * kept  BY <1>1, <1>5, <2>1, <2>2, <2>3
  <2> DEFINE x == D * c3
             y == u * D + c * kept
  <2>5. x \in Int /\ y \in Int /\ x <= y  BY <1>1, <2>3, <2>4
  <2> HIDE DEF x, y
  <2>6. D * x <= D * y  BY <1>1, <2>5
  <2> QED  BY <2>6 DEF x, y
<1>12. target * need \in Int /\ D * (D * c3) \in Int /\ D * (u * D + c * kept) \in Int
  BY <1>1, <1>4, <1>9
<1> QED  BY <1>10, <1>11, <1>12 DEF D

\* No sequence of roundings, and no surplus of another pool, makes a pool pass
\* that does not cover its stressed obligation in exact arithmetic.
THEOREM PassedMeansCovered == Spec => []SatisfiedMeansCovered
<1>1. TypeInv => SatisfiedMeansCovered
  <2> SUFFICES ASSUME TypeInv, EngineSatisfied, NEW pool \in PoolIds
               PROVE  ExactRequired(pool) <= ExactFunds(pool)
    BY DEF SatisfiedMeansCovered
  <2> DEFINE shock == RateShock * Horizon
             kept  == BPS_DENOMINATOR - Haircut - LiquidationCost
             u     == liquidity[pool] + Reserve - OperationalBuffer
             o     == EngineObligation(pool)
  <2>1. /\ GrossClaim(pool) \in Nat /\ LargestClaim(pool) \in Nat
        /\ Collateral(pool) \in Nat /\ shock \in Nat /\ kept \in Nat
        /\ EngineRequired(pool) \in Nat /\ EligibleCollateral(pool) \in Nat /\ o \in Nat
    BY ClaimSums, Largest, Parts
  <2>2. /\ liquidity[pool] \in Nat /\ Reserve \in Nat /\ OperationalBuffer \in Nat
        /\ ConcentrationAddon \in Nat /\ TargetCoverage \in Nat
    BY StressAssumption, AmountsAssumption DEF TypeInv, Amount
  <2>3. EngineRequired(pool) <= EligibleResources(pool)
    BY Shortfall DEF EngineSatisfied
  <2>4. CeilRatio(o, TargetCoverage) + OperationalBuffer
          <= liquidity[pool] + Reserve + EligibleCollateral(pool)
    BY <2>3 DEF EngineRequired, EligibleResources
  <2>5. CeilRatio(o, TargetCoverage) \in Nat  BY <2>1, <2>2, CeilRatios
  <2>6. CeilRatio(o, TargetCoverage) <= u + EligibleCollateral(pool)
    BY <2>1, <2>2, <2>4, <2>5
  <2>7. o = GrossClaim(pool) + CeilRatio(GrossClaim(pool), shock)
              + CeilRatio(LargestClaim(pool), ConcentrationAddon)
    BY DEF EngineObligation
  <2>8. EligibleCollateral(pool) = (Collateral(pool) * kept) \div BPS_DENOMINATOR
    BY DEF EligibleCollateral
  <2>9. u \in Int  BY <2>2
  <2>10. CeilRatio(GrossClaim(pool) + CeilRatio(GrossClaim(pool), shock)
                     + CeilRatio(LargestClaim(pool), ConcentrationAddon), TargetCoverage)
           <= u + (Collateral(pool) * kept) \div BPS_DENOMINATOR
    BY <2>6, <2>7, <2>8
  <2>11. /\ ExactRequired(pool)
              = TargetCoverage * (GrossClaim(pool) * (BPS_DENOMINATOR + shock)
                                    + LargestClaim(pool) * ConcentrationAddon)
         /\ ExactFunds(pool)
              = BPS_DENOMINATOR * (u * BPS_DENOMINATOR + Collateral(pool) * kept)
    BY DEF ExactRequired, ExactFunds
  <2> DEFINE g == GrossClaim(pool)
             l == LargestClaim(pool)
             c == Collateral(pool)
  <2>12. /\ g \in Nat /\ l \in Nat /\ c \in Nat /\ u \in Int /\ shock \in Nat
         /\ ConcentrationAddon \in Nat /\ TargetCoverage \in Nat /\ kept \in Nat
    BY <2>1, <2>2, <2>9
  <2>13. CeilRatio(g + CeilRatio(g, shock) + CeilRatio(l, ConcentrationAddon),
                   TargetCoverage)
           <= u + (c * kept) \div BPS_DENOMINATOR
    BY <2>10
  <2>14. TargetCoverage * (g * (BPS_DENOMINATOR + shock) + l * ConcentrationAddon)
           <= BPS_DENOMINATOR * (u * BPS_DENOMINATOR + c * kept)
    <3> HIDE DEF shock, kept, u, o, g, l, c
    <3> QED  BY <2>12, <2>13, RoundingsSafe, Zenon
  <2> QED  BY <2>11, <2>14
<1> QED  BY <1>1, TypeCorrect, PTL

---------------------------------------------------------------------------
\* Concentration

\* All of a pool's claims are claims on some borrower.
LEMMA BorrowersShareClaims ==
    ASSUME TypeInv, NEW pool
    PROVE  SumOver([b \in Borrowers |-> BorrowerClaim(pool, b)], Borrowers)
             = GrossClaim(pool)
<1> DEFINE g     == [b \in Borrowers |-> BorrowerClaim(pool, b)]
           group == [b \in Borrowers |-> Of(pool, b)]
           S     == In(pool)
<1>1. IsFiniteSet(Borrowers) /\ IsFiniteSet(S) /\ \A i \in S : ClaimOf[i] \in Nat
  BY StressAssumption, PositionsFinite
<1>2. ASSUME NEW b \in Borrowers
      PROVE  group[b] \subseteq S /\ g[b] = SumOver(ClaimOf, group[b])
  BY ClaimSums, PositionsFinite
<1>3. \A b, c \in Borrowers : b # c => group[b] \cap group[c] = {}
  BY DEF Of
<1>4. \A i \in S : \E b \in Borrowers : i \in group[b]
  <2> SUFFICES ASSUME NEW i \in S PROVE \E b \in Borrowers : i \in group[b]
    OBVIOUS
  <2>1. portfolio[i].borrower \in Borrowers  BY PositionsFinite DEF StressPosition
  <2>2. i \in group[portfolio[i].borrower]  BY <2>1 DEF Of
  <2> QED  BY <2>1, <2>2
<1> HIDE DEF g, group, S
<1>5. SumOver(g, Borrowers) = SumOver(ClaimOf, S)
  BY <1>1, <1>2, <1>3, <1>4, SumGroups
<1> QED  BY <1>5, ClaimSums DEF g, S

\* The square of a share rounds down.
LEMMA SquaredBound ==
    ASSUME NEW s \in Nat
    PROVE  Squared(s) \in Nat /\ BPS_DENOMINATOR * Squared(s) <= s * s
<1>1. s * s \in Nat  BY TimesNat
<1> QED  BY <1>1, DivNat, DivBracket, AmountsAssumption DEF Squared

\* The index of a pool that has claims.
LEMMA IndexBounds ==
    ASSUME TypeInv, NEW pool, GrossClaim(pool) # 0
    PROVE  /\ HhiRaw(pool) \in Nat /\ LargestShare(pool) \in Nat
           /\ Squared(LargestShare(pool)) <= HhiRaw(pool)
           /\ HhiRaw(pool) <= LargestShare(pool)
           /\ LargestShare(pool) <= BPS_DENOMINATOR
<1> DEFINE D  == BPS_DENOMINATOR
           G  == GrossClaim(pool)
           L  == LargestClaim(pool)
           LS == LargestShare(pool)
           claims  == [b \in Borrowers |-> BorrowerClaim(pool, b)]
           shares  == [b \in Borrowers |-> Share(pool, b)]
           squares == [b \in Borrowers |-> Squared(Share(pool, b))]
<1>1. /\ D \in Nat \ {0} /\ G \in Nat \ {0} /\ L \in Nat /\ L <= G
      /\ IsFiniteSet(Borrowers)
  BY ClaimSums, Largest, AmountsAssumption, StressAssumption
<1>2. LS = (L * D) \div G  BY DEF LargestShare
<1>3. L * D \in Nat  BY <1>1, TimesNat
<1>4. LS \in Nat /\ G * LS <= L * D  BY <1>1, <1>2, <1>3, DivNat, DivBracket
<1>5. LS <= D
  <2> HIDE DEF D, G, L, LS
  <2> SUFFICES ASSUME D + 1 <= LS PROVE FALSE  BY <1>1, <1>4
  <2>1. G * (D + 1) <= G * LS  BY <1>1, <1>4
  <2>2. G * (D + 1) = G * D + G  BY <1>1
  <2>3. L * D <= G * D  BY <1>1
  <2>4. G * D \in Nat /\ G * LS \in Nat  BY <1>1, <1>4, TimesNat
  <2> QED  BY <1>1, <1>3, <1>4, <2>1, <2>2, <2>3, <2>4
<1>6. ASSUME NEW b \in Borrowers
      PROVE  /\ claims[b] \in Nat /\ shares[b] \in Nat /\ squares[b] \in Nat
             /\ G * shares[b] <= D * claims[b]
             /\ D * squares[b] <= LS * shares[b]
             /\ claims[b] = L => shares[b] = LS
  <2> DEFINE c == BorrowerClaim(pool, b)
             s == Share(pool, b)
  <2>1. c \in Nat /\ c <= L  BY ClaimSums, Largest
  <2>2. s = (c * D) \div G  BY DEF Share
  <2>3. c * D \in Nat /\ c * D = D * c /\ c * D <= L * D  BY <1>1, <2>1, TimesNat
  <2>4. s \in Nat /\ G * s <= c * D  BY <1>1, <2>2, <2>3, DivNat, DivBracket
  <2>5. s <= LS
    <3> DEFINE x == c * D
               y == L * D
    <3>1. x \in Nat /\ y \in Nat /\ x <= y  BY <1>3, <2>3
    <3> HIDE DEF x, y
    <3>2. x \div G <= y \div G  BY <1>1, <3>1, DivMonotone
    <3> QED  BY <1>2, <2>2, <3>2 DEF x, y
  <2>6. Squared(s) \in Nat /\ D * Squared(s) <= s * s  BY <2>4, SquaredBound
  <2>7. s * s <= LS * s /\ s * s \in Nat /\ LS * s \in Nat
    <3> HIDE DEF s, LS
    <3> QED  BY <1>4, <2>4, <2>5, TimesNat
  <2>8. D * Squared(s) <= LS * s
    <3>1. D * Squared(s) \in Nat  BY <1>1, <2>6, TimesNat
    <3> QED  BY <2>6, <2>7, <3>1
  <2>9. c = L => s = LS  BY <1>2, <2>2
  <2> QED  BY <2>1, <2>3, <2>4, <2>6, <2>8, <2>9
<1>7. HhiRaw(pool) = SumOver(squares, Borrowers)
  <2>1. HhiRaw(pool) = SumFunctionOnSet(squares, Borrowers)  BY DEF HhiRaw, SumFunction
  <2> HIDE DEF squares
  <2> QED  BY <1>1, <1>6, <2>1, FoldIsSum
<1> HIDE DEF claims, shares, squares
<1>8. HhiRaw(pool) \in Nat  BY <1>1, <1>6, <1>7, SumOverNat
<1>9. HhiRaw(pool) <= LS
  <2> DEFINE H == HhiRaw(pool)
             T == SumOver(shares, Borrowers)
  <2>1. T \in Nat  BY <1>1, <1>6, SumOverNat
  <2>2. SumOver(claims, Borrowers) = G  BY BorrowersShareClaims DEF claims
  <2>3. G * T <= D * G
    <3> HIDE DEF D, G, LS
    <3> QED  BY <1>1, <1>6, <2>2, SumBound
  <2>4. D * H <= LS * T
    <3> HIDE DEF D, G, LS
    <3> QED  BY <1>1, <1>4, <1>6, <1>7, SumBound
  <2> HIDE DEF D, G, L, LS, H, T
  <2>5. T <= D
    <3> SUFFICES ASSUME D + 1 <= T PROVE FALSE  BY <1>1, <2>1
    <3>1. G * (D + 1) <= G * T /\ G * (D + 1) = D * G + G  BY <1>1, <2>1
    <3>2. D * G \in Nat /\ G * T \in Nat  BY <1>1, <2>1, TimesNat
    <3> QED  BY <1>1, <2>3, <3>1, <3>2
  <2>6. LS * T <= LS * D  BY <1>1, <1>4, <2>1, <2>5
  <2>7. H \in Nat  BY <1>8 DEF H
  <2> SUFFICES ASSUME LS + 1 <= H PROVE FALSE  BY <1>4, <2>7 DEF H
  <2>8. D * (LS + 1) <= D * H /\ D * (LS + 1) = LS * D + D  BY <1>1, <1>4, <2>7
  <2>9. LS * D \in Nat /\ LS * T \in Nat /\ D * H \in Nat
    BY <1>1, <1>4, <2>1, <2>7, TimesNat
  <2> QED  BY <1>1, <2>4, <2>6, <2>8, <2>9
<1>10. Squared(LS) <= HhiRaw(pool)
  <2>1. CASE L = 0
    <3>1. LS = 0
      <4>1. G * LS <= 0 /\ (LS >= 1 => G * LS >= G)
        <5> HIDE DEF G, LS, D
        <5> QED  BY <1>1, <1>4, <2>1
      <4> QED  BY <1>1, <1>4, <4>1
    <3>2. Squared(0) \in Nat /\ BPS_DENOMINATOR * Squared(0) <= 0  BY SquaredBound
    <3>3. Squared(0) = 0
      <4> DEFINE z == Squared(0)
      <4> HIDE DEF z
      <4>1. z >= 1 => D * z >= D  BY <1>1, <3>2 DEF z
      <4> QED  BY <1>1, <3>2, <4>1 DEF z
    <3> QED  BY <1>8, <3>1, <3>3
  <2>2. CASE \E b \in Borrowers : L = BorrowerClaim(pool, b)
    <3>1. PICK b \in Borrowers : L = BorrowerClaim(pool, b)  BY <2>2
    <3>2. squares[b] = Squared(LS)  BY <1>6, <3>1 DEF squares, shares, claims
    <3>3. squares[b] <= HhiRaw(pool)  BY <1>1, <1>6, <1>7, SumTerm
    <3> QED  BY <3>2, <3>3
  <2> QED  BY <2>1, <2>2, Largest
<1> QED  BY <1>4, <1>5, <1>8, <1>9, <1>10

\* The concentration index lies between the square of the largest share and
\* that share, for every portfolio, and its cap never applies.
THEOREM IndexShowsLargest == Spec => []HhiShowsLargestBorrower
<1>1. TypeInv => HhiShowsLargestBorrower
  <2> SUFFICES ASSUME TypeInv, NEW pool \in PoolIds
               PROVE  /\ Squared(LargestShare(pool)) <= EngineHhi(pool)
                      /\ EngineHhi(pool) <= LargestShare(pool)
                      /\ EngineHhi(pool) = HhiRaw(pool)
    BY DEF HhiShowsLargestBorrower
  <2>1. CASE GrossClaim(pool) = 0
    <3>1. HhiRaw(pool) = 0 /\ LargestShare(pool) = 0  BY <2>1 DEF HhiRaw, LargestShare
    <3>2. EngineHhi(pool) = 0  BY <3>1, AmountsAssumption DEF EngineHhi
    <3>3. Squared(0) \in Nat /\ BPS_DENOMINATOR * Squared(0) <= 0  BY SquaredBound
    <3>4. Squared(0) = 0
      <4> DEFINE z == Squared(0)
      <4> HIDE DEF z
      <4>1. z >= 1 => BPS_DENOMINATOR * z >= BPS_DENOMINATOR
        BY <3>3, AmountsAssumption DEF z
      <4> QED  BY <3>3, <4>1, AmountsAssumption DEF z
    <3> QED  BY <3>1, <3>2, <3>4
  <2>2. CASE GrossClaim(pool) # 0
    <3>1. EngineHhi(pool) = HhiRaw(pool)
      BY <2>2, IndexBounds, AmountsAssumption DEF EngineHhi
    <3> QED  BY <2>2, <3>1, IndexBounds
  <2> QED  BY <2>1, <2>2
<1> QED  BY <1>1, TypeCorrect, PTL
=============================================================================
