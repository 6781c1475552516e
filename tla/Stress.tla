------------------------------- MODULE Stress -------------------------------
(***************************************************************************)
(* Temporal stress: TemporalStressEngine::evaluate of src/capital, and     *)
(* computeTemporalStress of sdk/chronosClient.js, which a client runs      *)
(* offline to foresee the decision of the engine.  The engine computes     *)
(* with checked u128 values, the SDK with unbounded ones that it checks at *)
(* its own places.                                                         *)
(*                                                                         *)
(* The state is a portfolio (the inputs of an evaluation) that grows,      *)
(* shrinks and ages; every state is evaluated by both.                     *)
(***************************************************************************)
EXTENDS Amounts, FiniteSetsExt

CONSTANTS
    Borrowers, PoolIds, MaxPositions,
    \* TemporalStressPolicy
    Haircut, LiquidationCost, RateShock, ConcentrationAddon, TargetCoverage,
    Horizon, OperationalBuffer,
    \* the limits of computeTemporalStress, 128 and 4_096 in the code
    ClientPools, ClientPositions,
    \* inputs of a run
    Claims, Collaterals, Distances, Liquidities, Reserve, Absent

\* TemporalStressPolicy::validate
ASSUME StressAssumption ==
    /\ Haircut \in Nat /\ LiquidationCost \in Nat
    /\ Haircut + LiquidationCost <= BPS_DENOMINATOR
    /\ RateShock \in Nat /\ ConcentrationAddon \in Nat
    /\ TargetCoverage \in BPS_DENOMINATOR .. 3 * BPS_DENOMINATOR
    /\ Horizon \in 1 .. 365
    /\ OperationalBuffer \in Amount /\ Reserve \in Amount
    /\ IsFiniteSet(Borrowers) /\ IsFiniteSet(PoolIds) /\ MaxPositions \in Nat
    /\ Claims \subseteq Nat /\ Collaterals \subseteq Nat \ {0}
    /\ Distances \subseteq Nat /\ Liquidities \subseteq Amount
    /\ ClientPools \in Nat /\ ClientPositions \in Nat

VARIABLES
    liquidity,   \* [PoolIds -> Amount], PoolStressInput::available_liquidity
    portfolio    \* [1 .. MaxPositions -> TemporalStressPosition or Absent]:
                 \* claim is principal + interest + penalty, distance the
                 \* epochs to the maturity (zero once it has passed)

vars == <<liquidity, portfolio>>

PositionIds == 1 .. MaxPositions

---------------------------------------------------------------------------
\* Quantities that both compute in the same way

In(pool) == {i \in PositionIds : portfolio[i] # Absent /\ portfolio[i].pool = pool}
Of(pool, b) == {i \in In(pool) : portfolio[i].borrower = b}

GrossClaim(pool) == SumFunction([i \in In(pool) |-> portfolio[i].claim])
Collateral(pool) == SumFunction([i \in In(pool) |-> portfolio[i].collateral])
BorrowerClaim(pool, b) == SumFunction([i \in Of(pool, b) |-> portfolio[i].claim])
LargestClaim(pool) == Max({0} \cup {BorrowerClaim(pool, b) : b \in Borrowers})
Weighted(pool) ==
    SumFunction([i \in In(pool) |-> portfolio[i].claim * portfolio[i].distance * 1000])

EligibleCollateral(pool) ==
    (Collateral(pool) * (BPS_DENOMINATOR - Haircut - LiquidationCost)) \div BPS_DENOMINATOR

\* Mutant: rounds down.
CeilRatio_floor(value, numerator) == (value * numerator) \div BPS_DENOMINATOR

\* mul_ratio_ceil adds denominator - 1 before it divides, ceilRatio of the
\* SDK adds one to the quotient unless the division is exact.
CeilRatio(value, numerator) ==
    (value * numerator + BPS_DENOMINATOR - 1) \div BPS_DENOMINATOR
SdkCeilRatio(value, numerator) ==
    (value * numerator) \div BPS_DENOMINATOR
      + (IF (value * numerator) % BPS_DENOMINATOR = 0 THEN 0 ELSE 1)

OverPools(Quantity(_)) == SumFunction([pool \in PoolIds |-> Quantity(pool)])
EligibleResources(pool) == liquidity[pool] + Reserve + EligibleCollateral(pool)

Squared(share) == (share * share) \div BPS_DENOMINATOR
Share(pool, b) == (BorrowerClaim(pool, b) * BPS_DENOMINATOR) \div GrossClaim(pool)

\* Mutant: one share for each position, not for each borrower.
HhiRaw_split(pool) ==
    IF GrossClaim(pool) = 0 THEN 0
    ELSE SumFunction(
           [i \in In(pool) |->
              Squared((portfolio[i].claim * BPS_DENOMINATOR) \div GrossClaim(pool))])

HhiRaw(pool) ==
    IF GrossClaim(pool) = 0 THEN 0
    ELSE SumFunction([b \in Borrowers |-> Squared(Share(pool, b))])
LargestShare(pool) ==
    IF GrossClaim(pool) = 0 THEN 0
    ELSE (LargestClaim(pool) * BPS_DENOMINATOR) \div GrossClaim(pool)

---------------------------------------------------------------------------
\* TemporalStressEngine

EngineObligation(pool) ==
    GrossClaim(pool) + CeilRatio(GrossClaim(pool), RateShock * Horizon)
      + CeilRatio(LargestClaim(pool), ConcentrationAddon)
EngineRequired(pool) ==
    CeilRatio(EngineObligation(pool), TargetCoverage) + OperationalBuffer

\* Every checked step of evaluate_pool (the squares of the shares, at most
\* 10^8, always fit in a u128).
CeilFits(value, numerator) == Fits(value * numerator + BPS_DENOMINATOR - 1)
EngineAcceptsPool(pool) ==
    /\ Fits(GrossClaim(pool)) /\ Fits(Collateral(pool))
    /\ Fits(Collateral(pool) * (BPS_DENOMINATOR - Haircut - LiquidationCost))
    /\ CeilFits(GrossClaim(pool), RateShock * Horizon)
    /\ Fits(LargestClaim(pool) * BPS_DENOMINATOR)
    /\ CeilFits(LargestClaim(pool), ConcentrationAddon)
    /\ CeilFits(EngineObligation(pool), TargetCoverage)
    /\ Fits(EngineRequired(pool))
    /\ Fits(EligibleResources(pool))
    /\ EngineRequired(pool) > 0 => Fits(EligibleResources(pool) * BPS_DENOMINATOR)
    /\ Fits(Weighted(pool))

\* evaluate: some pool, however many, none may fail, nor the sums over them.
EngineAccepts ==
    /\ PoolIds # {}
    /\ \A pool \in PoolIds : EngineAcceptsPool(pool)
    /\ Fits(OverPools(GrossClaim))
    /\ Fits(OverPools(EligibleResources))
    /\ Fits(OverPools(EngineRequired))

EngineShortfall(pool) == SaturatingSub(EngineRequired(pool), EligibleResources(pool))

\* Mutant: surpluses of other pools make up for a shortfall.
EngineSatisfied_netted ==
    OverPools(EngineRequired) <= OverPools(EligibleResources)

EngineSatisfied ==
    /\ OverPools(EngineRequired) <= OverPools(EligibleResources)
    /\ \A pool \in PoolIds : EngineShortfall(pool) = 0

\* ratio_bps caps the coverage at 100_000 bps, and the index at 10_000.
EngineCoverage(pool) ==
    IF EngineRequired(pool) = 0
    THEN IF EligibleResources(pool) = 0 THEN BPS_DENOMINATOR ELSE 3 * BPS_DENOMINATOR
    ELSE LET raw == (EligibleResources(pool) * BPS_DENOMINATOR) \div EngineRequired(pool)
         IN  IF raw > MAX_BPS THEN MAX_BPS ELSE raw
EngineHhi(pool) ==
    IF HhiRaw(pool) > BPS_DENOMINATOR THEN BPS_DENOMINATOR ELSE HhiRaw(pool)

---------------------------------------------------------------------------
\* computeTemporalStress

SdkObligation(pool) ==
    GrossClaim(pool) + SdkCeilRatio(GrossClaim(pool), RateShock * Horizon)
      + SdkCeilRatio(LargestClaim(pool), ConcentrationAddon)
SdkRequired(pool) ==
    SdkCeilRatio(SdkObligation(pool), TargetCoverage) + OperationalBuffer
SdkShortfall(pool) == SaturatingSub(SdkRequired(pool), EligibleResources(pool))

\* The size of the input, which the engine does not bound.
WithinClientLimits ==
    /\ Cardinality(PoolIds) \in 1 .. ClientPools
    /\ Cardinality({i \in PositionIds : portfolio[i] # Absent}) <= ClientPositions

\* Beside the size, only single claims and the products of ceilRatio.  (Ids
\* are taken to be in the form that canonicalId asks for.)
SdkAccepts ==
    /\ WithinClientLimits
    /\ \A i \in PositionIds : portfolio[i] # Absent => Fits(portfolio[i].claim)
    /\ \A pool \in PoolIds :
         /\ Fits(GrossClaim(pool) * RateShock * Horizon)
         /\ Fits(LargestClaim(pool) * ConcentrationAddon)
         /\ Fits(SdkObligation(pool) * TargetCoverage)

SdkSatisfied ==
    /\ OverPools(SdkRequired) <= OverPools(EligibleResources)
    /\ \A pool \in PoolIds : SdkShortfall(pool) = 0
SdkCoverage(pool) ==
    IF SdkRequired(pool) = 0
    THEN IF EligibleResources(pool) = 0 THEN BPS_DENOMINATOR ELSE 3 * BPS_DENOMINATOR
    ELSE (EligibleResources(pool) * BPS_DENOMINATOR) \div SdkRequired(pool)

---------------------------------------------------------------------------
(***************************************************************************)
(* The inputs: a portfolio is built position by position, and pools are    *)
(* funded or drained between two evaluations.                              *)
(***************************************************************************)
Init ==
    /\ liquidity \in [PoolIds -> Liquidities]
    /\ portfolio = [i \in PositionIds |-> Absent]

AddPosition(b, pool, claim, collateral, distance) ==
    /\ \E i \in NextId(portfolio, Absent) :
         portfolio' = [portfolio EXCEPT ![i] =
             [borrower |-> b, pool |-> pool, claim |-> claim,
              collateral |-> collateral, distance |-> distance]]
    /\ UNCHANGED liquidity

SetLiquidity(pool, amount) ==
    /\ liquidity' = [liquidity EXCEPT ![pool] = amount]
    /\ UNCHANGED portfolio

Next ==
    \/ \E b \in Borrowers, pool \in PoolIds, claim \in Claims,
          collateral \in Collaterals, distance \in Distances :
         AddPosition(b, pool, claim, collateral, distance)
    \/ \E pool \in PoolIds, amount \in Liquidities : SetLiquidity(pool, amount)

Spec == Init /\ [][Next]_vars

---------------------------------------------------------------------------
(***************************************************************************)
(* Of the inputs that the engine evaluates, the SDK refuses those beyond   *)
(* its limits on the numbers of pools and positions, which the engine does *)
(* not have, and no other.  On what both evaluate, the SDK foresees the    *)
(* same requirement, shortfall and decision, although the two round up by  *)
(* different formulas and check for overflow at different places.  The     *)
(* coverages differ by the cap of the engine only, and either shows less   *)
(* than full coverage exactly where there is a shortfall.                  *)
(***************************************************************************)
SdkAgreesWithEngine ==
    EngineAccepts =>
        /\ SdkAccepts <=> WithinClientLimits
        /\ SdkAccepts =>
             /\ \A pool \in PoolIds :
                  /\ SdkRequired(pool) = EngineRequired(pool)
                  /\ SdkShortfall(pool) = EngineShortfall(pool)
                  /\ SdkCoverage(pool) <= MAX_BPS
                       => EngineCoverage(pool) = SdkCoverage(pool)
                  /\ SdkCoverage(pool) < BPS_DENOMINATOR
                       <=> EngineShortfall(pool) > 0
             /\ SdkSatisfied <=> EngineSatisfied

(***************************************************************************)
(* A portfolio is only declared satisfied if every pool by itself covers   *)
(* its stressed obligation in exact arithmetic: no sequence of roundings,  *)
(* and no surplus of another pool, makes an uncovered pool pass.  (Both    *)
(* sides are multiplied by BPS_DENOMINATOR^2.)                             *)
(***************************************************************************)
ExactRequired(pool) ==
    TargetCoverage * ( GrossClaim(pool) * (BPS_DENOMINATOR + RateShock * Horizon)
                       + LargestClaim(pool) * ConcentrationAddon )
ExactFunds(pool) ==
    BPS_DENOMINATOR *
        ( (liquidity[pool] + Reserve - OperationalBuffer) * BPS_DENOMINATOR
          + Collateral(pool) * (BPS_DENOMINATOR - Haircut - LiquidationCost) )
SatisfiedMeansCovered ==
    EngineAccepts /\ EngineSatisfied =>
        \A pool \in PoolIds : ExactRequired(pool) <= ExactFunds(pool)

(***************************************************************************)
(* The concentration index lies between the square of the largest share,   *)
(* and that share, whatever the roundings: splitting a debt over positions *)
(* does not hide it, and the cap at 10_000 bps never changes the index.    *)
(***************************************************************************)
HhiShowsLargestBorrower ==
    EngineAccepts =>
        \A pool \in PoolIds :
            /\ Squared(LargestShare(pool)) <= EngineHhi(pool)
            /\ EngineHhi(pool) <= LargestShare(pool)
            /\ EngineHhi(pool) = HhiRaw(pool)
=============================================================================
