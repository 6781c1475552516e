------------------------------ MODULE MCLedger ------------------------------
(***************************************************************************)
(* Instances of the ledger for TLC.  Amounts, basis points and indices are *)
(* scaled down (a basis point is a tenth, an index has scale 10) so that   *)
(* rounding, rate limits and 32-bit truncation show with small numbers.    *)
(***************************************************************************)
EXTENDS LedgerProperties

CONSTANTS lp, bo, gold, p1, p2, none

MCAccounts == {lp, bo}
MCAssets == {gold}
OnePool == {p1}
TwoPools == {p1, p2}

\* All pools lend the one asset.
MCPoolAsset == [p \in PoolIds |-> gold]

\* p1: 10 % per epoch and more as it fills up; p2: flat.
CurveModel == [base_bps |-> 1, utilization_slope_bps |-> 2, penalty_bps |-> 2, max_bps |-> 3]
FlatModel  == [base_bps |-> 2, utilization_slope_bps |-> 0, penalty_bps |-> 1, max_bps |-> 9]
MCRateModelOf == [p \in PoolIds |-> IF p = p1 THEN CurveModel ELSE FlatModel]

\* 30 % and more, so that the interest of one epoch exceeds what roundings lose.
CostlyModel == [base_bps |-> 3, utilization_slope_bps |-> 2, penalty_bps |-> 2, max_bps |-> 5]
CostlyRateModelOf == [p \in PoolIds |-> CostlyModel]

\* A model whose curve leaves the Bps range at high utilization.
SteepModel == [base_bps |-> 60, utilization_slope_bps |-> 90, penalty_bps |-> 2, max_bps |-> 3]
SteepRateModelOf == [p \in PoolIds |-> IF p = p1 THEN SteepModel ELSE FlatModel]

EnabledConfig  == [status |-> "Enabled", min_deposit |-> 1, debt_ceiling |-> 1000]
DepositsConfig == [status |-> "DepositsOnly", min_deposit |-> 1, debt_ceiling |-> 1000]
OneConfig == {EnabledConfig}
TwoConfigs == {EnabledConfig, DepositsConfig}
MCSetupAsset == [s \in Assets |-> EnabledConfig]

\* The borrower owns some collateral, the pools have been funded.
MCSetupBalance == [h \in Holdings |-> IF h[1] = bo THEN 6 ELSE 14]
MCSetupLiquidity == [p \in PoolIds |-> 24]
\* Close to the largest amount, so that crediting overflows.
EdgeBalance == [h \in Holdings |-> IF h[1] = bo THEN 315 ELSE 14]

NoInputs == {}
=============================================================================
