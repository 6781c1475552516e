------------------------------- MODULE Lanes -------------------------------
(***************************************************************************)
(* Settlement lanes of src/routes: operators offer to move an asset from   *)
(* one pool to another, for a fee, up to an amount, between two epochs.    *)
(* RouteBook quotes the cheapest offer and can pause one lane at a time.   *)
(***************************************************************************)
EXTENDS EpochClock, Amounts, SequencesExt

CONSTANTS
    Routes,                \* triples of source pool, target pool and asset
    LaneOperators,
    LaneOffers,            \* lanes that may be added
    LaneAmounts, MaxLanes  \* amounts quoted, and bound of a run

RouteStatus == {"Active", "DrainOnly", "Paused"}

\* SettlementLane without its route, under which the book files it.
Lane == [operator : LaneOperators, max_notional : Amount, fee_bps : 0 .. MAX_BPS,
         status : RouteStatus, valid_from : Nat, valid_until : Nat]

ASSUME LanesAssumption ==
    LaneOffers \subseteq Lane /\ LaneAmounts \subseteq Amount /\ MaxLanes \in Nat

VARIABLES
    lanes,     \* RouteBook::lanes, in the order in which they were added
    offered,   \* history: what has been added to a route
    withdrawn  \* history: the operators paused on a route

lanesVars == <<lanes, offered, withdrawn>>

LanesInit ==
    /\ lanes = [r \in Routes |-> << >>]
    /\ offered = [r \in Routes |-> {}]
    /\ withdrawn = [r \in Routes |-> {}]

AddLane(r, lane) ==
    /\ Len(lanes[r]) < MaxLanes
    /\ lanes' = [lanes EXCEPT ![r] = Append(@, lane)]
    /\ offered' = [offered EXCEPT ![r] = @ \cup {lane}]
    /\ UNCHANGED withdrawn

\* pause_lane pauses the first lane of the operator, paused already or not:
\* a second one of the same operator stays as it is.
PauseLane(r, operator) ==
    /\ \E i \in DOMAIN lanes[r] :
         /\ lanes[r][i].operator = operator
         /\ \A j \in 1 .. i - 1 : lanes[r][j].operator # operator
         /\ lanes' = [lanes EXCEPT ![r][i].status = "Paused"]
    /\ withdrawn' = [withdrawn EXCEPT ![r] = @ \cup {operator}]
    /\ UNCHANGED offered

LanesNext ==
    /\ Idle
    /\ \E r \in Routes :
         \/ \E lane \in LaneOffers : AddLane(r, lane)
         \/ \E operator \in LaneOperators : PauseLane(r, operator)

---------------------------------------------------------------------------
\* RouteBook::quote, for an amount at epoch e

\* SettlementLane::accepts (the lanes of a route match it)
Accepts(lane, e, amount) ==
    /\ lane.status = "Active"
    /\ lane.valid_from <= e /\ e <= lane.valid_until
    /\ amount <= lane.max_notional

Accepting(r, e, amount) == {i \in DOMAIN lanes[r] : Accepts(lanes[r][i], e, amount)}

\* Mutant: the first lane that accepts, whatever it costs.
Chosen_first(r, e, amount) ==
    CHOOSE i \in Accepting(r, e, amount) : \A j \in Accepting(r, e, amount) : i <= j

\* min_by: the cheapest lane, the first one of equals.
Chosen(r, e, amount) ==
    CHOOSE i \in Accepting(r, e, amount) :
        \A j \in Accepting(r, e, amount) :
            \/ lanes[r][i].fee_bps < lanes[r][j].fee_bps
            \/ lanes[r][i].fee_bps = lanes[r][j].fee_bps /\ i <= j

\* What is left after the fee of a lane, if the fee is not more than that.
Payable(lane, amount) ==
    MulBpsFits(amount, lane.fee_bps) /\ MulBps(amount, lane.fee_bps) <= amount
NetOf(lane, amount) == amount - MulBps(amount, lane.fee_bps)

QuoteSucceeds(r, e, amount) ==
    /\ Accepting(r, e, amount) # {}
    /\ Payable(lanes[r][Chosen(r, e, amount)], amount)
NetAmount(r, e, amount) == NetOf(lanes[r][Chosen(r, e, amount)], amount)

---------------------------------------------------------------------------
\* Properties

\* An offer stands until its operator is paused, whatever is added or paused
\* besides: the quote of a route pays at least what any standing offer pays
\* for that amount at that epoch (no offer is shadowed by one whose fee
\* exceeds the amount, or that is exhausted or out of date), and never pays
\* what nobody has offered.
OffersStand ==
    \A r \in Routes, e \in GenesisEpoch .. LastEpoch, x \in LaneAmounts :
        /\ \A lane \in offered[r] :
             /\ lane.operator \notin withdrawn[r]
             /\ Accepts(lane, e, x) /\ Payable(lane, x)
             => QuoteSucceeds(r, e, x) /\ NetAmount(r, e, x) >= NetOf(lane, x)
        /\ QuoteSucceeds(r, e, x) =>
             \E lane \in offered[r] :
                Accepts(lane, e, x) /\ NetAmount(r, e, x) = NetOf(lane, x)
=============================================================================
