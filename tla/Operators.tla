----------------------------- MODULE Operators -----------------------------
(***************************************************************************)
(* OperatorRegistry of src/operators: who may perform which service, in    *)
(* which pools and epochs, and the record of what was settled and failed.  *)
(***************************************************************************)
EXTENDS EpochClock, Amounts, InOrder

CONSTANTS
    OperatorIds, Controllers,
    ScoreStart, ScoreGain, ScoreLoss, ScoreCap,  \* 10_000, 3, 250, 20_000
    \* inputs and bounds of a run
    Permissions, ServiceWindows, Notionals, MaxWindows, MaxRecords

\* ServiceWindow, with its pool; EpochWindow::new refuses an end before the start
ServiceWindow == [pool : Nat, start : Nat, end : Nat, max_notional : Amount]

ASSUME OperatorsAssumption ==
    /\ {ScoreStart, ScoreGain, ScoreLoss, ScoreCap} \subseteq Nat
    /\ ScoreStart <= ScoreCap
    /\ ServiceWindows \subseteq ServiceWindow
    /\ \A w \in ServiceWindows : w.start <= w.end
    /\ Notionals \subseteq Amount
    /\ MaxWindows \in Nat /\ MaxRecords \in Nat

VARIABLES
    profiles,       \* OperatorRegistry::operators
    by_controller,  \* OperatorRegistry::by_controller
    records         \* bound: successes and failures recorded

operatorsVars == <<profiles, by_controller, records>>

DefaultPermissions == {"Quote", "Lock", "Release"}

\* OperatorProfile::new; an operator not registered has the controller "none".
NewProfile(controller) ==
    [controller |-> controller, permissions |-> DefaultPermissions,
     service_windows |-> << >>, active |-> TRUE, reputation_score |-> ScoreStart,
     settled_notional |-> 0, failed_notional |-> 0]
Registered(o) == profiles[o].controller # "none"

OperatorsInit ==
    /\ profiles = [o \in OperatorIds |-> NewProfile("none")]
    /\ by_controller = [c \in Controllers |-> << >>]
    /\ records = 0

InsertOperator(o, c) ==
    /\ ~Registered(o)
    /\ profiles' = [profiles EXCEPT ![o] = NewProfile(c)]
    /\ by_controller' = [by_controller EXCEPT ![c] = Append(@, o)]
    /\ UNCHANGED records

Grant(o, permission) ==
    /\ profiles' = [profiles EXCEPT ![o].permissions = @ \cup {permission}]
    /\ UNCHANGED <<by_controller, records>>
Revoke(o, permission) ==
    /\ profiles' = [profiles EXCEPT ![o].permissions = @ \ {permission}]
    /\ UNCHANGED <<by_controller, records>>
\* `active` is a public field, reached through get_mut.
SetActive(o, active) ==
    /\ profiles' = [profiles EXCEPT ![o].active = active]
    /\ UNCHANGED <<by_controller, records>>

\* A push, and a stable sort by the start of the window.
AddWindow(o, w) ==
    /\ Len(profiles[o].service_windows) < MaxWindows
    /\ profiles' = [profiles EXCEPT ![o].service_windows =
         InsertBefore(@, {i \in DOMAIN @ : @[i].start > w.start}, w)]
    /\ UNCHANGED <<by_controller, records>>

\* Mutant: the amount is booked on the wrong side.
RecordSuccess_failed(o, amount) ==
    /\ records < MaxRecords /\ Fits(profiles[o].failed_notional + amount)
    /\ profiles' = [profiles EXCEPT
         ![o].failed_notional = @ + amount,
         ![o].reputation_score =
            IF @ + ScoreGain > ScoreCap THEN ScoreCap ELSE @ + ScoreGain]
    /\ records' = records + 1
    /\ UNCHANGED by_controller

RecordSuccess(o, amount) ==
    /\ records < MaxRecords /\ Fits(profiles[o].settled_notional + amount)
    /\ profiles' = [profiles EXCEPT
         ![o].settled_notional = @ + amount,
         ![o].reputation_score =
            IF @ + ScoreGain > ScoreCap THEN ScoreCap ELSE @ + ScoreGain]
    /\ records' = records + 1
    /\ UNCHANGED by_controller

RecordFailure(o, amount) ==
    /\ records < MaxRecords /\ Fits(profiles[o].failed_notional + amount)
    /\ profiles' = [profiles EXCEPT
         ![o].failed_notional = @ + amount,
         ![o].reputation_score = SaturatingSub(@, ScoreLoss)]
    /\ records' = records + 1
    /\ UNCHANGED by_controller

OperatorsNext ==
    /\ Idle
    /\ \E o \in OperatorIds :
         \/ \E c \in Controllers : InsertOperator(o, c)
         \/ /\ Registered(o)
            /\ \/ \E permission \in Permissions : Grant(o, permission) \/ Revoke(o, permission)
               \/ \E active \in BOOLEAN : SetActive(o, active)
               \/ \E w \in ServiceWindows : AddWindow(o, w)
               \/ \E x \in Notionals : RecordSuccess(o, x) \/ RecordFailure(o, x)

---------------------------------------------------------------------------
\* Reading the registry

\* OperatorProfile::failure_ratio_bps, and whether it can be computed
Total(o) == profiles[o].settled_notional + profiles[o].failed_notional
RatioFits(o) == Fits(Total(o)) /\ Fits(profiles[o].failed_notional * BPS_DENOMINATOR)
FailureRatio(o) ==
    IF Total(o) = 0 THEN 0
    ELSE (profiles[o].failed_notional * BPS_DENOMINATOR) \div Total(o)

\* OperatorRegistry::authorize
CanService(o, permission, pool, e, amount) ==
    /\ profiles[o].active /\ permission \in profiles[o].permissions
    /\ \E i \in DOMAIN profiles[o].service_windows :
         LET w == profiles[o].service_windows[i]
         IN  w.pool = pool /\ e \in w.start .. w.end /\ amount <= w.max_notional

---------------------------------------------------------------------------
\* Properties

\* The score and the failure ratio, which are kept independently, never
\* contradict each other: no step that raises the score raises the ratio, no
\* step that lowers it lowers the ratio, in spite of caps and roundings.  And
\* a service that an operator may perform is not lost but by a revocation or
\* a deactivation, whatever windows are added.
RegistryHonest ==
    [][\A o \in OperatorIds : Registered(o) =>
          LET old == profiles[o]  new == profiles'[o]
          IN  /\ RatioFits(o) /\ RatioFits(o)' =>
                   /\ new.reputation_score > old.reputation_score =>
                        FailureRatio(o)' <= FailureRatio(o)
                   /\ new.reputation_score < old.reputation_score =>
                        FailureRatio(o)' >= FailureRatio(o)
              /\ \A permission \in Permissions, pool \in {w.pool : w \in ServiceWindows},
                    e \in GenesisEpoch .. LastEpoch, x \in Notionals :
                   CanService(o, permission, pool, e, x) =>
                      \/ CanService(o, permission, pool, e, x)'
                      \/ permission \notin new.permissions \/ ~new.active
      ]_operatorsVars
=============================================================================
