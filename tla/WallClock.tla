----------------------------- MODULE WallClock ------------------------------
(***************************************************************************)
(* What the epoch clock is meant to be: one count of seconds, cut into     *)
(* epochs.  Seconds are added in one step and none is lost; advancing by   *)
(* epochs moves to the start of the next epoch, once for each of them.     *)
(***************************************************************************)
EXTENDS Integers

CONSTANTS EpochSeconds, GenesisEpoch, LastEpoch, SecondsInputs, EpochInputs

VARIABLES
    wall,    \* seconds since epoch 0
    ahead    \* epochs still to be crossed

EpochOf(w) == w \div EpochSeconds
StartOf(e) == e * EpochSeconds

Init == wall = StartOf(GenesisEpoch) /\ ahead = 0

Add(n) == ahead = 0 /\ wall' = wall + n /\ UNCHANGED ahead

\* set_seconds_into_epoch may turn the clock back, within its epoch only.
Set(s) ==
    /\ ahead = 0 /\ s < EpochSeconds
    /\ wall' = StartOf(EpochOf(wall)) + s /\ UNCHANGED ahead

Leap(n) == ahead = 0 /\ ahead' = n /\ UNCHANGED wall
Cross ==
    /\ ahead > 0 /\ EpochOf(wall) < LastEpoch
    /\ wall' = StartOf(EpochOf(wall) + 1) /\ ahead' = ahead - 1

\* What lies beyond the last epoch is refused.
Stop ==
    /\ \/ EpochOf(wall) > LastEpoch
       \/ EpochOf(wall) = LastEpoch /\ ahead > 0
    /\ ahead' = 0
    /\ wall' <= wall /\ EpochOf(wall') = LastEpoch

Next ==
    \/ \E s \in SecondsInputs : Add(s) \/ Set(s)
    \/ \E n \in EpochInputs : Leap(n)
    \/ Cross \/ Stop

Spec == Init /\ [][Next]_<<wall, ahead>>
=============================================================================
