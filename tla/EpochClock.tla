----------------------------- MODULE EpochClock -----------------------------
(***************************************************************************)
(* EpochClock of src/time: the epoch, and the seconds into it.  A call of  *)
(* advance_seconds crosses one epoch boundary per round of its loop, and   *)
(* gives up at the last epoch that a u64 can count.                        *)
(***************************************************************************)
EXTENDS Integers, Sequences

CONSTANTS
    EpochSeconds,      \* EpochPolicy::epoch_seconds
    GenesisEpoch,      \* EpochPolicy::genesis_epoch
    LastEpoch,         \* u64::MAX
    SecondsInputs, EpochInputs   \* arguments of the calls of a run

\* EpochPolicy::validate
ASSUME ClockAssumption ==
    /\ EpochSeconds \in Nat \ {0}
    /\ LastEpoch \in Nat /\ GenesisEpoch \in 0 .. LastEpoch
    /\ SecondsInputs \subseteq Nat /\ EpochInputs \subseteq Nat

VARIABLES
    current_epoch, seconds_into_epoch, boundary_count,
    remaining,    \* seconds left for the loop of advance_seconds
    rounds,       \* rounds left for the loop of advance_epochs
    crossed       \* epochs crossed so far in the present or latest call

clockVars == <<current_epoch, seconds_into_epoch, boundary_count>>
vars == <<current_epoch, seconds_into_epoch, boundary_count, remaining, rounds, crossed>>

Idle == remaining = 0 /\ rounds = 0

Init ==
    /\ current_epoch = GenesisEpoch
    /\ seconds_into_epoch = 0 /\ boundary_count = 0
    /\ remaining = 0 /\ rounds = 0 /\ crossed = << >>

SetSecondsIntoEpoch(s) ==
    /\ Idle /\ s < EpochSeconds
    /\ seconds_into_epoch' = s
    /\ UNCHANGED <<current_epoch, boundary_count, remaining, rounds, crossed>>

AdvanceSeconds(n) ==
    /\ Idle /\ n > 0
    /\ remaining' = n /\ crossed' = << >>
    /\ UNCHANGED <<clockVars, rounds>>

AdvanceEpochs(n) ==
    /\ Idle /\ n > 0
    /\ rounds' = n /\ crossed' = << >>
    /\ UNCHANGED <<clockVars, remaining>>

UntilNext == EpochSeconds - seconds_into_epoch

\* The rest of the seconds stays within the epoch.
StayWithin ==
    /\ remaining > 0 /\ remaining < UntilNext
    /\ seconds_into_epoch' = seconds_into_epoch + remaining
    /\ remaining' = 0
    /\ UNCHANGED <<current_epoch, boundary_count, rounds, crossed>>

\* Mutants: the seconds spent in the old epoch are kept; the epoch reported
\* is the one that has ended.
NextBoundary_kept ==
    /\ current_epoch' = current_epoch + 1
    /\ boundary_count' = boundary_count + 1
    /\ crossed' = Append(crossed, current_epoch')
    /\ UNCHANGED seconds_into_epoch
NextBoundary_ended ==
    /\ current_epoch' = current_epoch + 1
    /\ seconds_into_epoch' = 0
    /\ boundary_count' = boundary_count + 1
    /\ crossed' = Append(crossed, current_epoch)

NextBoundary ==
    /\ current_epoch' = current_epoch + 1
    /\ seconds_into_epoch' = 0
    /\ boundary_count' = boundary_count + 1
    /\ crossed' = Append(crossed, current_epoch')

CrossBySeconds ==
    /\ remaining >= UntilNext /\ remaining > 0 /\ current_epoch < LastEpoch
    /\ NextBoundary
    /\ remaining' = remaining - UntilNext
    /\ UNCHANGED rounds

CrossByEpochs ==
    /\ rounds > 0 /\ current_epoch < LastEpoch
    /\ NextBoundary
    /\ rounds' = rounds - 1
    /\ UNCHANGED remaining

\* Mutant: the loop goes round without getting further.
GiveUp_spin ==
    /\ current_epoch = LastEpoch
    /\ rounds > 0 \/ (remaining > 0 /\ remaining >= UntilNext)
    /\ UNCHANGED vars

\* EpochOutOfRange: the call returns an error, the epochs crossed stay crossed.
GiveUp ==
    /\ current_epoch = LastEpoch
    /\ rounds > 0 \/ (remaining > 0 /\ remaining >= UntilNext)
    /\ remaining' = 0 /\ rounds' = 0
    /\ UNCHANGED <<clockVars, crossed>>

Loop == StayWithin \/ CrossBySeconds \/ CrossByEpochs \/ GiveUp

Next ==
    \/ \E s \in SecondsInputs : SetSecondsIntoEpoch(s) \/ AdvanceSeconds(s)
    \/ \E n \in EpochInputs : AdvanceEpochs(n)
    \/ Loop

Spec == Init /\ [][Next]_vars

\* Both loops run to the end within one call.
FairSpec == Spec /\ WF_vars(Loop)

---------------------------------------------------------------------------
\* Properties

\* The clock never shows a second outside its epoch, and counts every
\* boundary once: the counter is the number of epochs since the genesis.
TypeOK ==
    /\ current_epoch \in GenesisEpoch .. LastEpoch
    /\ seconds_into_epoch \in 0 .. EpochSeconds - 1
    /\ boundary_count = current_epoch - GenesisEpoch
    /\ remaining \in Nat /\ rounds \in Nat
    /\ remaining = 0 \/ rounds = 0

\* The epochs a call reports are consecutive and end with the present one;
\* ChronosLedger::advance_epochs accrues once for each of them.
CrossedConsecutive ==
    \A i \in 1 .. Len(crossed) : crossed[i] = current_epoch - (Len(crossed) - i)

\* A clock of seconds: a call of advance_seconds(n) is one step by n.  The
\* seconds that the loop has still to spend are counted from the start.
Elapsed == current_epoch * EpochSeconds + seconds_into_epoch + remaining
Wall == INSTANCE WallClock WITH wall <- Elapsed, ahead <- rounds
ImplementsWallClock == Wall!Spec

\* Every call returns.
CallsReturn == (~Idle) ~> Idle
=============================================================================
