----------------------------- MODULE DeskProofs -----------------------------
(***************************************************************************)
(* The clock and the books beside the ledger, for every value of their     *)
(* parameters: the boundaries of the clock, the seals of the batches, the  *)
(* offers of the settlement lanes, the maintenance queue, the records of   *)
(* the operators, the prices, the repayment schedules and the reports.  A  *)
(* book changes only by its own actions, the clock only by its calls       *)
(* (DeskMoves), so that each has an invariant of its own: ClockInv,        *)
(* BatchInv, LanesInv, QueueInv, ProfilesInv, FeedsInv, ScheduleInv and    *)
(* ReportsInv.                                                             *)
(***************************************************************************)
EXTENDS Desk, AmountProofs, SequenceTheorems, WellFoundedInduction

---------------------------------------------------------------------------
\* Least and greatest elements

\* Every set of naturals has a least element, and a greatest if it is bounded.
LEMMA LeastNat ==
    ASSUME NEW T \in SUBSET Nat, T # {}
    PROVE  \E x \in T : \A y \in T : x <= y
<1> DEFINE segments == { 0 .. x : x \in T }
<1>1. segments \subseteq FiniteSubsetsOf(Nat)
  <2> SUFFICES ASSUME NEW x \in T PROVE 0 .. x \in FiniteSubsetsOf(Nat)
    OBVIOUS
  <2>1. x \in Int /\ 0 \in Int  OBVIOUS
  <2>2. IsFiniteSet(0 .. x)  BY <2>1, FS_Interval
  <2> QED  BY <2>2 DEF FiniteSubsetsOf
<1>2. segments # {}  OBVIOUS
<1>3. PICK s \in segments :
        \A t \in segments : <<t, s>> \notin StrictSubsetOrdering(Nat)
  BY <1>1, <1>2, FS_StrictSubsetOrderingWellFounded, WFMin
<1>4. PICK x \in T : s = 0 .. x  OBVIOUS
<1>5. ASSUME NEW y \in T PROVE x <= y
  <2>1. 0 .. y \in segments  OBVIOUS
  <2>2. <<0 .. y, 0 .. x>> \notin StrictSubsetOrdering(Nat)  BY <1>3, <1>4, <2>1
  <2>3. (0 .. y \subseteq 0 .. x /\ 0 .. y # 0 .. x) \/ x <= y
    <3>1. y < x => x \in 0 .. x /\ x \notin 0 .. y  OBVIOUS
    <3> QED  BY <3>1
  <2> QED  BY <1>1, <1>4, <2>1, <2>2, <2>3 DEF StrictSubsetOrdering
<1> QED  BY <1>4, <1>5

LEMMA GreatestBelow ==
    ASSUME NEW n \in Nat, NEW T \in SUBSET (1 .. n), T # {}
    PROVE  \E x \in T : \A y \in T : y <= x
<1> DEFINE D == { n - t : t \in T }
<1>1. D \subseteq Nat /\ D # {}
  <2>1. \A t \in T : n - t \in Nat  OBVIOUS
  <2> QED  BY <2>1
<1>2. PICK d \in D : \A e \in D : d <= e  BY <1>1, LeastNat
<1>3. PICK x \in T : d = n - x  OBVIOUS
<1>4. ASSUME NEW y \in T PROVE y <= x
  <2>1. n - x <= n - y  BY <1>2, <1>3
  <2> QED  BY <2>1
<1> QED  BY <1>4

---------------------------------------------------------------------------
\* Insertion and removal

LEMMA BeforeIs ==
    ASSUME NEW S, NEW s \in Seq(S), NEW later \in SUBSET DOMAIN s
    PROVE  /\ Before(s, later) \in 1 .. Len(s) + 1
           /\ \A i \in later : Before(s, later) <= i
           /\ Before(s, later) \in later \cup {Len(s) + 1}
<1>1. DOMAIN s = 1 .. Len(s) /\ Len(s) \in Nat  OBVIOUS
<1>2. CASE later = {}  BY <1>1, <1>2 DEF Before
<1>3. CASE later # {}
  <2>1. \E i \in later : \A j \in later : i <= j
    <3>1. later \in SUBSET Nat  BY <1>1
    <3> QED  BY <1>3, <3>1, LeastNat
  <2>2. /\ Before(s, later) \in later
        /\ \A j \in later : Before(s, later) <= j
    BY <1>3, <2>1 DEF Before
  <2> QED  BY <1>1, <2>2
<1> QED  BY <1>2, <1>3

LEMMA InsertAtIs ==
    ASSUME NEW S, NEW s \in Seq(S), NEW at \in 1 .. Len(s) + 1, NEW e \in S
    PROVE  LET t == InsertAt(s, at, e)
           IN  /\ t \in Seq(S) /\ Len(t) = Len(s) + 1
               /\ \A i \in 1 .. Len(s) + 1 :
                    t[i] = IF i < at THEN s[i] ELSE IF i = at THEN e ELSE s[i - 1]
<1> DEFINE a == SubSeq(s, 1, at - 1)
           b == SubSeq(s, at, Len(s))
           ae == a \o <<e>>
<1>1. Len(s) \in Nat /\ at \in Nat /\ \A i \in 1 .. Len(s) : s[i] \in S
  BY ElementOfSeq, LenProperties
<1>2. /\ a \in Seq(S) /\ Len(a) = at - 1
      /\ \A i \in 1 .. at - 1 : a[i] = s[i]
  <2>1. /\ a \in Seq(S) /\ Len(a) = IF 1 <= at - 1 THEN at - 1 - 1 + 1 ELSE 0
        /\ \A i \in 1 .. (at - 1 - 1 + 1) : a[i] = s[1 + i - 1]
    <3>1. \A i \in 1 .. at - 1 : s[i] \in S  BY <1>1
    <3>2. 1 \in Int /\ at - 1 \in Int  BY <1>1
    <3> HIDE DEF a
    <3> QED  BY <3>1, <3>2, SubSeqProperties DEF a
  <2> QED  BY <1>1, <2>1
<1>3. /\ b \in Seq(S) /\ Len(b) = Len(s) - at + 1
      /\ \A i \in 1 .. Len(s) - at + 1 : b[i] = s[at + i - 1]
  <2>1. /\ b \in Seq(S) /\ Len(b) = IF at <= Len(s) THEN Len(s) - at + 1 ELSE 0
        /\ \A i \in 1 .. Len(s) - at + 1 : b[i] = s[at + i - 1]
    <3>1. \A i \in at .. Len(s) : s[i] \in S  BY <1>1
    <3>2. at \in Int /\ Len(s) \in Int  BY <1>1
    <3> HIDE DEF b
    <3> QED  BY <3>1, <3>2, SubSeqProperties DEF b
  <2> QED  BY <1>1, <2>1
<1>4. /\ <<e>> \in Seq(S) /\ Len(<<e>>) = 1 /\ <<e>>[1] = e  OBVIOUS
<1> HIDE DEF a, b
<1>5. /\ ae \in Seq(S) /\ Len(ae) = at
      /\ \A i \in 1 .. at : ae[i] = IF i <= at - 1 THEN a[i] ELSE <<e>>[i - (at - 1)]
  BY <1>1, <1>2, <1>4, ConcatProperties
<1> HIDE DEF ae
<1>6. /\ ae \o b \in Seq(S) /\ Len(ae \o b) = at + (Len(s) - at + 1)
      /\ \A i \in 1 .. at + (Len(s) - at + 1) :
           (ae \o b)[i] = IF i <= at THEN ae[i] ELSE b[i - at]
  BY <1>1, <1>3, <1>5, ConcatProperties
<1>7. InsertAt(s, at, e) = ae \o b  BY DEF InsertAt, ae, a, b
<1>8. ASSUME NEW i \in 1 .. Len(s) + 1
      PROVE  (ae \o b)[i] = IF i < at THEN s[i] ELSE IF i = at THEN e ELSE s[i - 1]
  <2>1. i \in 1 .. at + (Len(s) - at + 1) /\ i \in Nat  BY <1>1
  <2>2. CASE i < at
    <3>1. (ae \o b)[i] = ae[i]  BY <1>1, <1>6, <2>1, <2>2
    <3>2. i \in 1 .. at - 1 /\ i \in 1 .. at  BY <1>1, <2>1, <2>2
    <3>3. ae[i] = a[i]  BY <1>5, <3>2
    <3> QED  BY <1>2, <2>2, <3>1, <3>2, <3>3
  <2>3. CASE i = at
    <3>1. (ae \o b)[i] = ae[at]  BY <1>1, <1>6, <2>1, <2>3
    <3>2. at \in 1 .. at /\ ~(at <= at - 1) /\ at - (at - 1) = 1  BY <1>1
    <3>3. ae[at] = e  BY <1>4, <1>5, <3>2
    <3> QED  BY <2>3, <3>1, <3>3
  <2>4. CASE i > at
    <3>1. (ae \o b)[i] = b[i - at]  BY <1>1, <1>6, <2>1, <2>4
    <3>2. i - at \in 1 .. Len(s) - at + 1 /\ at + (i - at) - 1 = i - 1
      BY <1>1, <2>1, <2>4
    <3>3. b[i - at] = s[i - 1]  BY <1>3, <3>2
    <3> QED  BY <1>1, <2>1, <2>4, <3>1, <3>3
  <2>5. i < at \/ i = at \/ i > at  BY <1>1, <2>1
  <2>6. i > at => ~(i < at) /\ i # at  BY <1>1, <2>1
  <2>7. i = at => ~(i < at)  BY <1>1
  <2> QED  BY <2>2, <2>3, <2>4, <2>5, <2>6, <2>7
<1> QED  BY <1>1, <1>6, <1>7, <1>8

\* An insertion keeps what is there, around the newcomer.
InsertsInPlace(S, s, later, e) ==
    LET at == Before(s, later)
        t  == InsertBefore(s, later, e)
    IN  /\ at \in 1 .. Len(s) + 1 /\ at \in later \cup {Len(s) + 1}
        /\ \A i \in later : at <= i
        /\ t \in Seq(S) /\ Len(t) = Len(s) + 1 /\ DOMAIN t = 1 .. Len(s) + 1
        /\ \A i \in 1 .. Len(s) + 1 :
             t[i] = IF i < at THEN s[i] ELSE IF i = at THEN e ELSE s[i - 1]
LEMMA InsertBeforeIs ==
    ASSUME NEW S, NEW s \in Seq(S), NEW later \in SUBSET DOMAIN s, NEW e \in S
    PROVE  InsertsInPlace(S, s, later, e)
<1> DEFINE at == Before(s, later)
           t  == InsertBefore(s, later, e)
<1>1. /\ at \in 1 .. Len(s) + 1 /\ at \in later \cup {Len(s) + 1}
      /\ \A i \in later : at <= i
  BY BeforeIs
<1>2. t = InsertAt(s, at, e)  BY DEF InsertBefore
<1> HIDE DEF at, t
<1>3. LET u == InsertAt(s, at, e)
      IN  /\ u \in Seq(S) /\ Len(u) = Len(s) + 1
          /\ \A i \in 1 .. Len(s) + 1 :
               u[i] = IF i < at THEN s[i] ELSE IF i = at THEN e ELSE s[i - 1]
  <2>1. at \in 1 .. Len(s) + 1  BY <1>1
  <2> QED  BY <2>1, InsertAtIs
<1>4. DOMAIN t = 1 .. Len(s) + 1  BY <1>2, <1>3, LenProperties
<1> QED  BY <1>1, <1>2, <1>3, <1>4 DEF at, t, InsertsInPlace

LEMMA RemoveAtIs ==
    ASSUME NEW S, NEW s \in Seq(S), NEW at \in 1 .. Len(s)
    PROVE  LET t == RemoveAt(s, at)
           IN  /\ t \in Seq(S) /\ Len(t) = Len(s) - 1
               /\ \A i \in 1 .. Len(s) - 1 : t[i] = IF i < at THEN s[i] ELSE s[i + 1]
<1> DEFINE a == SubSeq(s, 1, at - 1)
           b == SubSeq(s, at + 1, Len(s))
<1>1. Len(s) \in Nat /\ at \in Nat /\ \A i \in 1 .. Len(s) : s[i] \in S
  BY ElementOfSeq, LenProperties
<1>2. /\ a \in Seq(S) /\ Len(a) = at - 1
      /\ \A i \in 1 .. at - 1 : a[i] = s[i]
  <2>1. /\ a \in Seq(S) /\ Len(a) = IF 1 <= at - 1 THEN at - 1 - 1 + 1 ELSE 0
        /\ \A i \in 1 .. (at - 1 - 1 + 1) : a[i] = s[1 + i - 1]
    <3>1. \A i \in 1 .. at - 1 : s[i] \in S  BY <1>1
    <3>2. 1 \in Int /\ at - 1 \in Int  BY <1>1
    <3> HIDE DEF a
    <3> QED  BY <3>1, <3>2, SubSeqProperties DEF a
  <2> QED  BY <1>1, <2>1
<1>3. /\ b \in Seq(S) /\ Len(b) = Len(s) - at
      /\ \A i \in 1 .. Len(s) - at : b[i] = s[at + i]
  <2>1. /\ b \in Seq(S) /\ Len(b) = IF at + 1 <= Len(s) THEN Len(s) - (at + 1) + 1 ELSE 0
        /\ \A i \in 1 .. (Len(s) - (at + 1) + 1) : b[i] = s[at + 1 + i - 1]
    <3>1. \A i \in at + 1 .. Len(s) : s[i] \in S  BY <1>1
    <3>2. at + 1 \in Int /\ Len(s) \in Int  BY <1>1
    <3> HIDE DEF b
    <3> QED  BY <3>1, <3>2, SubSeqProperties DEF b
  <2>2. \A i \in 1 .. Len(s) - at : at + 1 + i - 1 = at + i  BY <1>1
  <2> QED  BY <1>1, <2>1, <2>2
<1> HIDE DEF a, b
<1>4. /\ a \o b \in Seq(S) /\ Len(a \o b) = at - 1 + (Len(s) - at)
      /\ \A i \in 1 .. at - 1 + (Len(s) - at) :
           (a \o b)[i] = IF i <= at - 1 THEN a[i] ELSE b[i - (at - 1)]
  <2>1. /\ a \o b \in Seq(S) /\ Len(a \o b) = Len(a) + Len(b)
        /\ \A i \in 1 .. Len(a) + Len(b) :
             (a \o b)[i] = IF i <= Len(a) THEN a[i] ELSE b[i - Len(a)]
    BY <1>2, <1>3, ConcatProperties
  <2>2. Len(a) = at - 1 /\ Len(b) = Len(s) - at  BY <1>2, <1>3
  <2> QED  BY <2>1, <2>2
<1>5. RemoveAt(s, at) = a \o b  BY DEF RemoveAt, a, b
<1>6. ASSUME NEW i \in 1 .. Len(s) - 1
      PROVE  (a \o b)[i] = IF i < at THEN s[i] ELSE s[i + 1]
  <2>1. i \in 1 .. at - 1 + (Len(s) - at) /\ i \in Nat  BY <1>1
  <2>2. CASE i < at  BY <1>1, <1>2, <1>4, <2>1, <2>2
  <2>3. CASE ~(i < at)
    <3>1. (a \o b)[i] = b[i - (at - 1)]  BY <1>1, <1>4, <2>1, <2>3
    <3>2. i - (at - 1) \in 1 .. Len(s) - at /\ at + (i - (at - 1)) = i + 1
      BY <1>1, <2>1, <2>3
    <3> QED  BY <1>3, <2>3, <3>1, <3>2
  <2> QED  BY <2>2, <2>3
<1> QED  BY <1>1, <1>4, <1>5, <1>6

---------------------------------------------------------------------------
\* The clock

(***************************************************************************)
(* That the epochs reported end with the present one is inductive once     *)
(* they are known to be a sequence of epochs.                              *)
(***************************************************************************)
ClockInv == TypeOK /\ crossed \in Seq(Int) /\ CrossedConsecutive

LEMMA UntilNextPositive == TypeOK => UntilNext \in Nat \ {0}
BY ClockAssumption DEF TypeOK, UntilNext

LEMMA BoundaryKeeps ==
    ASSUME ClockInv, current_epoch < LastEpoch, NextBoundary
    PROVE  /\ current_epoch' \in GenesisEpoch .. LastEpoch
           /\ seconds_into_epoch' \in 0 .. EpochSeconds - 1
           /\ boundary_count' = current_epoch' - GenesisEpoch
           /\ crossed' \in Seq(Int)
           /\ CrossedConsecutive'
<1>1. /\ current_epoch' = current_epoch + 1 /\ current_epoch' \in Int
      /\ crossed' = Append(crossed, current_epoch')
      /\ crossed \in Seq(Int) /\ current_epoch \in Int
  BY ClockAssumption DEF ClockInv, TypeOK, NextBoundary
<1>2. /\ current_epoch' \in GenesisEpoch .. LastEpoch
      /\ seconds_into_epoch' \in 0 .. EpochSeconds - 1
      /\ boundary_count' = current_epoch' - GenesisEpoch
  BY ClockAssumption DEF ClockInv, TypeOK, NextBoundary
<1>3. crossed' \in Seq(Int)
  BY <1>1
<1>4. CrossedConsecutive'
  <2> SUFFICES ASSUME NEW i \in 1 .. Len(crossed')
               PROVE  crossed'[i] = current_epoch' - (Len(crossed') - i)
    BY DEF CrossedConsecutive
  <2>1. Len(crossed') = Len(crossed) + 1 /\ Len(crossed) \in Nat
    BY <1>1
  <2>2. CASE i = Len(crossed')
    BY <1>1, <2>1, <2>2
  <2>3. CASE i # Len(crossed')
    <3>1. i \in 1 .. Len(crossed) /\ crossed'[i] = crossed[i]
      BY <1>1, <2>1, <2>3
    <3>2. crossed[i] = current_epoch - (Len(crossed) - i)
      BY <3>1 DEF ClockInv, CrossedConsecutive
    <3> QED BY <1>1, <2>1, <3>1, <3>2
  <2> QED BY <2>2, <2>3
<1> QED BY <1>2, <1>3, <1>4

LEMMA NewCallKeeps ==
    ASSUME crossed' = << >>
    PROVE  crossed' \in Seq(Int) /\ CrossedConsecutive'
BY DEF CrossedConsecutive

LEMMA QuietStepKeeps ==
    ASSUME ClockInv, crossed' = crossed, current_epoch' = current_epoch
    PROVE  crossed' \in Seq(Int) /\ CrossedConsecutive'
BY DEF ClockInv, CrossedConsecutive

LEMMA AdvanceKeeps ==
    ASSUME ClockInv, NEW n \in Nat, AdvanceEpochs(n)
    PROVE  ClockInv'
<1>1. TypeOK'
  BY ClockAssumption DEF ClockInv, TypeOK, AdvanceEpochs, clockVars, Idle
<1> QED BY <1>1, NewCallKeeps DEF AdvanceEpochs, ClockInv

LEMMA LoopKeeps ==
    ASSUME ClockInv, Loop
    PROVE  ClockInv'
<1> USE ClockAssumption
<1>1. CASE StayWithin
  <2>1. TypeOK'
    BY <1>1 DEF ClockInv, TypeOK, StayWithin, UntilNext
  <2> QED BY <1>1, <2>1, QuietStepKeeps DEF StayWithin, ClockInv
<1>2. CASE CrossBySeconds
  <2>1. remaining' \in Nat /\ rounds' = 0
    BY <1>2, UntilNextPositive DEF ClockInv, TypeOK, CrossBySeconds
  <2> QED BY <1>2, <2>1, BoundaryKeeps DEF CrossBySeconds, ClockInv, TypeOK
<1>3. CASE CrossByEpochs
  <2>1. rounds' \in Nat /\ remaining' = 0
    BY <1>3 DEF ClockInv, TypeOK, CrossByEpochs
  <2> QED BY <1>3, <2>1, BoundaryKeeps DEF CrossByEpochs, ClockInv, TypeOK
<1>4. CASE GiveUp
  <2>1. TypeOK'
    BY <1>4 DEF ClockInv, TypeOK, GiveUp, clockVars
  <2> QED BY <1>4, <2>1, QuietStepKeeps DEF GiveUp, clockVars, ClockInv
<1> QED BY <1>1, <1>2, <1>3, <1>4 DEF Loop

(***************************************************************************)
(* Every reachable state satisfies the inductive invariant.                *)
(***************************************************************************)
THEOREM ClockInductive == Spec => []ClockInv
<1>1. Init => ClockInv
  BY ClockAssumption DEF Init, ClockInv, TypeOK, CrossedConsecutive
<1>2. ClockInv /\ [Next]_vars => ClockInv'
  <2> SUFFICES ASSUME ClockInv, [Next]_vars PROVE ClockInv'
    OBVIOUS
  <2> USE ClockAssumption
  <2>1. ASSUME NEW s \in SecondsInputs, SetSecondsIntoEpoch(s) PROVE ClockInv'
    <3>1. TypeOK'
      BY <2>1 DEF ClockInv, TypeOK, SetSecondsIntoEpoch
    <3> QED BY <2>1, <3>1, QuietStepKeeps DEF SetSecondsIntoEpoch, ClockInv
  <2>2. ASSUME NEW s \in SecondsInputs, AdvanceSeconds(s) PROVE ClockInv'
    <3>1. TypeOK'
      BY <2>2 DEF ClockInv, TypeOK, AdvanceSeconds, clockVars, Idle
    <3> QED BY <2>2, <3>1, NewCallKeeps DEF AdvanceSeconds, ClockInv
  <2>3. ASSUME NEW n \in EpochInputs, AdvanceEpochs(n) PROVE ClockInv'
    BY <2>3, AdvanceKeeps
  <2>4. CASE UNCHANGED vars
    BY <2>4 DEF vars, ClockInv, TypeOK, CrossedConsecutive
  <2> QED BY <2>1, <2>2, <2>3, <2>4, LoopKeeps, ClockAssumption DEF Next
<1> QED BY <1>1, <1>2, PTL DEF Spec

(***************************************************************************)
(* The seconds never leave their epoch, no epoch lies beyond the last one, *)
(* and boundary_count is the number of epochs since the genesis (src/time).*)
(***************************************************************************)
THEOREM TypeCorrect == Spec => []TypeOK
BY ClockInductive, PTL DEF ClockInv

(***************************************************************************)
(* The epochs that advance_seconds and advance_epochs report are           *)
(* consecutive and end with the present one, also when the call fails.     *)
(***************************************************************************)
THEOREM BoundariesConsecutive == Spec => []CrossedConsecutive
BY ClockInductive, PTL DEF ClockInv

---------------------------------------------------------------------------
(***************************************************************************)
(* The clock of seconds.  In a state the epoch of the wall is the epoch of *)
(* the clock, unless seconds are left to spend.                            *)
(***************************************************************************)
LEMMA DivUnique ==
    ASSUME NEW c \in Nat, NEW s \in 0 .. EpochSeconds - 1
    PROVE  (c * EpochSeconds + s) \div EpochSeconds = c
<1> DEFINE w == c * EpochSeconds + s
           q == w \div EpochSeconds
<1>1. EpochSeconds \in Nat /\ EpochSeconds > 0 /\ s \in Nat /\ w \in Nat
  BY ClockAssumption
<1>2. q \in Int /\ q * EpochSeconds <= w /\ w < (q + 1) * EpochSeconds
  BY <1>1
<1>3. ~(q < c)
  BY <1>1, <1>2
<1>4. ~(q > c)
  BY <1>1, <1>2
<1> QED BY <1>2, <1>3, <1>4

LEMMA DivBeyond ==
    ASSUME NEW c \in Nat, NEW w \in Nat, w >= (c + 1) * EpochSeconds
    PROVE  w \div EpochSeconds > c
<1> DEFINE q == w \div EpochSeconds
<1>1. EpochSeconds \in Nat /\ EpochSeconds > 0
  BY ClockAssumption
<1>2. q \in Int /\ w < (q + 1) * EpochSeconds
  BY <1>1
<1>3. ~(q <= c)
  BY <1>1, <1>2
<1> QED BY <1>2, <1>3

LEMMA ElapsedNat ==
    ASSUME TypeOK
    PROVE  /\ Elapsed \in Nat /\ current_epoch \in Nat /\ seconds_into_epoch \in Nat
           /\ current_epoch * EpochSeconds \in Nat
<1>1. current_epoch \in Nat /\ seconds_into_epoch \in Nat /\ remaining \in Nat
  BY ClockAssumption DEF TypeOK
<1>2. current_epoch * EpochSeconds \in Nat
  BY <1>1, ClockAssumption
<1> QED BY <1>1, <1>2 DEF Elapsed

LEMMA SettledEpoch ==
    ASSUME TypeOK, remaining = 0
    PROVE  Wall!EpochOf(Elapsed) = current_epoch
<1>1. Elapsed = current_epoch * EpochSeconds + seconds_into_epoch
  BY ElapsedNat DEF Elapsed
<1> QED BY <1>1, ElapsedNat, DivUnique DEF Wall!EpochOf, TypeOK

LEMMA InitRefines == Init => Wall!Init
<1>1. GenesisEpoch * EpochSeconds \in Nat
  BY ClockAssumption
<1> QED BY <1>1 DEF Init, Wall!Init, Wall!StartOf, Elapsed

\* One round of advance_seconds moves time from the loop to the clock.
LEMMA CrossingStutters ==
    ASSUME TypeOK, CrossBySeconds
    PROVE  Elapsed' = Elapsed
<1>1. /\ current_epoch' = current_epoch + 1 /\ seconds_into_epoch' = 0
      /\ remaining' = remaining - (EpochSeconds - seconds_into_epoch)
  BY DEF CrossBySeconds, NextBoundary, UntilNext
<1>2. (current_epoch + 1) * EpochSeconds = current_epoch * EpochSeconds + EpochSeconds
  BY ElapsedNat, ClockAssumption
<1> QED BY <1>1, <1>2, ElapsedNat, ClockAssumption DEF Elapsed, TypeOK

\* A call gives up where the wall would pass the last epoch.
LEMMA GivingUpStops ==
    ASSUME TypeOK, TypeOK', GiveUp
    PROVE  Wall!Stop
<1>1. /\ current_epoch = LastEpoch /\ remaining' = 0 /\ rounds' = 0
      /\ current_epoch' = current_epoch /\ seconds_into_epoch' = seconds_into_epoch
  BY DEF GiveUp, clockVars
<1>2. Wall!EpochOf(Elapsed)' = LastEpoch
  <2>1. Elapsed' = current_epoch * EpochSeconds + seconds_into_epoch
    BY <1>1, ElapsedNat DEF Elapsed
  <2>2. Wall!EpochOf(Elapsed)' = current_epoch
    BY <2>1, ElapsedNat, DivUnique DEF Wall!EpochOf, TypeOK
  <2> QED BY <1>1, <2>2
<1>3. Elapsed' <= Elapsed
  BY <1>1, ElapsedNat DEF Elapsed, TypeOK
<1>4. CASE rounds > 0
  <2>1. Wall!EpochOf(Elapsed) = LastEpoch
    BY <1>1, <1>4, SettledEpoch DEF TypeOK
  <2> QED BY <1>1, <1>2, <1>3, <1>4, <2>1 DEF Wall!Stop, Wall!EpochOf
<1>5. CASE remaining > 0 /\ remaining >= UntilNext
  <2>1. (LastEpoch + 1) * EpochSeconds = LastEpoch * EpochSeconds + EpochSeconds
    BY ClockAssumption
  <2>2. Elapsed >= (LastEpoch + 1) * EpochSeconds
    BY <1>1, <1>5, <2>1, ElapsedNat, ClockAssumption DEF Elapsed, UntilNext, TypeOK
  <2>3. Wall!EpochOf(Elapsed) > LastEpoch
    BY <2>2, DivBeyond, ElapsedNat, ClockAssumption DEF Wall!EpochOf
  <2> QED BY <1>1, <1>2, <1>3, <2>3 DEF Wall!Stop, Wall!EpochOf
<1> QED BY <1>4, <1>5 DEF GiveUp

LEMMA NextRefines ==
    ASSUME TypeOK, TypeOK', [Next]_vars
    PROVE  [Wall!Next]_<<Elapsed, rounds>>
<1>1. ASSUME NEW s \in SecondsInputs, SetSecondsIntoEpoch(s) PROVE Wall!Next
  <2>1. /\ remaining = 0 /\ rounds = 0 /\ s < EpochSeconds /\ rounds' = rounds
        /\ Elapsed' = current_epoch * EpochSeconds + s
    BY <1>1, ElapsedNat, ClockAssumption DEF SetSecondsIntoEpoch, Idle, Elapsed
  <2>2. Wall!EpochOf(Elapsed) = current_epoch
    BY <2>1, SettledEpoch
  <2>3. Wall!Set(s)
    BY <2>1, <2>2 DEF Wall!Set, Wall!StartOf
  <2> QED BY <2>3 DEF Wall!Next
<1>2. ASSUME NEW n \in SecondsInputs, AdvanceSeconds(n) PROVE Wall!Next
  <2>1. rounds = 0 /\ rounds' = rounds /\ Elapsed' = Elapsed + n
    BY <1>2, ElapsedNat, ClockAssumption DEF AdvanceSeconds, Idle, Elapsed, clockVars
  <2> QED BY <2>1 DEF Wall!Next, Wall!Add
<1>3. ASSUME NEW n \in EpochInputs, AdvanceEpochs(n) PROVE Wall!Next
  <2>1. rounds = 0 /\ rounds' = n /\ Elapsed' = Elapsed
    BY <1>3 DEF AdvanceEpochs, Idle, Elapsed, clockVars
  <2> QED BY <2>1 DEF Wall!Next, Wall!Leap
<1>4. CASE StayWithin
  <2>1. Elapsed' = Elapsed /\ rounds' = rounds
    BY <1>4, ElapsedNat DEF StayWithin, Elapsed, TypeOK
  <2> QED BY <2>1
<1>5. CASE CrossBySeconds
  BY <1>5, CrossingStutters DEF CrossBySeconds
<1>6. CASE CrossByEpochs
  <2>1. /\ remaining = 0 /\ remaining' = 0 /\ rounds > 0 /\ rounds' = rounds - 1
        /\ current_epoch < LastEpoch
        /\ current_epoch' = current_epoch + 1 /\ seconds_into_epoch' = 0
    BY <1>6 DEF CrossByEpochs, NextBoundary, TypeOK
  <2>2. Wall!EpochOf(Elapsed) = current_epoch
    BY <2>1, SettledEpoch
  <2>3. (current_epoch + 1) * EpochSeconds \in Nat
    BY ElapsedNat, ClockAssumption
  <2>4. Elapsed' = (current_epoch + 1) * EpochSeconds
    BY <2>1, <2>3 DEF Elapsed
  <2> QED BY <2>1, <2>2, <2>4 DEF Wall!Next, Wall!Cross, Wall!StartOf
<1>7. CASE GiveUp
  BY <1>7, GivingUpStops DEF Wall!Next
<1>8. CASE UNCHANGED vars
  BY <1>8 DEF vars, Elapsed
<1> QED BY <1>1, <1>2, <1>3, <1>4, <1>5, <1>6, <1>7, <1>8 DEF Next, Loop

(***************************************************************************)
(* The epoch clock implements the clock of seconds: no second is lost or   *)
(* counted twice over any number of boundaries, and what a call that gives *)
(* up drops lies beyond the last epoch (src/time).                         *)
(***************************************************************************)
THEOREM Refinement == Spec => ImplementsWallClock
<1>1. TypeOK /\ TypeOK' /\ [Next]_vars => [Wall!Next]_<<Elapsed, rounds>>
  BY NextRefines
<1> QED BY <1>1, InitRefines, TypeCorrect, PTL DEF Spec, ImplementsWallClock, Wall!Spec

---------------------------------------------------------------------------
\* The books beside the clock

\* A step of the desk is one of the clock or one of a book, while the clock
\* stands still.
LEMMA DeskMoves ==
    ASSUME [DeskNext]_deskVars
    PROVE  /\ Next \/ AdvanceEpochs(1) \/ Loop \/ UNCHANGED vars
           /\ (OracleNext /\ UNCHANGED vars) \/ UNCHANGED oracleVars
           /\ (MaintenanceNext /\ UNCHANGED vars) \/ UNCHANGED maintenanceVars
           /\ (BatchNext /\ UNCHANGED vars) \/ UNCHANGED batchVars
           /\ LanesNext \/ UNCHANGED lanesVars
           /\ OperatorsNext \/ UNCHANGED operatorsVars
           /\ ScheduleNext \/ UNCHANGED scheduleVars
           /\ ReportsNext \/ UNCHANGED reportsVars
<1>1. CASE ClockStep
  <2>1. /\ Next \/ AdvanceEpochs(1) \/ Loop
        /\ UNCHANGED bookVars
    BY <1>1 DEF ClockStep
  <2> QED  BY <2>1 DEF bookVars
<1>2. CASE UNCHANGED deskVars  BY <1>2 DEF deskVars, bookVars
<1>3. CASE OracleStep  BY <1>3 DEF OracleStep
<1>4. CASE MaintenanceStep  BY <1>4 DEF MaintenanceStep
<1>5. CASE BatchStep  BY <1>5 DEF BatchStep
<1>6. CASE ScheduleStep  BY <1>6 DEF ScheduleStep
<1>7. CASE LanesStep  BY <1>7 DEF LanesStep
<1>8. CASE OperatorsStep  BY <1>8 DEF OperatorsStep
<1>9. CASE ReportsStep  BY <1>9 DEF ReportsStep
<1> QED  BY <1>1, <1>2, <1>3, <1>4, <1>5, <1>6, <1>7, <1>8, <1>9 DEF DeskNext

\* The clock of the desk keeps its invariant, and never goes back.
LEMMA DeskClockStep ==
    ASSUME ClockInv, [DeskNext]_deskVars
    PROVE  ClockInv' /\ current_epoch <= current_epoch'
<1> USE ClockAssumption
<1>1. current_epoch \in Nat  BY DEF ClockInv, TypeOK
<1>2. ASSUME NEW s \in SecondsInputs, SetSecondsIntoEpoch(s)
      PROVE  ClockInv' /\ current_epoch' = current_epoch
  <2>1. TypeOK'
    BY <1>2 DEF ClockInv, TypeOK, SetSecondsIntoEpoch
  <2> QED  BY <1>2, <2>1, QuietStepKeeps DEF SetSecondsIntoEpoch, ClockInv
<1>3. ASSUME NEW s \in SecondsInputs, AdvanceSeconds(s)
      PROVE  ClockInv' /\ current_epoch' = current_epoch
  <2>1. TypeOK' /\ current_epoch' = current_epoch
    BY <1>3 DEF ClockInv, TypeOK, AdvanceSeconds, clockVars, Idle
  <2> QED  BY <1>3, <2>1, NewCallKeeps DEF AdvanceSeconds, ClockInv
<1>4. ASSUME NEW n \in Nat, AdvanceEpochs(n)
      PROVE  ClockInv' /\ current_epoch' = current_epoch
  BY <1>4, AdvanceKeeps DEF AdvanceEpochs, clockVars
<1>5. CASE Loop
  <2>1. current_epoch' \in {current_epoch, current_epoch + 1}
    BY <1>5 DEF Loop, StayWithin, CrossBySeconds, CrossByEpochs, NextBoundary, GiveUp,
                clockVars
  <2> QED  BY <1>1, <1>5, <2>1, LoopKeeps
<1>6. CASE UNCHANGED vars
  BY <1>1, <1>6 DEF vars, ClockInv, TypeOK, CrossedConsecutive
<1>7. 1 \in Nat /\ EpochInputs \subseteq Nat  OBVIOUS
<1>8. Next \/ AdvanceEpochs(1) \/ Loop \/ UNCHANGED vars  BY DeskMoves
<1>9. \/ \E s \in SecondsInputs : SetSecondsIntoEpoch(s) \/ AdvanceSeconds(s)
      \/ \E n \in Nat : AdvanceEpochs(n)
      \/ Loop \/ UNCHANGED vars
  BY <1>7, <1>8 DEF Next
<1>10. current_epoch' = current_epoch => current_epoch <= current_epoch'  BY <1>1
<1> QED  BY <1>2, <1>3, <1>4, <1>5, <1>6, <1>9, <1>10

LEMMA DeskClock == DeskSpec => []ClockInv
<1>1. DeskInit => ClockInv
  BY ClockAssumption DEF DeskInit, Init, ClockInv, TypeOK, CrossedConsecutive
<1>2. ClockInv /\ [DeskNext]_deskVars => ClockInv'  BY DeskClockStep
<1> QED  BY <1>1, <1>2, PTL DEF DeskSpec

---------------------------------------------------------------------------
\* Batches

(***************************************************************************)
(* The seal of a batch is the source of everything executed from it: no    *)
(* transaction is recorded before the seal, and nothing is pushed after.   *)
(***************************************************************************)
BatchSound(b) ==
    LET batch == batches[b]
    IN  /\ batch \in Manifest
        /\ batch.executed_txs > 0 \/ batch.status \in {"Sealed", "Executing", "Completed"} =>
             /\ batch.instructions = sealedAs[b].instructions
             /\ batch.sealed_epoch = sealedAs[b].sealed_epoch
             /\ sealedAs[b].instructions # << >>
        /\ batch.status \in {"Unknown", "Draft", "Sealed"} => batch.executed_txs = 0
        /\ batch.status = "Completed" =>
             batch.executed_txs <= Len(batch.instructions)
BatchInv ==
    /\ batches = [b \in BatchIds |-> batches[b]]
    /\ sealedAs = [b \in BatchIds |-> sealedAs[b]]
    /\ \A b \in BatchIds : BatchSound(b)

LEMMA BatchStepKeeps ==
    ASSUME BatchInv, BatchNext
    PROVE  BatchInv'
<1> USE DEF BatchStatus
<1>1. PICK b \in BatchIds :
        \/ InsertBatch(b)
        \/ \E instruction \in Instructions : PushInstruction(b, instruction)
        \/ \E e \in SealEpochs : Seal(b, e)
        \/ BeginExecution(b) \/ RecordTx(b) \/ Complete(b) \/ CancelBatch(b)
  BY DEF BatchNext
<1>2. /\ \A c \in BatchIds : c # b => batches'[c] = batches[c] /\ sealedAs'[c] = sealedAs[c]
      /\ batches' = [c \in BatchIds |-> batches'[c]]
      /\ sealedAs' = [c \in BatchIds |-> sealedAs'[c]]
  <2>1. /\ \/ \E m : batches' = [batches EXCEPT ![b] = m]
           \/ UNCHANGED batches
        /\ \/ \E m : sealedAs' = [sealedAs EXCEPT ![b] = m]
           \/ UNCHANGED sealedAs
    <3>1. CASE InsertBatch(b)  BY <3>1 DEF InsertBatch
    <3>2. CASE \E instruction \in Instructions : PushInstruction(b, instruction)
      BY <3>2 DEF PushInstruction
    <3>3. CASE \E e \in SealEpochs : Seal(b, e)  BY <3>3 DEF Seal
    <3>4. CASE BeginExecution(b)  BY <3>4 DEF BeginExecution
    <3>5. CASE RecordTx(b)  BY <3>5 DEF RecordTx
    <3>6. CASE Complete(b)  BY <3>6 DEF Complete
    <3>7. CASE CancelBatch(b)  BY <3>7 DEF CancelBatch
    <3> QED  BY <1>1, <3>1, <3>2, <3>3, <3>4, <3>5, <3>6, <3>7
  <2> QED  BY <2>1 DEF BatchInv
<1>3. ASSUME NEW c \in BatchIds, c # b PROVE BatchSound(c)'
  BY <1>2, <1>3 DEF BatchInv, BatchSound
<1>4. BatchSound(b)'
  <2> DEFINE old == batches[b]
  <2>1. BatchSound(b) /\ old \in Manifest
    BY DEF BatchInv, BatchSound
  <2>2. CASE InsertBatch(b)
    <3>1. batches'[b] = NewManifest("Draft") /\ sealedAs'[b] = sealedAs[b]
      BY <2>2 DEF InsertBatch, BatchInv
    <3>2. NewManifest("Draft") \in Manifest  BY DEF NewManifest, Manifest
    <3> QED  BY <3>1, <3>2 DEF BatchSound, NewManifest
  <2>3. ASSUME NEW instruction \in Instructions, PushInstruction(b, instruction)
        PROVE  BatchSound(b)'
    <3>1. /\ batches'[b] = [old EXCEPT !.instructions = Append(@, instruction)]
          /\ old.status = "Draft" /\ sealedAs'[b] = sealedAs[b]
      BY <2>3 DEF PushInstruction, BatchInv
    <3>2. Append(old.instructions, instruction) \in Seq(Instructions)
      BY <2>1 DEF Manifest
    <3>3. /\ batches'[b] \in Manifest /\ batches'[b].status = "Draft"
          /\ batches'[b].executed_txs = 0
      BY <2>1, <3>1, <3>2 DEF Manifest, BatchSound
    <3> QED  BY <3>3 DEF BatchSound
  <2>4. ASSUME NEW e \in SealEpochs, Seal(b, e)
        PROVE  BatchSound(b)'
    <3>1. /\ batches'[b] = [old EXCEPT !.status = "Sealed", !.sealed_epoch = e]
          /\ old.status = "Draft" /\ old.instructions # << >>
          /\ sealedAs'[b] = batches'[b]
      BY <2>4 DEF Seal, BatchInv
    <3>2. /\ batches'[b] \in Manifest /\ batches'[b].status = "Sealed"
          /\ batches'[b].instructions = old.instructions
          /\ batches'[b].executed_txs = 0
      BY <2>1, <3>1, BatchAssumption DEF Manifest, BatchSound
    <3> QED  BY <3>1, <3>2 DEF BatchSound
  <2>5. CASE BeginExecution(b)
    <3>1. /\ batches'[b] = [old EXCEPT !.status = "Executing"]
          /\ old.status = "Sealed" /\ sealedAs'[b] = sealedAs[b]
      BY <2>5 DEF BeginExecution, BatchInv
    <3> QED  BY <2>1, <3>1 DEF BatchSound, Manifest
  <2>6. CASE RecordTx(b)
    <3>1. /\ batches'[b] = [old EXCEPT !.executed_txs = @ + 1]
          /\ old.status = "Executing" /\ sealedAs'[b] = sealedAs[b]
      BY <2>6 DEF RecordTx, BatchInv
    <3> QED  BY <2>1, <3>1 DEF BatchSound, Manifest
  <2>7. CASE Complete(b)
    <3>1. /\ batches'[b] = [old EXCEPT !.status = "Completed"]
          /\ old.status = "Executing" /\ sealedAs'[b] = sealedAs[b]
          /\ old.executed_txs <= Len(old.instructions)
      BY <2>7 DEF Complete, BatchInv
    <3> QED  BY <2>1, <3>1 DEF BatchSound, Manifest
  <2>8. CASE CancelBatch(b)
    <3>1. /\ batches'[b] = [old EXCEPT !.status = "Cancelled"]
          /\ sealedAs'[b] = sealedAs[b]
      BY <2>8 DEF CancelBatch, BatchInv
    <3> QED  BY <2>1, <3>1 DEF BatchSound, Manifest
  <2> QED  BY <1>1, <2>2, <2>3, <2>4, <2>5, <2>6, <2>7, <2>8
<1> QED  BY <1>2, <1>3, <1>4 DEF BatchInv

(***************************************************************************)
(* What a batch executes is what was sealed, and it never completes with   *)
(* more transactions than instructions (src/batch).                        *)
(***************************************************************************)
THEOREM SealsHold == DeskSpec => []ExecutedAsSealed
<1>1. DeskInit => BatchInv
  <2> SUFFICES ASSUME BatchInit PROVE BatchInv  BY DEF DeskInit
  <2>1. NewManifest("Unknown") \in Manifest
    BY DEF NewManifest, Manifest, BatchStatus
  <2>2. ASSUME NEW b \in BatchIds PROVE BatchSound(b)
    BY <2>1 DEF BatchInit, BatchSound, NewManifest
  <2> QED  BY <2>2 DEF BatchInit, BatchInv
<1>2. BatchInv /\ [DeskNext]_deskVars => BatchInv'
  <2> SUFFICES ASSUME BatchInv, [DeskNext]_deskVars PROVE BatchInv'
    OBVIOUS
  <2>1. CASE UNCHANGED batchVars
    BY <2>1 DEF batchVars, BatchInv, BatchSound
  <2> QED  BY <2>1, BatchStepKeeps, DeskMoves
<1>3. BatchInv => ExecutedAsSealed
  <2> SUFFICES ASSUME NEW b \in BatchIds, BatchSound(b)
               PROVE  LET batch == batches[b]
                      IN  /\ batch.executed_txs > 0 \/ batch.status = "Completed" =>
                               /\ batch.instructions = sealedAs[b].instructions
                               /\ batch.sealed_epoch = sealedAs[b].sealed_epoch
                               /\ sealedAs[b].instructions # << >>
                          /\ batch.status = "Completed" =>
                               batch.executed_txs <= Len(sealedAs[b].instructions)
                          /\ batch.executed_txs > Len(batch.instructions) =>
                               batch.status \in {"Executing", "Cancelled"}
    BY DEF BatchInv, ExecutedAsSealed
  <2>1. /\ batches[b].executed_txs \in Nat /\ Len(batches[b].instructions) \in Nat
        /\ batches[b].status \in BatchStatus \cup {"Unknown"}
    <3>1. batches[b] \in Manifest  BY DEF BatchSound
    <3>2. batches[b].instructions \in Seq(Instructions)  BY <3>1 DEF Manifest
    <3> QED  BY <3>1, <3>2, LenProperties DEF Manifest
  <2> QED  BY <2>1 DEF BatchSound, BatchStatus
<1> QED  BY <1>1, <1>2, <1>3, DeskClock, PTL DEF DeskSpec

---------------------------------------------------------------------------
\* Settlement lanes

Withheld(lane) == [lane EXCEPT !.status = "Paused"]

(***************************************************************************)
(* What a route holds has been offered, at most paused since; and an offer *)
(* is in the route as it was made until its operator is paused, although   *)
(* a pause reaches only one lane of the operator.                          *)
(***************************************************************************)
LanesSound(r) ==
    /\ lanes[r] \in Seq(Lane) /\ offered[r] \subseteq Lane
    /\ \A i \in DOMAIN lanes[r] : \E lane \in offered[r] :
          lanes[r][i] \in {lane, Withheld(lane)}
    /\ \A lane \in offered[r] : lane.operator \notin withdrawn[r] =>
          \E i \in DOMAIN lanes[r] : lanes[r][i] = lane
LanesInv ==
    /\ lanes = [r \in Routes |-> lanes[r]] /\ offered = [r \in Routes |-> offered[r]]
    /\ withdrawn = [r \in Routes |-> withdrawn[r]]
    /\ \A r \in Routes : LanesSound(r)

LEMMA AddLaneKeeps ==
    ASSUME LanesInv, NEW r \in Routes, NEW lane \in LaneOffers, AddLane(r, lane)
    PROVE  LanesInv'
<1>1. /\ lanes' = [lanes EXCEPT ![r] = Append(@, lane)]
      /\ offered' = [offered EXCEPT ![r] = @ \cup {lane}]
      /\ UNCHANGED withdrawn
  BY DEF AddLane
<1>2. /\ lanes'[r] = Append(lanes[r], lane) /\ offered'[r] = offered[r] \cup {lane}
      /\ withdrawn'[r] = withdrawn[r]
      /\ \A q \in Routes : q # r => lanes'[q] = lanes[q] /\ offered'[q] = offered[q]
  BY <1>1 DEF LanesInv
<1>3. lane \in Lane  BY LanesAssumption
<1>4. LanesSound(r)'
  <2>1. LanesSound(r) /\ lanes[r] \in Seq(Lane)  BY DEF LanesInv, LanesSound
  <2>2. /\ lanes'[r] \in Seq(Lane) /\ Len(lanes'[r]) = Len(lanes[r]) + 1
        /\ \A i \in 1 .. Len(lanes[r]) : lanes'[r][i] = lanes[r][i]
        /\ lanes'[r][Len(lanes[r]) + 1] = lane
    BY <1>2, <1>3, <2>1, AppendProperties
  <2>3. /\ DOMAIN lanes[r] = 1 .. Len(lanes[r]) /\ Len(lanes[r]) \in Nat
        /\ DOMAIN lanes'[r] = 1 .. Len(lanes[r]) + 1
    BY <2>1, <2>2, LenProperties
  <2>4. ASSUME NEW i \in DOMAIN lanes'[r]
        PROVE  \E given \in offered'[r] : lanes'[r][i] \in {given, Withheld(given)}
    <3>1. CASE i = Len(lanes[r]) + 1  BY <1>2, <2>2, <3>1
    <3>2. CASE i \in DOMAIN lanes[r]
      BY <1>2, <2>1, <2>2, <2>3, <3>2 DEF LanesSound
    <3> QED  BY <2>3, <3>1, <3>2
  <2>5. ASSUME NEW given \in offered'[r], given.operator \notin withdrawn'[r]
        PROVE  \E i \in DOMAIN lanes'[r] : lanes'[r][i] = given
    <3>1. CASE given = lane
      <4>1. Len(lanes[r]) + 1 \in DOMAIN lanes'[r]  BY <2>3
      <4> QED  BY <2>2, <3>1, <4>1
    <3>2. CASE given \in offered[r]
      <4>1. PICK i \in DOMAIN lanes[r] : lanes[r][i] = given
        BY <1>2, <2>1, <2>5, <3>2 DEF LanesSound
      <4>2. i \in DOMAIN lanes'[r] /\ lanes'[r][i] = given
        BY <2>2, <2>3, <4>1
      <4> QED  BY <4>2
    <3> QED  BY <1>2, <3>1, <3>2
  <2>6. offered'[r] \subseteq Lane  BY <1>2, <1>3, <2>1 DEF LanesSound
  <2> QED  BY <2>2, <2>4, <2>5, <2>6 DEF LanesSound
<1>5. ASSUME NEW q \in Routes, q # r PROVE LanesSound(q)'
  <2>1. LanesSound(q)  BY DEF LanesInv
  <2>2. /\ lanes'[q] = lanes[q] /\ offered'[q] = offered[q]
        /\ withdrawn'[q] = withdrawn[q]
    BY <1>1, <1>2, <1>5
  <2> QED  BY <2>1, <2>2 DEF LanesSound
<1> QED  BY <1>1, <1>4, <1>5 DEF LanesInv

LEMMA PauseLaneKeeps ==
    ASSUME LanesInv, NEW r \in Routes, NEW operator \in LaneOperators,
           PauseLane(r, operator)
    PROVE  LanesInv'
<1>1. PICK i \in DOMAIN lanes[r] :
        /\ lanes[r][i].operator = operator
        /\ lanes' = [lanes EXCEPT ![r][i].status = "Paused"]
  BY DEF PauseLane
<1>2. withdrawn' = [withdrawn EXCEPT ![r] = @ \cup {operator}] /\ UNCHANGED offered
  BY DEF PauseLane
<1>3. /\ lanes' = [lanes EXCEPT ![r] = [lanes[r] EXCEPT ![i] = Withheld(lanes[r][i])]]
      /\ lanes' = [q \in Routes |-> lanes'[q]]
  BY <1>1 DEF LanesInv, Withheld
<1>4. /\ lanes'[r] = [lanes[r] EXCEPT ![i] = Withheld(lanes[r][i])]
      /\ withdrawn'[r] = withdrawn[r] \cup {operator}
      /\ \A q \in Routes : q # r => lanes'[q] = lanes[q] /\ withdrawn'[q] = withdrawn[q]
  BY <1>2, <1>3 DEF LanesInv
<1>5. LanesSound(r)'
  <2>1. LanesSound(r) /\ lanes[r] \in Seq(Lane)  BY DEF LanesInv, LanesSound
  <2>2. i \in 1 .. Len(lanes[r]) /\ lanes[r][i] \in Lane
    BY <2>1, ElementOfSeq, LenProperties
  <2>3. Withheld(lanes[r][i]) \in Lane  BY <2>2 DEF Withheld, Lane, RouteStatus
  <2>4. /\ lanes'[r] \in Seq(Lane) /\ DOMAIN lanes'[r] = DOMAIN lanes[r]
        /\ \A j \in DOMAIN lanes[r] :
             lanes'[r][j] = IF j = i THEN Withheld(lanes[r][i]) ELSE lanes[r][j]
    BY <1>4, <2>1, <2>2, <2>3, ExceptSeq, LenProperties
  <2>5. ASSUME NEW j \in DOMAIN lanes'[r]
        PROVE  \E lane \in offered'[r] : lanes'[r][j] \in {lane, Withheld(lane)}
    <3>1. PICK lane \in offered[r] : lanes[r][j] \in {lane, Withheld(lane)}
      BY <2>1, <2>4 DEF LanesSound
    <3>2. Withheld(Withheld(lane)) = Withheld(lane)
      <4>1. lane \in Lane  BY <2>1 DEF LanesSound
      <4> QED  BY <4>1 DEF Withheld, Lane
    <3> QED  BY <1>2, <2>4, <3>1, <3>2
  <2>6. ASSUME NEW lane \in offered'[r], lane.operator \notin withdrawn'[r]
        PROVE  \E j \in DOMAIN lanes'[r] : lanes'[r][j] = lane
    <3>1. PICK j \in DOMAIN lanes[r] : lanes[r][j] = lane
      BY <1>2, <1>4, <2>1, <2>6 DEF LanesSound
    <3>2. j # i  BY <1>1, <1>4, <2>6, <3>1
    <3> QED  BY <2>4, <3>1, <3>2
  <2> QED  BY <1>2, <2>1, <2>4, <2>5, <2>6 DEF LanesSound
<1>6. ASSUME NEW q \in Routes, q # r PROVE LanesSound(q)'
  <2>1. LanesSound(q)  BY DEF LanesInv
  <2>2. /\ lanes'[q] = lanes[q] /\ offered'[q] = offered[q]
        /\ withdrawn'[q] = withdrawn[q]
    BY <1>2, <1>4, <1>6
  <2> QED  BY <2>1, <2>2 DEF LanesSound
<1> QED  BY <1>2, <1>3, <1>5, <1>6 DEF LanesInv

\* min_by finds the cheapest lane that accepts, where there is one.
LEMMA CheapestChosen ==
    ASSUME LanesInv, NEW r \in Routes, NEW e, NEW x, Accepting(r, e, x) # {}
    PROVE  /\ Chosen(r, e, x) \in Accepting(r, e, x)
           /\ \A j \in Accepting(r, e, x) :
                lanes[r][Chosen(r, e, x)].fee_bps <= lanes[r][j].fee_bps
<1> DEFINE A == Accepting(r, e, x)
           fees == { lanes[r][j].fee_bps : j \in A }
<1>1. /\ lanes[r] \in Seq(Lane) /\ A \subseteq DOMAIN lanes[r]
      /\ DOMAIN lanes[r] = 1 .. Len(lanes[r])
  BY LenProperties DEF LanesInv, LanesSound, Accepting
<1>2. \A j \in A : lanes[r][j].fee_bps \in Nat
  <2>1. \A j \in A : lanes[r][j] \in Lane  BY <1>1, ElementOfSeq
  <2> QED  BY <2>1, AmountsAssumption DEF Lane
<1>3. fees \in SUBSET Nat /\ fees # {}  BY <1>2
<1>4. PICK least \in fees : \A f \in fees : least <= f
  BY <1>3, LeastNat
<1> DEFINE Cheapest == { j \in A : lanes[r][j].fee_bps = least }
<1>5. Cheapest \in SUBSET Nat /\ Cheapest # {}  BY <1>1, <1>4
<1>6. PICK i \in Cheapest : \A j \in Cheapest : i <= j
  BY <1>5, LeastNat
<1>7. \A j \in A : \/ lanes[r][i].fee_bps < lanes[r][j].fee_bps
                   \/ lanes[r][i].fee_bps = lanes[r][j].fee_bps /\ i <= j
  <2> SUFFICES ASSUME NEW j \in A
               PROVE  \/ lanes[r][i].fee_bps < lanes[r][j].fee_bps
                      \/ lanes[r][i].fee_bps = lanes[r][j].fee_bps /\ i <= j
    OBVIOUS
  <2>1. lanes[r][i].fee_bps = least /\ lanes[r][j].fee_bps \in fees  BY <1>6
  <2>2. least <= lanes[r][j].fee_bps  BY <1>4, <2>1
  <2>3. least \in Nat /\ lanes[r][j].fee_bps \in Nat  BY <1>2, <1>3
  <2>4. CASE lanes[r][j].fee_bps = least
    <3>1. j \in Cheapest  BY <2>4
    <3> QED  BY <1>6, <2>1, <2>4, <3>1
  <2>5. CASE lanes[r][j].fee_bps # least
    <3> HIDE DEF fees, Cheapest
    <3> QED  BY <2>1, <2>2, <2>3, <2>5
  <2> QED  BY <2>4, <2>5
<1>8. i \in A  BY <1>6
<1> HIDE DEF A
<1>9. /\ Chosen(r, e, x) \in A
      /\ \A j \in A :
           \/ lanes[r][Chosen(r, e, x)].fee_bps < lanes[r][j].fee_bps
           \/ /\ lanes[r][Chosen(r, e, x)].fee_bps = lanes[r][j].fee_bps
              /\ Chosen(r, e, x) <= j
  BY <1>7, <1>8 DEF Chosen, A
<1> QED  BY <1>2, <1>9 DEF A

\* A lower fee leaves more, and can be paid where the higher one can.
LEMMA CheaperPays ==
    ASSUME NEW x \in Amount, NEW a \in Lane, NEW b \in Lane, a.fee_bps <= b.fee_bps,
           Payable(b, x)
    PROVE  Payable(a, x) /\ NetOf(a, x) >= NetOf(b, x)
<1>1. PICK n \in Nat, f \in Nat, g \in Nat : n = x /\ f = a.fee_bps /\ g = b.fee_bps
  BY AmountIffFits, AmountsAssumption DEF Lane
<1>2. f <= g /\ n * f \in Nat /\ n * g \in Nat /\ n * f <= n * g
  <2>1. \A u, v \in Nat : u <= v => n * u <= n * v  OBVIOUS
  <2> QED  BY <1>1, <2>1, TimesNat
<1>3. /\ (n * f) \div BPS_DENOMINATOR <= (n * g) \div BPS_DENOMINATOR
      /\ (n * f) \div BPS_DENOMINATOR \in Nat /\ (n * g) \div BPS_DENOMINATOR \in Nat
  BY <1>2, DivMonotone, DivNat, AmountsAssumption
<1>4. n * g <= MaxAmount /\ (n * g) \div BPS_DENOMINATOR <= n
  BY <1>1 DEF Payable, MulBpsFits, MulBps, Fits
<1> QED  BY <1>1, <1>2, <1>3, <1>4, AmountsAssumption
         DEF Payable, NetOf, MulBpsFits, MulBps, Fits

(***************************************************************************)
(* RouteBook::quote never pays less than a standing offer, and never what  *)
(* nobody has offered (src/routes).                                        *)
(***************************************************************************)
THEOREM OffersHold == DeskSpec => []OffersStand
<1>1. DeskInit => LanesInv
  <2>1. LanesInit => LanesInv  BY DEF LanesInit, LanesInv, LanesSound
  <2> QED  BY <2>1 DEF DeskInit
<1>2. LanesInv /\ [DeskNext]_deskVars => LanesInv'
  <2> SUFFICES ASSUME LanesInv, [DeskNext]_deskVars PROVE LanesInv'
    OBVIOUS
  <2>1. CASE UNCHANGED lanesVars
    BY <2>1 DEF lanesVars, LanesInv, LanesSound
  <2>2. CASE LanesNext
    BY <2>2, AddLaneKeeps, PauseLaneKeeps DEF LanesNext
  <2> QED  BY <2>1, <2>2, DeskMoves
<1>3. LanesInv => OffersStand
  <2> SUFFICES ASSUME LanesInv, NEW r \in Routes, NEW e \in GenesisEpoch .. LastEpoch,
                      NEW x \in LaneAmounts
               PROVE  /\ \A lane \in offered[r] :
                           /\ lane.operator \notin withdrawn[r]
                           /\ Accepts(lane, e, x) /\ Payable(lane, x)
                           => QuoteSucceeds(r, e, x) /\ NetAmount(r, e, x) >= NetOf(lane, x)
                      /\ QuoteSucceeds(r, e, x) =>
                           \E lane \in offered[r] :
                              Accepts(lane, e, x) /\ NetAmount(r, e, x) = NetOf(lane, x)
    BY DEF OffersStand
  <2> DEFINE c == lanes[r][Chosen(r, e, x)]
  <2>1. x \in Amount  BY LanesAssumption
  <2>2. LanesSound(r)  BY DEF LanesInv
  <2>3. Accepting(r, e, x) # {} =>
          /\ Chosen(r, e, x) \in DOMAIN lanes[r] /\ c \in Lane /\ Accepts(c, e, x)
          /\ \A j \in Accepting(r, e, x) : c.fee_bps <= lanes[r][j].fee_bps
    <3>1. lanes[r] \in Seq(Lane) /\ DOMAIN lanes[r] = 1 .. Len(lanes[r])
      BY <2>2, LenProperties DEF LanesSound
    <3> QED  BY <3>1, CheapestChosen, ElementOfSeq DEF Accepting
  <2>4. ASSUME NEW lane \in offered[r], lane.operator \notin withdrawn[r],
               Accepts(lane, e, x), Payable(lane, x)
        PROVE  QuoteSucceeds(r, e, x) /\ NetAmount(r, e, x) >= NetOf(lane, x)
    <3>1. PICK i \in DOMAIN lanes[r] : lanes[r][i] = lane
      BY <2>2, <2>4 DEF LanesSound
    <3>2. i \in Accepting(r, e, x)  BY <2>4, <3>1 DEF Accepting
    <3>3. lane \in Lane  BY <2>2 DEF LanesSound
    <3>4. c \in Lane /\ c.fee_bps <= lane.fee_bps  BY <2>3, <3>1, <3>2
    <3>5. Payable(c, x) /\ NetOf(c, x) >= NetOf(lane, x)
      <4> HIDE DEF c
      <4> QED  BY <2>1, <2>4, <3>3, <3>4, CheaperPays
    <3> QED  BY <3>2, <3>5 DEF QuoteSucceeds, NetAmount
  <2>5. ASSUME QuoteSucceeds(r, e, x)
        PROVE  \E lane \in offered[r] :
                  Accepts(lane, e, x) /\ NetAmount(r, e, x) = NetOf(lane, x)
    <3>1. /\ Chosen(r, e, x) \in DOMAIN lanes[r] /\ Accepts(c, e, x)
      BY <2>3, <2>5 DEF QuoteSucceeds
    <3>2. PICK lane \in offered[r] : c \in {lane, Withheld(lane)}
      BY <2>2, <3>1 DEF LanesSound
    <3>3. c # Withheld(lane)
      <4>1. lane \in Lane  BY <2>2 DEF LanesSound
      <4>2. Withheld(lane).status = "Paused"  BY <4>1 DEF Withheld, Lane
      <4> QED  BY <3>1, <4>2 DEF Accepts
    <3> QED  BY <3>1, <3>2, <3>3 DEF NetAmount
  <2> QED  BY <2>4, <2>5
<1> QED  BY <1>1, <1>2, <1>3, PTL DEF DeskSpec

---------------------------------------------------------------------------
\* The maintenance queue

\* The order in which a queue serves, and that it names every plan once.
InTurn(s) == \A i, j \in DOMAIN s : i < j => Earlier(s[i], s[j])
OneEach(s) == \A i, j \in DOMAIN s : s[i].name = s[j].name => i = j

\* A push keeps the order, if the newcomer has been pushed last.
LEMMA InsertedInTurn ==
    ASSUME NEW s \in Seq(Plan), InTurn(s), OneEach(s), NEW k \in Nat,
           NEW plan \in Plan, plan.pushed = k,
           \A i \in DOMAIN s : s[i].pushed < k /\ s[i].name # plan.name
    PROVE  LET t == Inserted(s, plan)
           IN  /\ t \in Seq(Plan) /\ InTurn(t) /\ OneEach(t)
               /\ \A i \in DOMAIN t : t[i] = plan \/ \E j \in DOMAIN s : t[i] = s[j]
<1> DEFINE later == {i \in DOMAIN s : s[i].scheduled > plan.scheduled}
           at == Before(s, later)
           t == Inserted(s, plan)
<1>1. /\ Len(s) \in Nat /\ DOMAIN s = 1 .. Len(s)
      /\ \A i \in DOMAIN s : s[i] \in Plan
  BY ElementOfSeq, LenProperties
<1>2. InsertsInPlace(Plan, s, later, plan)
  <2>1. later \in SUBSET DOMAIN s  OBVIOUS
  <2> HIDE DEF later
  <2> QED  BY <2>1, InsertBeforeIs
<1>3. t = InsertBefore(s, later, plan)  BY DEF Inserted
<1>4. /\ at \in 1 .. Len(s) + 1 /\ at \in later \cup {Len(s) + 1}
      /\ \A i \in later : at <= i
      /\ t \in Seq(Plan) /\ Len(t) = Len(s) + 1 /\ DOMAIN t = 1 .. Len(s) + 1
      /\ \A i \in 1 .. Len(s) + 1 :
           t[i] = IF i < at THEN s[i] ELSE IF i = at THEN plan ELSE s[i - 1]
  <2> HIDE DEF later
  <2> QED  BY <1>2, <1>3 DEF InsertsInPlace
<1>5. DOMAIN t = 1 .. Len(s) + 1  BY <1>4
<1>6. \A p \in Plan : p.scheduled \in Nat /\ p.pushed \in Nat /\ p.name \in Nat
  BY DEF Plan
<1>7. \A i \in DOMAIN s : i < at => Earlier(s[i], plan)
  <2> SUFFICES ASSUME NEW i \in DOMAIN s, i < at PROVE Earlier(s[i], plan)
    OBVIOUS
  <2>1. i \notin later
    <3>1. i \in Nat /\ at \in Nat  BY <1>1, <1>4
    <3> HIDE DEF later, at
    <3> QED  BY <1>4, <3>1
  <2>2. s[i].scheduled <= plan.scheduled /\ s[i].pushed < plan.pushed
    BY <1>1, <1>6, <2>1
  <2> QED  BY <1>1, <1>6, <2>2 DEF Earlier
<1>8. \A i \in DOMAIN s : at <= i => Earlier(plan, s[i])
  <2> SUFFICES ASSUME NEW i \in DOMAIN s, at <= i PROVE Earlier(plan, s[i])
    OBVIOUS
  <2>1. at \in DOMAIN s /\ at \in later
    <3>1. at # Len(s) + 1  BY <1>1, <1>4
    <3> HIDE DEF later, at
    <3> QED  BY <1>1, <1>4, <3>1
  <2>2. plan.scheduled < s[at].scheduled  BY <2>1
  <2>3. s[at].scheduled <= s[i].scheduled
    <3>1. CASE at = i  BY <1>1, <1>6, <3>1
    <3>2. CASE at < i
      <4>1. Earlier(s[at], s[i])  BY <2>1, <3>2 DEF InTurn
      <4> QED  BY <1>1, <1>6, <2>1, <4>1 DEF Earlier
    <3>3. at \in Nat /\ i \in Nat  BY <1>1, <2>1
    <3> QED  BY <3>1, <3>2, <3>3
  <2> QED  BY <1>1, <1>6, <2>1, <2>2, <2>3 DEF Earlier
<1> HIDE DEF t, at, later
<1>9. \A i \in DOMAIN t :
        \/ i = at /\ t[i] = plan
        \/ i < at /\ i \in DOMAIN s /\ t[i] = s[i]
        \/ i > at /\ i - 1 \in DOMAIN s /\ at <= i - 1 /\ t[i] = s[i - 1]
  BY <1>1, <1>4, <1>5
<1>10. InTurn(t)
  <2> SUFFICES ASSUME NEW i \in DOMAIN t, NEW j \in DOMAIN t, i < j
               PROVE  Earlier(t[i], t[j])
    BY DEF InTurn
  <2>1. i \in Nat /\ j \in Nat /\ at \in Nat  BY <1>1, <1>4, <1>5
  <2>2. CASE j < at
    BY <1>9, <2>1, <2>2 DEF InTurn
  <2>3. CASE j = at
    BY <1>7, <1>9, <2>1, <2>3
  <2>4. CASE j > at /\ i < at
    <3>1. t[i] = s[i] /\ t[j] = s[j - 1] /\ i \in DOMAIN s /\ j - 1 \in DOMAIN s
      BY <1>9, <2>1, <2>4
    <3>2. i < j - 1  BY <2>1, <2>4
    <3> QED  BY <3>1, <3>2 DEF InTurn
  <2>5. CASE j > at /\ i = at
    BY <1>8, <1>9, <2>1, <2>5
  <2>6. CASE j > at /\ i > at
    <3>1. t[i] = s[i - 1] /\ t[j] = s[j - 1] /\ i - 1 \in DOMAIN s /\ j - 1 \in DOMAIN s
      BY <1>9, <2>1, <2>6
    <3>2. i - 1 < j - 1  BY <2>1
    <3> QED  BY <3>1, <3>2 DEF InTurn
  <2> QED  BY <2>1, <2>2, <2>3, <2>4, <2>5, <2>6
<1>11. OneEach(t)
  <2> SUFFICES ASSUME NEW i \in DOMAIN t, NEW j \in DOMAIN t, t[i].name = t[j].name
               PROVE  i = j
    BY DEF OneEach
  <2>1. i \in Nat /\ j \in Nat /\ at \in Nat  BY <1>1, <1>4, <1>5
  <2>2. \A m, n \in DOMAIN s : s[m].name = s[n].name => m = n  BY DEF OneEach
  <2>3. i = at <=> j = at  BY <1>9, <2>1
  <2>4. CASE i # at /\ j # at
    <3>1. PICK m \in DOMAIN s, n \in DOMAIN s :
            /\ t[i] = s[m] /\ t[j] = s[n]
            /\ (i < at /\ m = i) \/ (i > at /\ m = i - 1 /\ at <= m)
            /\ (j < at /\ n = j) \/ (j > at /\ n = j - 1 /\ at <= n)
      BY <1>9, <2>4
    <3>2. m = n  BY <2>2, <3>1
    <3> QED  BY <2>1, <3>1, <3>2
  <2> QED  BY <2>3, <2>4
<1>12. \A i \in DOMAIN t : t[i] = plan \/ \E j \in DOMAIN s : t[i] = s[j]
  BY <1>9
<1> QED  BY <1>4, <1>10, <1>11, <1>12 DEF t

\* What is left of a queue keeps its order.
LEMMA RemovedInTurn ==
    ASSUME NEW s \in Seq(Plan), InTurn(s), OneEach(s), NEW at \in DOMAIN s
    PROVE  LET t == RemoveAt(s, at)
           IN  /\ t \in Seq(Plan) /\ InTurn(t) /\ OneEach(t)
               /\ \A i \in DOMAIN t : \E j \in DOMAIN s : j # at /\ t[i] = s[j]
<1> DEFINE t == RemoveAt(s, at)
           from(i) == IF i < at THEN i ELSE i + 1
<1>1. Len(s) \in Nat /\ DOMAIN s = 1 .. Len(s)  BY LenProperties
<1>2. /\ t \in Seq(Plan) /\ Len(t) = Len(s) - 1
      /\ \A i \in 1 .. Len(s) - 1 : t[i] = IF i < at THEN s[i] ELSE s[i + 1]
  BY <1>1, RemoveAtIs
<1> HIDE DEF t
<1>3. DOMAIN t = 1 .. Len(s) - 1  BY <1>2, LenProperties
<1>4. \A i \in DOMAIN t : from(i) \in DOMAIN s /\ from(i) # at /\ t[i] = s[from(i)]
  BY <1>1, <1>2, <1>3
<1>5. \A i, j \in DOMAIN t : (i < j <=> from(i) < from(j)) /\ (i = j <=> from(i) = from(j))
  BY <1>1, <1>3
<1> HIDE DEF from
<1>6. InTurn(t) /\ OneEach(t)  BY <1>4, <1>5 DEF InTurn, OneEach
<1> QED  BY <1>2, <1>4, <1>6 DEF t

\* The state of a plan tells whether it has been begun.
BegunOnce(p) ==
    /\ p.attempts <= 1
    /\ p.status \in {"Running", "Completed"} => p.attempts = 1
    /\ p.status = "Queued" => p.attempts = 0

(***************************************************************************)
(* Every plan is in one place: in the queue, in the hands of one worker or *)
(* finished.  Workers may hand plans back in any state, so that the state  *)
(* of a plan says nothing of where it is; the names do.                    *)
(***************************************************************************)
QueueTyped ==
    /\ queue \in Seq(Plan) /\ finished \in Seq(Plan) /\ taken \subseteq Plan
    /\ created \in Nat /\ pushes \in Nat
QueueOrdered ==
    /\ InTurn(queue)
    /\ \A i \in DOMAIN queue : queue[i].pushed < pushes
PlansOnce ==
    /\ OneEach(queue) /\ OneEach(finished)
    /\ \A p, q \in taken : p.name = q.name => p = q
    /\ \A p \in taken, i \in DOMAIN queue : p.name # queue[i].name
    /\ \A p \in taken, i \in DOMAIN finished : p.name # finished[i].name
    /\ \A i \in DOMAIN queue, j \in DOMAIN finished : queue[i].name # finished[j].name
PlansSound ==
    /\ \A p \in taken : p.name < created /\ BegunOnce(p)
    /\ \A i \in DOMAIN queue : queue[i].name < created /\ BegunOnce(queue[i])
    /\ \A i \in DOMAIN finished : finished[i].name < created /\ BegunOnce(finished[i])
QueueInv == QueueTyped /\ QueueOrdered /\ PlansOnce /\ PlansSound

LEMMA PlansTyped ==
    ASSUME QueueTyped
    PROVE  /\ \A i \in DOMAIN queue : queue[i] \in Plan
           /\ \A i \in DOMAIN finished : finished[i] \in Plan
           /\ \A p \in Plan : /\ p.scheduled \in Nat /\ p.pushed \in Nat /\ p.name \in Nat
                              /\ p.attempts \in Nat /\ p.status \in MaintenanceStatus
BY ElementOfSeq, LenProperties DEF QueueTyped, Plan

\* A plan is pushed when it is in no other place.
LEMMA PushKeeps ==
    ASSUME QueueInv, NEW plan \in Plan, Push(plan), BegunOnce(plan),
           \A i \in DOMAIN queue : queue[i].name # plan.name,
           \A i \in DOMAIN finished : finished[i].name # plan.name,
           \A p \in taken' : p \in taken /\ p.name # plan.name,
           UNCHANGED finished, created' \in Nat, created <= created', plan.name < created'
    PROVE  QueueInv'
<1> DEFINE new == [plan EXCEPT !.pushed = pushes]
<1>1. /\ pushes \in Nat /\ pushes' = pushes + 1 /\ queue' = Inserted(queue, new)
  BY DEF Push, QueueInv, QueueTyped
<1>2. /\ new \in Plan /\ new.pushed = pushes /\ new.name = plan.name
      /\ new.attempts = plan.attempts /\ new.status = plan.status
  BY <1>1 DEF Plan
<1> HIDE DEF new
<1>3. \A i \in DOMAIN queue : queue[i].pushed < pushes /\ queue[i].name # new.name
  BY <1>2 DEF QueueInv, QueueOrdered
<1>4. /\ queue' \in Seq(Plan) /\ InTurn(queue') /\ OneEach(queue')
      /\ \A i \in DOMAIN queue' : queue'[i] = new \/ \E j \in DOMAIN queue : queue'[i] = queue[j]
  <2>1. queue \in Seq(Plan) /\ InTurn(queue) /\ OneEach(queue)
    BY DEF QueueInv, QueueTyped, QueueOrdered, PlansOnce
  <2>2. LET t == Inserted(queue, new)
        IN  /\ t \in Seq(Plan) /\ InTurn(t) /\ OneEach(t)
            /\ \A i \in DOMAIN t : t[i] = new \/ \E j \in DOMAIN queue : t[i] = queue[j]
    BY <1>1, <1>2, <1>3, <2>1, InsertedInTurn
  <2> QED  BY <1>1, <2>2
<1>5. QueueTyped'
  BY <1>1, <1>4 DEF QueueInv, QueueTyped
<1>6. QueueOrdered'
  <2>1. InTurn(queue)'  BY <1>4 DEF InTurn, Earlier
  <2>2. \A i \in DOMAIN queue : queue[i] \in Plan /\ queue[i].pushed \in Nat
    BY PlansTyped DEF QueueInv
  <2>3. \A i \in DOMAIN queue' : queue'[i].pushed < pushes'
    BY <1>1, <1>2, <1>3, <1>4, <2>2
  <2> QED  BY <2>1, <2>3 DEF QueueOrdered
<1>7. PlansOnce'
  <2>1. OneEach(queue)'  BY <1>4 DEF OneEach
  <2>2. OneEach(finished)'  BY DEF QueueInv, PlansOnce, OneEach
  <2> QED  BY <1>2, <1>4, <2>1, <2>2 DEF QueueInv, PlansOnce
<1>8. PlansSound'
  <2>1. \A n \in Nat : n < created => n < created'  BY DEF QueueInv, QueueTyped
  <2>2. /\ \A i \in DOMAIN queue : queue[i].name \in Nat
        /\ \A i \in DOMAIN finished : finished[i].name \in Nat
        /\ \A p \in taken : p.name \in Nat
    BY PlansTyped DEF QueueInv, QueueTyped
  <2>3. BegunOnce(new)  BY <1>2 DEF BegunOnce
  <2>4. \A i \in DOMAIN queue' : queue'[i].name < created' /\ BegunOnce(queue'[i])
    BY <1>2, <1>4, <2>1, <2>2, <2>3 DEF QueueInv, PlansSound
  <2>5. \A p \in taken' : p.name < created' /\ BegunOnce(p)
    BY <2>1, <2>2 DEF QueueInv, PlansSound
  <2>6. \A i \in DOMAIN finished' : finished'[i].name < created' /\ BegunOnce(finished'[i])
    BY <2>1, <2>2 DEF QueueInv, PlansSound
  <2> QED  BY <2>4, <2>5, <2>6 DEF PlansSound, BegunOnce
<1> QED  BY <1>5, <1>6, <1>7, <1>8 DEF QueueInv

LEMMA NewPlanKeeps ==
    ASSUME QueueInv, NEW subject \in Subjects, NEW e \in PlanEpochs, NewPlan(subject, e)
    PROVE  QueueInv'
<1> DEFINE plan == [name |-> created, subject |-> subject, scheduled |-> e,
                    status |-> "Queued", attempts |-> 0, pushed |-> pushes]
<1>1. /\ Push(plan) /\ created' = created + 1 /\ UNCHANGED <<taken, finished>>
  BY DEF NewPlan
<1>2. created \in Nat /\ pushes \in Nat  BY DEF QueueInv, QueueTyped
<1>3. plan \in Plan /\ plan.name = created /\ BegunOnce(plan)
  BY <1>2, MaintenanceAssumption DEF Plan, MaintenanceStatus, BegunOnce
<1> HIDE DEF plan
<1>4. \A n \in Nat : n < created => n # created  BY <1>2
<1>5. /\ \A i \in DOMAIN queue : queue[i].name # created
      /\ \A i \in DOMAIN finished : finished[i].name # created
      /\ \A p \in taken : p.name # created
  BY <1>4, PlansTyped DEF QueueInv, PlansSound, QueueTyped
<1>6. created' \in Nat /\ created <= created' /\ created < created'  BY <1>1, <1>2
<1> QED  BY <1>1, <1>3, <1>5, <1>6, PushKeeps

LEMMA PushBackKeeps ==
    ASSUME QueueInv, NEW plan \in taken, PushBack(plan)
    PROVE  QueueInv'
<1>1. Push(plan) /\ taken' = taken \ {plan} /\ UNCHANGED <<finished, created>>
  BY DEF PushBack
<1>2. plan \in Plan /\ BegunOnce(plan) /\ plan.name < created /\ created \in Nat
  BY DEF QueueInv, QueueTyped, PlansSound
<1>3. \A p \in taken' : p \in taken /\ p.name # plan.name
  BY <1>1 DEF QueueInv, PlansOnce
<1>4. /\ \A i \in DOMAIN queue : queue[i].name # plan.name
      /\ \A i \in DOMAIN finished : finished[i].name # plan.name
  BY DEF QueueInv, PlansOnce
<1> QED  BY <1>1, <1>2, <1>3, <1>4, PushKeeps

LEMMA NextReadyKeeps ==
    ASSUME QueueInv, NextReady
    PROVE  QueueInv'
<1>1. PICK k \in DOMAIN queue :
        /\ taken' = taken \cup {queue[k]} /\ queue' = RemoveAt(queue, k)
        /\ UNCHANGED <<finished, created, pushes>>
  BY DEF NextReady
<1>2. queue \in Seq(Plan) /\ InTurn(queue) /\ OneEach(queue)
  BY DEF QueueInv, QueueTyped, QueueOrdered, PlansOnce
<1>3. /\ queue' \in Seq(Plan) /\ InTurn(queue') /\ OneEach(queue')
      /\ \A i \in DOMAIN queue' : \E j \in DOMAIN queue : j # k /\ queue'[i] = queue[j]
  <2>1. LET t == RemoveAt(queue, k)
        IN  /\ t \in Seq(Plan) /\ InTurn(t) /\ OneEach(t)
            /\ \A i \in DOMAIN t : \E j \in DOMAIN queue : j # k /\ t[i] = queue[j]
    BY <1>2, RemovedInTurn
  <2> QED  BY <1>1, <2>1
<1>4. QueueTyped'
  BY <1>1, <1>3, PlansTyped DEF QueueInv, QueueTyped
<1>5. QueueOrdered'
  <2>1. InTurn(queue)'  BY <1>3 DEF InTurn, Earlier
  <2> QED  BY <1>1, <1>3, <2>1 DEF QueueInv, QueueOrdered
<1>6. PlansOnce'
  <2>1. OneEach(queue)'  BY <1>3 DEF OneEach
  <2>2. OneEach(finished)'  BY <1>1 DEF QueueInv, PlansOnce, OneEach
  <2>3. \A p \in taken', i \in DOMAIN queue' : p.name # queue'[i].name
    <3>1. \A i \in DOMAIN queue' : queue[k].name # queue'[i].name
      BY <1>2, <1>3 DEF OneEach
    <3> QED  BY <1>1, <1>3, <3>1 DEF QueueInv, PlansOnce
  <2> QED  BY <1>1, <1>3, <2>1, <2>2, <2>3 DEF QueueInv, PlansOnce
<1>7. PlansSound'
  BY <1>1, <1>3 DEF QueueInv, PlansSound, BegunOnce
<1> QED  BY <1>4, <1>5, <1>6, <1>7 DEF QueueInv

\* A worker changes the state of a plan that it holds, or parts with it.
LEMMA TakenKeeps ==
    ASSUME QueueInv, NEW plan \in taken, UNCHANGED <<queue, created, pushes>>,
           \/ /\ UNCHANGED finished
              /\ \/ taken' = taken \ {plan}
                 \/ \E new \in Plan : /\ new.name = plan.name /\ BegunOnce(new)
                                      /\ taken' = (taken \ {plan}) \cup {new}
           \/ /\ taken' = taken \ {plan}
              /\ \E new \in Plan : /\ new.name = plan.name /\ BegunOnce(new)
                                   /\ finished' = Append(finished, new)
    PROVE  QueueInv'
<1>1. /\ InTurn(queue)' /\ OneEach(queue)'
      /\ QueueOrdered'
  BY DEF QueueInv, QueueOrdered, PlansOnce, InTurn, OneEach, Earlier
<1>2. CASE UNCHANGED finished
  <2>1. /\ taken' \subseteq Plan
        /\ \A p \in taken' : \E q \in taken : p.name = q.name /\ BegunOnce(p)
        /\ \A p, q \in taken' : p.name = q.name => p = q
    <3>1. CASE taken' = taken \ {plan}
      BY <3>1 DEF QueueInv, QueueTyped, PlansOnce, PlansSound
    <3>2. ASSUME NEW new \in Plan, new.name = plan.name, BegunOnce(new),
                 taken' = (taken \ {plan}) \cup {new}
          PROVE  /\ taken' \subseteq Plan
                 /\ \A p \in taken' : \E q \in taken : p.name = q.name /\ BegunOnce(p)
                 /\ \A p, q \in taken' : p.name = q.name => p = q
      BY <3>2 DEF QueueInv, QueueTyped, PlansOnce, PlansSound
    <3>3. CASE \E new \in Plan : finished' = Append(finished, new)
      <4>1. FALSE
        <5>1. PICK new \in Plan : finished = Append(finished, new)  BY <1>2, <3>3
        <5>2. finished \in Seq(Plan)  BY DEF QueueInv, QueueTyped
        <5>3. Len(finished) = Len(finished) + 1 /\ Len(finished) \in Nat
          BY <5>1, <5>2, AppendProperties, LenProperties
        <5> QED  BY <5>3
      <4> QED  BY <4>1
    <3> QED  BY <3>1, <3>2, <3>3
  <2>2. OneEach(finished)'  BY <1>2 DEF QueueInv, PlansOnce, OneEach
  <2>3. QueueTyped'  BY <1>2, <2>1 DEF QueueInv, QueueTyped
  <2>4. PlansOnce'  BY <1>1, <1>2, <2>1, <2>2 DEF QueueInv, PlansOnce
  <2>5. PlansSound'  BY <1>2, <2>1 DEF QueueInv, PlansSound, BegunOnce
  <2> QED  BY <1>1, <2>3, <2>4, <2>5 DEF QueueInv
<1>3. ASSUME taken' = taken \ {plan}, NEW new \in Plan, new.name = plan.name,
             BegunOnce(new), finished' = Append(finished, new)
      PROVE  QueueInv'
  <2>1. finished \in Seq(Plan)  BY DEF QueueInv, QueueTyped
  <2>2. /\ finished' \in Seq(Plan)
        /\ Len(finished') = Len(finished) + 1 /\ Len(finished) \in Nat
        /\ \A i \in 1 .. Len(finished) : finished'[i] = finished[i]
        /\ finished'[Len(finished) + 1] = new
    BY <1>3, <2>1, AppendProperties, LenProperties
  <2>3. DOMAIN finished = 1 .. Len(finished) /\ DOMAIN finished' = 1 .. Len(finished) + 1
    BY <2>1, <2>2, LenProperties
  <2>4. \A i \in DOMAIN finished' :
          \/ i = Len(finished) + 1 /\ finished'[i] = new
          \/ i \in DOMAIN finished /\ finished'[i] = finished[i]
    BY <2>2, <2>3
  <2>5. \A i \in DOMAIN finished : new.name # finished[i].name
    BY <1>3 DEF QueueInv, PlansOnce
  <2>6. OneEach(finished)'
    BY <2>4, <2>5 DEF QueueInv, PlansOnce, OneEach
  <2>7. \A p \in taken' : p \in taken /\ p.name # new.name
    BY <1>3 DEF QueueInv, PlansOnce
  <2>8. QueueTyped'  BY <2>2, <2>7 DEF QueueInv, QueueTyped
  <2>9. \A i \in DOMAIN queue : new.name # queue[i].name
    BY <1>3 DEF QueueInv, PlansOnce
  <2>10. PlansOnce'  BY <1>1, <2>4, <2>6, <2>7, <2>9 DEF QueueInv, PlansOnce
  <2>11. new.name < created  BY <1>3 DEF QueueInv, PlansSound
  <2>12. PlansSound'
    BY <1>3, <2>4, <2>7, <2>11 DEF QueueInv, PlansSound, BegunOnce
  <2> QED  BY <1>1, <2>8, <2>10, <2>12 DEF QueueInv
<1> QED  BY <1>2, <1>3

LEMMA WorkersKeep ==
    ASSUME QueueInv, NEW plan \in taken,
           Begin(plan) \/ CancelTaken(plan) \/ Finish(plan) \/ Lose(plan)
    PROVE  QueueInv'
<1>1. plan \in Plan /\ BegunOnce(plan)
  BY DEF QueueInv, QueueTyped, PlansSound
<1>2. CASE Begin(plan)
  <2> DEFINE new == [plan EXCEPT !.status = "Running", !.attempts = @ + 1]
  <2>3. plan.status = "Queued" /\ plan.attempts = 0
    BY <1>1, <1>2 DEF BegunOnce, Begin
  <2>4. new = [plan EXCEPT !.status = "Running", !.attempts = 1]
    BY <1>1, <2>3 DEF Plan
  <2> HIDE DEF new
  <2>5. new = [name |-> plan.name, subject |-> plan.subject, scheduled |-> plan.scheduled,
               status |-> "Running", attempts |-> 1, pushed |-> plan.pushed]
    BY <1>1, <2>4 DEF Plan
  <2>6. new \in Plan  BY <1>1, <2>5 DEF Plan, MaintenanceStatus
  <2>1. new \in Plan /\ new.name = plan.name /\ BegunOnce(new)
    BY <2>5, <2>6 DEF BegunOnce
  <2>2. taken' = (taken \ {plan}) \cup {new} /\ UNCHANGED <<queue, finished, created, pushes>>
    BY <1>2 DEF Begin, new
  <2> QED  BY <2>1, <2>2, TakenKeeps
<1>3. CASE CancelTaken(plan)
  <2> DEFINE new == [plan EXCEPT !.status = "Cancelled"]
  <2>1. new \in Plan /\ new.name = plan.name /\ BegunOnce(new)
    BY <1>1 DEF Plan, MaintenanceStatus, BegunOnce
  <2>2. taken' = (taken \ {plan}) \cup {new} /\ UNCHANGED <<queue, finished, created, pushes>>
    BY <1>3 DEF CancelTaken
  <2> HIDE DEF new
  <2> QED  BY <2>1, <2>2, TakenKeeps
<1>4. CASE Finish(plan)
  <2>1. Ended(plan) \in Plan /\ Ended(plan).name = plan.name /\ BegunOnce(Ended(plan))
    BY <1>1 DEF Plan, MaintenanceStatus, BegunOnce, Ended
  <2>2. /\ finished' = Append(finished, Ended(plan)) /\ taken' = taken \ {plan}
        /\ UNCHANGED <<queue, created, pushes>>
    BY <1>4 DEF Finish
  <2> QED  BY <2>1, <2>2, TakenKeeps
<1>5. CASE Lose(plan)
  BY <1>5, TakenKeeps DEF Lose
<1> QED  BY <1>2, <1>3, <1>4, <1>5

LEMMA CancelSubjectKeeps ==
    ASSUME QueueInv, NEW subject \in Subjects, CancelSubject(subject)
    PROVE  QueueInv'
<1>1. /\ queue' = [i \in DOMAIN queue |->
           IF queue[i].subject = subject /\ queue[i].status = "Queued"
           THEN [queue[i] EXCEPT !.status = "Cancelled"] ELSE queue[i]]
      /\ UNCHANGED <<taken, finished, created, pushes>>
  BY DEF CancelSubject
<1>2. /\ queue \in Seq(Plan) /\ \A i \in DOMAIN queue : queue[i] \in Plan
  BY PlansTyped DEF QueueInv, QueueTyped
<1>3. DOMAIN queue' = DOMAIN queue
  BY <1>1
<1>4. ASSUME NEW i \in DOMAIN queue
      PROVE  /\ queue'[i] \in Plan
             /\ queue'[i].name = queue[i].name
             /\ queue'[i].scheduled = queue[i].scheduled
             /\ queue'[i].pushed = queue[i].pushed
             /\ BegunOnce(queue'[i])
  <2>1. queue[i] \in Plan /\ BegunOnce(queue[i])
    BY <1>2 DEF QueueInv, PlansSound
  <2>2. queue'[i] \in {queue[i], [queue[i] EXCEPT !.status = "Cancelled"]}
    BY <1>1
  <2> QED  BY <2>1, <2>2 DEF Plan, MaintenanceStatus, BegunOnce
<1>5. QueueTyped'
  <2>1. DOMAIN queue = 1 .. Len(queue) /\ Len(queue) \in Nat  BY <1>2, LenProperties
  <2>2. queue' = [i \in 1 .. Len(queue) |-> queue'[i]]  BY <1>1, <2>1
  <2>3. queue' \in Seq(Plan)  BY <1>4, <2>1, <2>2, IsASeq
  <2> QED  BY <1>1, <2>3 DEF QueueInv, QueueTyped
<1>6. QueueOrdered'
  <2>1. InTurn(queue)'
    BY <1>3, <1>4 DEF QueueInv, QueueOrdered, InTurn, Earlier
  <2> QED  BY <1>1, <1>3, <1>4, <2>1 DEF QueueInv, QueueOrdered
<1>7. PlansOnce'
  <2>1. OneEach(queue)'  BY <1>3, <1>4 DEF QueueInv, PlansOnce, OneEach
  <2>2. OneEach(finished)'  BY <1>1 DEF QueueInv, PlansOnce, OneEach
  <2> QED  BY <1>1, <1>3, <1>4, <2>1, <2>2 DEF QueueInv, PlansOnce
<1>8. PlansSound'
  BY <1>1, <1>3, <1>4 DEF QueueInv, PlansSound, BegunOnce
<1> QED  BY <1>5, <1>6, <1>7, <1>8 DEF QueueInv

LEMMA QueueAlways == DeskSpec => []QueueInv
<1>1. DeskInit => QueueInv
  <2> SUFFICES ASSUME MaintenanceInit PROVE QueueInv  BY DEF DeskInit
  <2>1. << >> \in Seq(Plan) /\ DOMAIN << >> = {}  OBVIOUS
  <2> QED  BY <2>1 DEF MaintenanceInit, QueueInv, QueueTyped, QueueOrdered, PlansOnce,
                       PlansSound, InTurn, OneEach
<1>2. QueueInv /\ [DeskNext]_deskVars => QueueInv'
  <2> SUFFICES ASSUME QueueInv, [DeskNext]_deskVars PROVE QueueInv'
    OBVIOUS
  <2>1. CASE UNCHANGED maintenanceVars
    BY <2>1 DEF maintenanceVars, QueueInv, QueueTyped, QueueOrdered, PlansOnce,
                PlansSound, InTurn, OneEach, Earlier, BegunOnce
  <2>2. CASE MaintenanceNext
    BY <2>2, NewPlanKeeps, NextReadyKeeps, WorkersKeep, PushBackKeeps, CancelSubjectKeeps
       DEF MaintenanceNext
  <2> QED  BY <2>1, <2>2, DeskMoves
<1> QED  BY <1>1, <1>2, PTL DEF DeskSpec

(***************************************************************************)
(* Work is done at most once, whatever is pushed back, lost or cancelled,  *)
(* and in whatever state it comes back (src/maintenance).                  *)
(***************************************************************************)
THEOREM WorkDoneOnce == DeskSpec => []DoneAtMostOnce
<1>1. QueueInv => DoneAtMostOnce
  <2> SUFFICES ASSUME QueueInv PROVE DoneAtMostOnce  OBVIOUS
  <2>1. \A p \in Everywhere : BegunOnce(p)
    BY DEF Everywhere, ToSet, QueueInv, PlansSound
  <2>2. \A i, j \in DOMAIN finished : finished[i].name = finished[j].name => i = j
    BY DEF QueueInv, PlansOnce, OneEach
  <2>3. \A p \in taken \cup ToSet(queue) :
          \A q \in taken \cup ToSet(finished) : p.name = q.name => p = q
    BY DEF ToSet, QueueInv, PlansOnce
  <2> QED  BY <2>1, <2>2, <2>3 DEF DoneAtMostOnce, BegunOnce
<1> QED  BY <1>1, QueueAlways, PTL

(***************************************************************************)
(* next_ready hands a plan out in its turn, wherever cancelled, stuck and  *)
(* pushed-back plans are in the queue (src/maintenance).                   *)
(***************************************************************************)
THEOREM TurnsKept == DeskSpec => ServedInTurn
<1>1. ASSUME QueueInv, [DeskNext]_deskVars, NEW plan \in taken' \ taken,
             \E i \in DOMAIN queue : queue[i] = plan
      PROVE  /\ ReadyAt(plan, current_epoch)
             /\ \A i \in DOMAIN queue' :
                   ReadyAt(queue'[i], current_epoch) => Earlier(plan, queue'[i])
  <2>1. MaintenanceNext
    <3>1. ~UNCHANGED maintenanceVars  BY <1>1 DEF maintenanceVars
    <3> QED  BY <1>1, <3>1, DeskMoves
  <2>2. NextReady
    <3>1. PICK k \in DOMAIN queue : queue[k] = plan  BY <1>1
    <3>2. \A p \in taken : p.name # plan.name
      BY <1>1, <3>1 DEF QueueInv, PlansOnce
    <3>3. \A p \in taken : ~Begin(p) /\ ~CancelTaken(p)
      <4> SUFFICES ASSUME NEW p \in taken, Begin(p) \/ CancelTaken(p) PROVE FALSE
        OBVIOUS
      <4>1. p \in Plan  BY <1>1 DEF QueueInv, QueueTyped
      <4>2. plan \in {[p EXCEPT !.status = "Running", !.attempts = @ + 1],
                      [p EXCEPT !.status = "Cancelled"]}
        BY <1>1 DEF Begin, CancelTaken
      <4>3. plan.name = p.name  BY <4>1, <4>2 DEF Plan
      <4> QED  BY <3>2, <4>3
    <3>4. \A p \in taken : ~Finish(p) /\ ~PushBack(p) /\ ~Lose(p)
      BY <1>1 DEF Finish, PushBack, Lose
    <3>5. \A subject \in Subjects : ~CancelSubject(subject)
      BY <1>1 DEF CancelSubject
    <3>6. \A subject \in Subjects, e \in PlanEpochs : ~NewPlan(subject, e)
      BY <1>1 DEF NewPlan
    <3> QED  BY <2>1, <3>3, <3>4, <3>5, <3>6 DEF MaintenanceNext
  <2>3. PICK k \in DOMAIN queue :
          /\ FirstReady(k, current_epoch)
          /\ taken' = taken \cup {queue[k]} /\ queue' = RemoveAt(queue, k)
    BY <2>2 DEF NextReady
  <2>4. plan = queue[k] /\ ReadyAt(plan, current_epoch)
    BY <1>1, <2>3 DEF FirstReady
  <2>5. queue \in Seq(Plan) /\ InTurn(queue) /\ OneEach(queue)
    BY <1>1 DEF QueueInv, QueueTyped, QueueOrdered, PlansOnce
  <2>6. \A i \in DOMAIN queue' : \E j \in DOMAIN queue : j # k /\ queue'[i] = queue[j]
    <3>1. LET t == RemoveAt(queue, k)
          IN  \A i \in DOMAIN t : \E j \in DOMAIN queue : j # k /\ t[i] = queue[j]
      BY <2>5, RemovedInTurn
    <3> QED  BY <2>3, <3>1
  <2>7. \A j \in DOMAIN queue :
          j # k /\ ReadyAt(queue[j], current_epoch) => Earlier(plan, queue[j])
    <3>1. DOMAIN queue = 1 .. Len(queue) /\ Len(queue) \in Nat
      BY <2>5, LenProperties
    <3>2. ASSUME NEW j \in DOMAIN queue, j < k PROVE ~ReadyAt(queue[j], current_epoch)
      <4>1. j \in 1 .. k - 1  BY <3>1, <3>2
      <4> QED  BY <2>3, <4>1 DEF FirstReady
    <3>3. ASSUME NEW j \in DOMAIN queue, k < j PROVE Earlier(plan, queue[j])
      BY <2>4, <2>5, <3>3 DEF InTurn
    <3>4. \A j \in DOMAIN queue : j = k \/ j < k \/ k < j  BY <3>1
    <3> QED  BY <3>2, <3>3, <3>4
  <2> QED  BY <2>4, <2>6, <2>7
<1>2. QueueInv /\ [DeskNext]_deskVars
        => [\A plan \in taken' \ taken :
              (\E i \in DOMAIN queue : queue[i] = plan) =>
                 /\ ReadyAt(plan, current_epoch)
                 /\ \A i \in DOMAIN queue' :
                       ReadyAt(queue'[i], current_epoch) => Earlier(plan, queue'[i])
           ]_maintenanceVars
  BY <1>1
<1> QED  BY <1>2, QueueAlways, PTL DEF DeskSpec, ServedInTurn

---------------------------------------------------------------------------
\* Operators

\* The share of the failures, in basis points, as failure_ratio_bps rounds it.
Ratio(settled, failed) ==
    IF settled + failed = 0 THEN 0
    ELSE (failed * BPS_DENOMINATOR) \div (settled + failed)

\* More settled never raises the ratio, in spite of the rounding.
LEMMA SuccessLowers ==
    ASSUME NEW s \in Nat, NEW f \in Nat, NEW x \in Nat
    PROVE  Ratio(s + x, f) <= Ratio(s, f)
<1> DEFINE B == BPS_DENOMINATOR
<1>1. B \in Nat /\ f * B \in Nat  BY TimesNat, AmountsAssumption
<1>2. CASE f = 0
  <2>1. \A n \in Nat : Ratio(n, f) = 0
    <3> SUFFICES ASSUME NEW n \in Nat, n # 0 PROVE (f * B) \div (n + f) = 0
      BY <1>2 DEF Ratio
    <3>1. f * B = 0 /\ n + f = n  BY <1>1, <1>2
    <3>2. 0 \div n <= 0 /\ 0 \div n \in Nat
      <4>1. n \in Nat \ {0} /\ 0 < (0 + 1) * n  OBVIOUS
      <4> QED  BY <4>1, DivBound, DivNat
    <3> QED  BY <3>1, <3>2
  <2>2. s + x \in Nat  OBVIOUS
  <2> QED  BY <2>1, <2>2
<1>3. CASE f # 0
  <2>1. s + f \in Nat \ {0} /\ s + x + f \in Nat \ {0}  BY <1>3
  <2> DEFINE q == (f * B) \div (s + f)
  <2>2. q \in Nat  BY <1>1, <2>1, DivNat
  <2>3. f * B < (q + 1) * (s + f)
    <3>1. q <= q  BY <2>2
    <3> QED  BY <1>1, <2>1, <2>2, <3>1, DivBound
  <2> HIDE DEF q
  <2>4. (q + 1) * (s + x + f) = (q + 1) * (s + f) + (q + 1) * x  BY <2>2
  <2>5. (q + 1) * x \in Nat /\ (q + 1) * (s + f) \in Nat  BY <2>1, <2>2, TimesNat
  <2>6. f * B < (q + 1) * (s + x + f)  BY <1>1, <2>3, <2>4, <2>5
  <2>7. (f * B) \div (s + x + f) <= q  BY <1>1, <2>1, <2>2, <2>6, DivBound
  <2> QED  BY <2>1, <2>7 DEF Ratio, q
<1> QED  BY <1>2, <1>3

\* More failed never lowers it.
LEMMA FailureRaises ==
    ASSUME NEW s \in Nat, NEW f \in Nat, NEW x \in Nat
    PROVE  Ratio(s, f) <= Ratio(s, f + x)
<1> DEFINE B == BPS_DENOMINATOR
           q == (f * B) \div (s + f)
           r == ((f + x) * B) \div (s + (f + x))
<1>1. B \in Nat /\ f * B \in Nat /\ x * B \in Nat /\ (f + x) * B \in Nat
  <2>1. B \in Nat /\ f + x \in Nat  BY AmountsAssumption
  <2> QED  BY <2>1, TimesNat
<1>2. CASE s + f = 0
  <2>1. Ratio(s, f) = 0  BY <1>2 DEF Ratio
  <2>2. Ratio(s, f + x) \in Nat
    <3>1. f + x \in Nat /\ s + (f + x) \in Nat  OBVIOUS
    <3>2. CASE s + (f + x) = 0  BY <3>2 DEF Ratio
    <3>3. CASE s + (f + x) # 0
      <4>1. r \in Nat  BY <1>1, <3>1, <3>3, DivNat
      <4> QED  BY <3>3, <4>1 DEF Ratio
    <3> QED  BY <3>2, <3>3
  <2> QED  BY <2>1, <2>2
<1>3. CASE s + f # 0
  <2>1. s + f \in Nat \ {0} /\ s + (f + x) \in Nat \ {0}  BY <1>3
  <2>2. q \in Nat /\ r \in Nat  BY <1>1, <2>1, DivNat
  <2>3. (s + f) * q <= f * B  BY <1>1, <2>1, DivBracket
  <2>4. (f + x) * B < (s + (f + x)) * r + (s + (f + x))
    BY <1>1, <2>1, DivBracket
  <2> HIDE DEF q, r
  <2>5. q <= B
    <3> SUFFICES ASSUME B + 1 <= q PROVE FALSE  BY <1>1, <2>2
    <3>1. (s + f) * (B + 1) <= (s + f) * q
      <4>1. q = B + 1 + (q - (B + 1)) /\ q - (B + 1) \in Nat  BY <1>1, <2>2
      <4>2. (s + f) * (q - (B + 1)) \in Nat /\ (s + f) * (B + 1) \in Nat
        <5>1. B + 1 \in Nat /\ s + f \in Nat  BY <1>1
        <5> QED  BY <4>1, <5>1, TimesNat
      <4>3. (s + f) * q = (s + f) * (B + 1) + (s + f) * (q - (B + 1))
        BY <1>1, <2>2
      <4> QED  BY <4>2, <4>3
    <3>2. (s + f) * (B + 1) = s * B + f * B + (s + f)  BY <1>1
    <3>3. s * B \in Nat  BY <1>1, TimesNat
    <3>4. (s + f) * q \in Nat  BY <2>1, <2>2, TimesNat
    <3> QED  BY <1>1, <2>1, <2>3, <3>1, <3>2, <3>3, <3>4
  <2>6. x * q <= x * B
    <3>1. B - q \in Nat  BY <1>1, <2>2, <2>5
    <3>2. x * (B - q) \in Nat /\ x * q \in Nat  BY <2>2, <3>1, TimesNat
    <3>3. x * B = x * q + x * (B - q)  BY <1>1, <2>2
    <3> QED  BY <3>2, <3>3
  <2>7. (s + (f + x)) * q = (s + f) * q + x * q /\ (f + x) * B = f * B + x * B
    BY <1>1, <2>2
  <2>8. (s + (f + x)) * q < (s + (f + x)) * r + (s + (f + x))
    <3>1. /\ (s + f) * q \in Nat /\ x * q \in Nat
          /\ (s + (f + x)) * r \in Nat
      BY <2>1, <2>2, TimesNat
    <3> QED  BY <1>1, <2>1, <2>3, <2>4, <2>6, <2>7, <3>1
  <2>9. q <= r
    <3> DEFINE n == s + (f + x)
    <3> SUFFICES ASSUME r + 1 <= q PROVE FALSE  BY <2>2
    <3>1. q - (r + 1) \in Nat /\ n \in Nat  BY <2>2
    <3>2. n * q = n * r + n + n * (q - (r + 1))
      <4>1. n \in Nat  OBVIOUS
      <4> HIDE DEF n
      <4> QED  BY <2>2, <4>1
    <3>3. n * (q - (r + 1)) \in Nat /\ n * r \in Nat /\ n * q \in Nat
      BY <2>2, <3>1, TimesNat
    <3>4. n * q < n * r + n  BY <2>8
    <3> HIDE DEF n
    <3> QED  BY <3>1, <3>2, <3>3, <3>4
  <2> QED  BY <2>1, <2>9 DEF Ratio, q, r
<1> QED  BY <1>2, <1>3

\* A profile of the registry; its score never leaves the range of the cap.
OperatorProfile ==
    [controller : Controllers \cup {"none"},
     permissions : SUBSET (DefaultPermissions \cup Permissions),
     service_windows : Seq(ServiceWindow), active : BOOLEAN,
     reputation_score : 0 .. ScoreCap, settled_notional : Nat, failed_notional : Nat]
ProfilesInv == profiles \in [OperatorIds -> OperatorProfile]

\* What a step may do to the record and to the windows of one operator.
Improved(old, new) ==
    /\ new.reputation_score >= old.reputation_score
    /\ new.failed_notional = old.failed_notional
    /\ \E x \in Nat : new.settled_notional = old.settled_notional + x
Worsened(old, new) ==
    /\ new.reputation_score <= old.reputation_score
    /\ new.settled_notional = old.settled_notional
    /\ \E x \in Nat : new.failed_notional = old.failed_notional + x
WindowsKept(old, new) ==
    \A i \in DOMAIN old.service_windows : \E j \in DOMAIN new.service_windows :
        new.service_windows[j] = old.service_windows[i]
Lawful(old, new) ==
    new \in OperatorProfile /\ WindowsKept(old, new) /\ (Improved(old, new) \/ Worsened(old, new))

LEMMA WindowAdded ==
    ASSUME NEW old \in OperatorProfile, NEW w \in ServiceWindow, NEW new,
           new = [old EXCEPT !.service_windows =
                    InsertBefore(@, {i \in DOMAIN @ : @[i].start > w.start}, w)]
    PROVE  Lawful(old, new)
<1> DEFINE s == old.service_windows
           later == {i \in DOMAIN s : s[i].start > w.start}
           at == Before(s, later)
           t == InsertBefore(s, later, w)
<1>1. s \in Seq(ServiceWindow) /\ later \in SUBSET DOMAIN s  BY DEF OperatorProfile
<1>2. DOMAIN s = 1 .. Len(s) /\ Len(s) \in Nat  BY <1>1, LenProperties
<1>3. new = [old EXCEPT !.service_windows = t]  BY DEF OperatorProfile
<1> HIDE DEF s, later
<1>4. /\ at \in 1 .. Len(s) + 1
      /\ t \in Seq(ServiceWindow) /\ DOMAIN t = 1 .. Len(s) + 1
      /\ \A i \in 1 .. Len(s) + 1 :
           t[i] = IF i < at THEN s[i] ELSE IF i = at THEN w ELSE s[i - 1]
  <2>1. InsertsInPlace(ServiceWindow, s, later, w)  BY <1>1, InsertBeforeIs
  <2> QED  BY <2>1 DEF InsertsInPlace
<1> HIDE DEF at, t
<1>5. ASSUME NEW i \in DOMAIN s PROVE \E j \in DOMAIN t : t[j] = s[i]
  <2>1. CASE i < at
    <3>1. i \in 1 .. Len(s) + 1 /\ t[i] = s[i]  BY <1>2, <1>4, <2>1
    <3> QED  BY <1>4, <3>1
  <2>2. CASE ~(i < at)
    <3>1. i + 1 \in 1 .. Len(s) + 1 /\ ~(i + 1 < at) /\ i + 1 # at /\ i + 1 - 1 = i
      BY <1>2, <1>4, <2>2
    <3>2. t[i + 1] = s[i]  BY <1>4, <3>1
    <3> QED  BY <1>4, <3>1, <3>2
  <2> QED  BY <2>1, <2>2
<1>6. new \in OperatorProfile  BY <1>3, <1>4 DEF OperatorProfile
<1>7. /\ new.service_windows = t /\ old.service_windows = s
      /\ new.reputation_score = old.reputation_score
      /\ new.settled_notional = old.settled_notional
      /\ new.failed_notional = old.failed_notional
  BY <1>3 DEF OperatorProfile, s
<1>8. old.reputation_score \in Nat /\ old.settled_notional \in Nat
  BY DEF OperatorProfile
<1>9. Improved(old, new)
  <2>1. old.settled_notional = old.settled_notional + 0  BY <1>8
  <2> QED  BY <1>7, <1>8, <2>1 DEF Improved
<1>10. WindowsKept(old, new)
  <2>1. \A i \in DOMAIN s : \E j \in DOMAIN t : t[j] = s[i]  BY <1>5
  <2>2. /\ DOMAIN new.service_windows = DOMAIN t /\ DOMAIN old.service_windows = DOMAIN s
        /\ \A j : new.service_windows[j] = t[j] /\ old.service_windows[j] = s[j]
    BY <1>7
  <2> QED  BY <2>1, <2>2 DEF WindowsKept
<1> QED  BY <1>6, <1>9, <1>10 DEF Lawful

LEMMA RegistryMoves ==
    ASSUME ProfilesInv, OperatorsNext
    PROVE  /\ ProfilesInv'
           /\ \A o \in OperatorIds : Registered(o) => Lawful(profiles[o], profiles'[o])
<1> USE OperatorsAssumption, AmountsAssumption
<1> DEFINE Kept(o, new) == new \in OperatorProfile /\ (Registered(o) => Lawful(profiles[o], new))
<1>1. ASSUME NEW o \in OperatorIds PROVE Lawful(profiles[o], profiles[o])
  <2>1. profiles[o] \in OperatorProfile  BY DEF ProfilesInv
  <2>2. profiles[o].settled_notional \in Nat /\ profiles[o].reputation_score \in Nat
    BY <2>1 DEF OperatorProfile
  <2>3. profiles[o].settled_notional = profiles[o].settled_notional + 0  BY <2>2
  <2> QED  BY <2>1, <2>2, <2>3 DEF Lawful, WindowsKept, Improved
<1>2. ASSUME NEW o \in OperatorIds, NEW new, Kept(o, new),
             profiles' = [profiles EXCEPT ![o] = new]
      PROVE  /\ ProfilesInv'
             /\ \A q \in OperatorIds : Registered(q) => Lawful(profiles[q], profiles'[q])
  <2>1. profiles'[o] = new /\ \A q \in OperatorIds : q # o => profiles'[q] = profiles[q]
    BY <1>2 DEF ProfilesInv
  <2> QED  BY <1>1, <1>2, <2>1 DEF ProfilesInv
<1>3. PICK o \in OperatorIds :
        \/ \E c \in Controllers : InsertOperator(o, c)
        \/ /\ Registered(o)
           /\ \/ \E permission \in Permissions : Grant(o, permission) \/ Revoke(o, permission)
              \/ \E active \in BOOLEAN : SetActive(o, active)
              \/ \E w \in ServiceWindows : AddWindow(o, w)
              \/ \E x \in Notionals : RecordSuccess(o, x) \/ RecordFailure(o, x)
  BY DEF OperatorsNext
<1> DEFINE old == profiles[o]
<1>4. /\ old \in OperatorProfile
      /\ old.reputation_score \in 0 .. ScoreCap
      /\ old.settled_notional \in Nat /\ old.failed_notional \in Nat
  BY DEF ProfilesInv, OperatorProfile
<1>5. CASE \E c \in Controllers : InsertOperator(o, c)
  <2>1. PICK c \in Controllers : InsertOperator(o, c)  BY <1>5
  <2>2. NewProfile(c) \in OperatorProfile
    BY DEF NewProfile, OperatorProfile
  <2> QED  BY <1>2, <2>1, <2>2 DEF InsertOperator
<1>6. ASSUME NEW permission \in Permissions, Grant(o, permission) \/ Revoke(o, permission)
      PROVE  \E ps \in SUBSET (DefaultPermissions \cup Permissions) :
                profiles' = [profiles EXCEPT ![o] = [old EXCEPT !.permissions = ps]]
  <2>1. old.permissions \subseteq DefaultPermissions \cup Permissions
    BY <1>4 DEF OperatorProfile
  <2>2. CASE Grant(o, permission)
    <3>1. profiles' = [profiles EXCEPT ![o] =
                         [old EXCEPT !.permissions = old.permissions \cup {permission}]]
      BY <1>4, <2>2 DEF Grant, ProfilesInv, OperatorProfile
    <3> QED  BY <2>1, <3>1
  <2>3. CASE Revoke(o, permission)
    <3>1. profiles' = [profiles EXCEPT ![o] =
                         [old EXCEPT !.permissions = old.permissions \ {permission}]]
      BY <1>4, <2>3 DEF Revoke, ProfilesInv, OperatorProfile
    <3> QED  BY <2>1, <3>1
  <2> QED  BY <1>6, <2>2, <2>3
<1>7. ASSUME NEW ps \in SUBSET (DefaultPermissions \cup Permissions),
             profiles' = [profiles EXCEPT ![o] = [old EXCEPT !.permissions = ps]]
      PROVE  Kept(o, [old EXCEPT !.permissions = ps])
  BY <1>1, <1>4 DEF Lawful, WindowsKept, Improved, Worsened, OperatorProfile
<1>8. ASSUME NEW active \in BOOLEAN, SetActive(o, active)
      PROVE  Kept(o, [old EXCEPT !.active = active])
  BY <1>1, <1>4 DEF Lawful, WindowsKept, Improved, Worsened, OperatorProfile
<1>9. ASSUME NEW x \in Notionals, RecordSuccess(o, x)
      PROVE  \E new : Kept(o, new) /\ profiles' = [profiles EXCEPT ![o] = new]
  <2> DEFINE sc == IF old.reputation_score + ScoreGain > ScoreCap THEN ScoreCap
                   ELSE old.reputation_score + ScoreGain
             new == [old EXCEPT !.settled_notional = old.settled_notional + x,
                                !.reputation_score = sc]
  <2>1. x \in Nat  BY AmountIffFits
  <2>2. sc \in 0 .. ScoreCap /\ sc >= old.reputation_score  BY <1>4
  <2>3. profiles' = [profiles EXCEPT ![o] = new]
    BY <1>4, <1>9 DEF RecordSuccess, ProfilesInv, OperatorProfile
  <2> HIDE DEF sc
  <2>4. new \in OperatorProfile
    <3>1. old.settled_notional + x \in Nat  BY <1>4, <2>1
    <3> HIDE DEF old
    <3> QED  BY <1>4, <2>2, <3>1 DEF OperatorProfile
  <2>5. Improved(old, new)  BY <1>4, <2>1, <2>2 DEF Improved, OperatorProfile
  <2>6. WindowsKept(old, new)  BY <1>4 DEF WindowsKept, OperatorProfile
  <2> QED  BY <2>3, <2>4, <2>5, <2>6 DEF Lawful
<1>10. ASSUME NEW x \in Notionals, RecordFailure(o, x)
       PROVE  \E new : Kept(o, new) /\ profiles' = [profiles EXCEPT ![o] = new]
  <2> DEFINE sc == SaturatingSub(old.reputation_score, ScoreLoss)
             new == [old EXCEPT !.failed_notional = old.failed_notional + x,
                                !.reputation_score = sc]
  <2>1. x \in Nat  BY AmountIffFits
  <2>2. sc \in 0 .. ScoreCap /\ sc <= old.reputation_score
    <3>1. old.reputation_score \in Nat /\ ScoreLoss \in Nat  BY <1>4
    <3>2. sc \in Nat /\ sc <= old.reputation_score
      <4> HIDE DEF old
      <4> QED  BY <3>1, SaturatingSubNat
    <3> HIDE DEF sc
    <3> QED  BY <1>4, <3>2
  <2>3. profiles' = [profiles EXCEPT ![o] = new]
    BY <1>4, <1>10 DEF RecordFailure, ProfilesInv, OperatorProfile
  <2> HIDE DEF sc
  <2>4. new \in OperatorProfile
    <3>1. old.failed_notional + x \in Nat  BY <1>4, <2>1
    <3> HIDE DEF old
    <3> QED  BY <1>4, <2>2, <3>1 DEF OperatorProfile
  <2>5. Worsened(old, new)  BY <1>4, <2>1, <2>2 DEF Worsened, OperatorProfile
  <2>6. WindowsKept(old, new)  BY <1>4 DEF WindowsKept, OperatorProfile
  <2> QED  BY <2>3, <2>4, <2>5, <2>6 DEF Lawful
<1>11. ASSUME NEW w \in ServiceWindows, AddWindow(o, w)
       PROVE  \E new : Kept(o, new) /\ profiles' = [profiles EXCEPT ![o] = new]
  <2> DEFINE new == [old EXCEPT !.service_windows =
                       InsertBefore(@, {i \in DOMAIN @ : @[i].start > w.start}, w)]
  <2>1. profiles' = [profiles EXCEPT ![o] = new]
    BY <1>4, <1>11 DEF AddWindow, ProfilesInv, OperatorProfile
  <2>2. Lawful(old, new)
    <3>1. w \in ServiceWindow  OBVIOUS
    <3> HIDE DEF old
    <3> QED  BY <1>4, <3>1, WindowAdded
  <2> QED  BY <2>1, <2>2 DEF Lawful
<1>12. ASSUME NEW active \in BOOLEAN, SetActive(o, active)
       PROVE  profiles' = [profiles EXCEPT ![o] = [old EXCEPT !.active = active]]
  BY <1>4, <1>12 DEF SetActive, ProfilesInv, OperatorProfile
<1> HIDE DEF Kept
<1> QED  BY <1>2, <1>3, <1>5, <1>6, <1>7, <1>8, <1>9, <1>10, <1>11, <1>12

LEMMA ProfilesAlways == DeskSpec => []ProfilesInv
<1>1. DeskInit => ProfilesInv
  <2>1. 0 \in Nat /\ ScoreStart \in 0 .. ScoreCap  BY OperatorsAssumption
  <2>2. NewProfile("none") \in OperatorProfile
    BY <2>1 DEF NewProfile, OperatorProfile
  <2> QED  BY <2>2 DEF DeskInit, OperatorsInit, ProfilesInv
<1>2. ProfilesInv /\ [DeskNext]_deskVars => ProfilesInv'
  <2> SUFFICES ASSUME ProfilesInv, [DeskNext]_deskVars PROVE ProfilesInv'
    OBVIOUS
  <2>1. CASE OperatorsNext  BY <2>1, RegistryMoves
  <2>2. CASE UNCHANGED operatorsVars  BY <2>2 DEF operatorsVars, ProfilesInv
  <2> QED  BY <2>1, <2>2, DeskMoves
<1> QED  BY <1>1, <1>2, PTL DEF DeskSpec

\* RegistryHonest: the score and the failure ratio of an operator never move
\* against each other (Improved steps lower the ratio, Worsened steps raise
\* it, whatever is rounded or capped), and no window is lost.
THEOREM RecordsHonest == DeskSpec => RegistryHonest
<1> DEFINE Honest(o) ==
      /\ RatioFits(o) /\ RatioFits(o)' =>
           /\ profiles'[o].reputation_score > profiles[o].reputation_score =>
                FailureRatio(o)' <= FailureRatio(o)
           /\ profiles'[o].reputation_score < profiles[o].reputation_score =>
                FailureRatio(o)' >= FailureRatio(o)
      /\ \A permission \in Permissions, pool \in {w.pool : w \in ServiceWindows},
            e \in GenesisEpoch .. LastEpoch, x \in Notionals :
           CanService(o, permission, pool, e, x) =>
              \/ CanService(o, permission, pool, e, x)'
              \/ permission \notin profiles'[o].permissions \/ ~profiles'[o].active
<1>1. ASSUME ProfilesInv, OperatorsNext, NEW o \in OperatorIds, Registered(o)
      PROVE  Honest(o)
  <2> DEFINE old == profiles[o]
             new == profiles'[o]
  <2>1. Lawful(old, new) /\ old \in OperatorProfile /\ new \in OperatorProfile
    BY <1>1, RegistryMoves DEF ProfilesInv, Lawful
  <2>2. /\ old.reputation_score \in Nat /\ new.reputation_score \in Nat
        /\ old.settled_notional \in Nat /\ old.failed_notional \in Nat
        /\ new.settled_notional \in Nat /\ new.failed_notional \in Nat
    <3> HIDE DEF old, new
    <3>1. ScoreCap \in Nat  BY OperatorsAssumption
    <3> QED  BY <2>1, <3>1 DEF OperatorProfile
  <2>3. /\ FailureRatio(o) = Ratio(old.settled_notional, old.failed_notional)
        /\ FailureRatio(o)' = Ratio(new.settled_notional, new.failed_notional)
    BY DEF FailureRatio, Total, Ratio
  <2>4. ASSUME NEW s \in Nat, NEW f \in Nat PROVE Ratio(s, f) \in Nat
    <3>1. f * BPS_DENOMINATOR \in Nat  BY TimesNat, AmountsAssumption
    <3> QED  BY <3>1, DivNat DEF Ratio
  <2> DEFINE was == Ratio(old.settled_notional, old.failed_notional)
             is  == Ratio(new.settled_notional, new.failed_notional)
  <2>5. Improved(old, new) =>
          is <= was /\ ~(new.reputation_score < old.reputation_score)
    <3> HIDE DEF old, new
    <3> QED  BY <2>2, SuccessLowers DEF Improved
  <2>6. Worsened(old, new) =>
          is >= was /\ ~(new.reputation_score > old.reputation_score)
    <3> SUFFICES ASSUME Worsened(old, new)
                 PROVE  is >= was /\ ~(new.reputation_score > old.reputation_score)
      OBVIOUS
    <3> HIDE DEF old, new
    <3>1. PICK x \in Nat : new.failed_notional = old.failed_notional + x
      BY DEF Worsened
    <3>2. /\ new.settled_notional = old.settled_notional
          /\ new.reputation_score <= old.reputation_score
      BY DEF Worsened
    <3>3. was <= Ratio(old.settled_notional, old.failed_notional + x)
      BY <2>2, FailureRaises
    <3>4. was <= is  BY <3>1, <3>2, <3>3
    <3>5. was \in Nat /\ is \in Nat  BY <2>2, <2>4
    <3> QED  BY <2>2, <3>2, <3>4, <3>5
  <2>7. /\ new.reputation_score > old.reputation_score => is <= was
        /\ new.reputation_score < old.reputation_score => is >= was
    <3> HIDE DEF old, new, is, was
    <3> QED  BY <2>1, <2>5, <2>6 DEF Lawful
  <2>8. ASSUME NEW permission, NEW pool, NEW e, NEW x,
               CanService(o, permission, pool, e, x),
               permission \in new.permissions, new.active
        PROVE  CanService(o, permission, pool, e, x)'
    <3>1. PICK i \in DOMAIN old.service_windows :
            LET w == old.service_windows[i]
            IN  w.pool = pool /\ e \in w.start .. w.end /\ x <= w.max_notional
      BY <2>8 DEF CanService
    <3>2. PICK j \in DOMAIN new.service_windows :
            new.service_windows[j] = old.service_windows[i]
      BY <2>1 DEF Lawful, WindowsKept
    <3> QED  BY <2>8, <3>1, <3>2 DEF CanService
  <2> QED  BY <2>3, <2>7, <2>8
<1>2. ProfilesInv /\ [DeskNext]_deskVars
        => [\A o \in OperatorIds : Registered(o) => Honest(o)]_operatorsVars
  <2>1. [DeskNext]_deskVars => OperatorsNext \/ UNCHANGED operatorsVars
    BY DeskMoves
  <2> HIDE DEF Honest
  <2> QED  BY <1>1, <2>1
<1>3. RegistryHonest <=> [][\A o \in OperatorIds : Registered(o) => Honest(o)]_operatorsVars
  BY DEF RegistryHonest
<1> HIDE DEF Honest
<1> QED  BY <1>2, <1>3, ProfilesAlways, PTL DEF DeskSpec

---------------------------------------------------------------------------
\* Prices

FeedPrice == [epoch : Nat, price : Nat]
Publication == [symbol : Symbols, epoch : Nat, price : Nat]

(***************************************************************************)
(* A feed holds the publications for its asset, each once, ordered so that *)
(* every one supersedes those before it.  `at` says which publication is   *)
(* where: prices of one epoch may be equal, and cannot be told apart       *)
(* without it.                                                             *)
(***************************************************************************)
FeedHolds(s, at) ==
    /\ at \in Seq(Nat) /\ Len(at) = Len(feeds[s])
    /\ \A i \in 1 .. Len(at) :
         /\ at[i] \in DOMAIN published /\ published[at[i]].symbol = s
         /\ published[at[i]].epoch = feeds[s][i].epoch
         /\ published[at[i]].price = feeds[s][i].price
    /\ \A k \in DOMAIN published :
         published[k].symbol = s => \E i \in 1 .. Len(at) : at[i] = k
    /\ \A i, j \in 1 .. Len(at) : i < j => Supersedes(at[j], at[i])
FeedsInv ==
    /\ feeds \in [Symbols -> Seq(FeedPrice)] /\ published \in Seq(Publication)
    /\ bands \in [Symbols -> [lower : Nat, upper : Nat, staleness : Nat]]
    /\ \A s \in Symbols : \E at \in Seq(Nat) : FeedHolds(s, at)

LEMMA FeedTyped ==
    ASSUME FeedsInv
    PROVE  /\ \A s \in Symbols :
                /\ Len(feeds[s]) \in Nat /\ DOMAIN feeds[s] = 1 .. Len(feeds[s])
                /\ \A i \in DOMAIN feeds[s] : feeds[s][i] \in FeedPrice
           /\ Len(published) \in Nat /\ DOMAIN published = 1 .. Len(published)
           /\ \A k \in DOMAIN published : published[k] \in Publication
<1>1. ASSUME NEW s \in Symbols
      PROVE  /\ Len(feeds[s]) \in Nat /\ DOMAIN feeds[s] = 1 .. Len(feeds[s])
             /\ \A i \in DOMAIN feeds[s] : feeds[s][i] \in FeedPrice
  <2>1. feeds[s] \in Seq(FeedPrice)  BY DEF FeedsInv
  <2> QED  BY <2>1, ElementOfSeq, LenProperties
<1>2. published \in Seq(Publication)  BY DEF FeedsInv
<1>3. /\ Len(published) \in Nat /\ DOMAIN published = 1 .. Len(published)
      /\ \A k \in DOMAIN published : published[k] \in Publication
  BY <1>2, ElementOfSeq, LenProperties
<1> QED  BY <1>1, <1>3

\* A feed is ordered by epoch.
LEMMA FeedOrdered ==
    ASSUME FeedsInv, NEW s \in Symbols, NEW i \in DOMAIN feeds[s],
           NEW j \in DOMAIN feeds[s], i <= j
    PROVE  feeds[s][i].epoch <= feeds[s][j].epoch
<1>1. /\ Len(feeds[s]) \in Nat /\ DOMAIN feeds[s] = 1 .. Len(feeds[s])
      /\ feeds[s][i].epoch \in Nat /\ feeds[s][j].epoch \in Nat
  BY FeedTyped DEF FeedPrice
<1>2. CASE i = j  BY <1>1, <1>2
<1>3. CASE i < j
  <2>1. PICK at \in Seq(Nat) : FeedHolds(s, at)  BY DEF FeedsInv
  <2>2. Supersedes(at[j], at[i])  BY <1>1, <1>3, <2>1 DEF FeedHolds
  <2>3. /\ published[at[i]].epoch = feeds[s][i].epoch
        /\ published[at[j]].epoch = feeds[s][j].epoch
    BY <1>1, <2>1 DEF FeedHolds
  <2> QED  BY <1>1, <2>2, <2>3 DEF Supersedes
<1> QED  BY <1>1, <1>2, <1>3

LEMMA GreatestChosen ==
    ASSUME NEW T \in SUBSET Nat, NEW g \in T, \A j \in T : j <= g
    PROVE  (CHOOSE i \in T : \A j \in T : j <= i) = g
<1> DEFINE P(i) == i \in T /\ \A j \in T : j <= i
<1>1. P(g)  OBVIOUS
<1>2. P(CHOOSE i \in T : \A j \in T : j <= i)  BY <1>1
<1>3. ASSUME NEW h, P(h) PROVE h = g
  <2>1. h \in Nat /\ g \in Nat /\ h <= g /\ g <= h  BY <1>3
  <2> QED  BY <2>1
<1> QED  BY <1>2, <1>3

LEMMA PublishKeeps ==
    ASSUME FeedsInv, NEW s \in Symbols, NEW price \in Nat, NEW e \in Nat,
           feeds' = [feeds EXCEPT ![s] = Sorted(@, [epoch |-> e, price |-> price])],
           published' = Append(published, [symbol |-> s, epoch |-> e, price |-> price]),
           UNCHANGED bands
    PROVE  FeedsInv'
<1> DEFINE entry == [epoch |-> e, price |-> price]
           feed == feeds[s]
           later == {i \in DOMAIN feed : feed[i].epoch > entry.epoch}
           p == Before(feed, later)
           t == InsertBefore(feed, later, entry)
<1>0. PICK n : n \in Nat /\ n = Len(published) + 1  BY FeedTyped
<1>1. /\ feed \in Seq(FeedPrice) /\ entry \in FeedPrice /\ later \in SUBSET DOMAIN feed
      /\ entry.epoch = e
  BY DEF FeedsInv, FeedPrice
<1>2. /\ Len(feed) \in Nat /\ DOMAIN feed = 1 .. Len(feed)
      /\ \A i \in DOMAIN feed : feed[i].epoch \in Nat /\ feed[i].price \in Nat
  BY FeedTyped DEF FeedPrice
<1>3. /\ feeds' \in [Symbols -> Seq(FeedPrice)] => feeds'[s] = t
      /\ feeds' = [feeds EXCEPT ![s] = t]
      /\ \A q \in Symbols : q # s => feeds'[q] = feeds[q]
      /\ feeds'[s] = t
  BY DEF FeedsInv, Sorted
<1>4. \A i \in DOMAIN feed : i \in later <=> feed[i].epoch > e  OBVIOUS
<1> HIDE DEF later, entry, feed
<1>5. /\ p \in 1 .. Len(feed) + 1 /\ p \in later \cup {Len(feed) + 1}
      /\ \A i \in later : p <= i
      /\ t \in Seq(FeedPrice) /\ Len(t) = Len(feed) + 1 /\ DOMAIN t = 1 .. Len(feed) + 1
      /\ \A i \in 1 .. Len(feed) + 1 :
           t[i] = IF i < p THEN feed[i] ELSE IF i = p THEN entry ELSE feed[i - 1]
  <2>1. InsertsInPlace(FeedPrice, feed, later, entry)  BY <1>1, InsertBeforeIs
  <2> QED  BY <2>1 DEF InsertsInPlace
<1>6. /\ Len(published) \in Nat /\ DOMAIN published = 1 .. Len(published)
      /\ \A k \in DOMAIN published :
           published[k].epoch \in Nat /\ published[k].price \in Nat
  BY FeedTyped DEF Publication
<1>7. /\ published' \in Seq(Publication) /\ DOMAIN published' = 1 .. n
      /\ \A k \in DOMAIN published : published'[k] = published[k]
      /\ published'[n] = [symbol |-> s, epoch |-> e, price |-> price]
  <2>1. [symbol |-> s, epoch |-> e, price |-> price] \in Publication  BY DEF Publication
  <2>2. published \in Seq(Publication)  BY DEF FeedsInv
  <2>3. /\ published' \in Seq(Publication) /\ Len(published') = n
        /\ \A k \in 1 .. Len(published) : published'[k] = published[k]
        /\ published'[n] = [symbol |-> s, epoch |-> e, price |-> price]
    BY <1>0, <2>1, <2>2, AppendProperties
  <2> QED  BY <1>6, <2>3, LenProperties
<1>8. n \in Nat /\ n \in DOMAIN published' /\ n \notin DOMAIN published
      /\ \A k \in DOMAIN published' : k = n \/ k \in DOMAIN published
  BY <1>0, <1>6, <1>7
<1> HIDE DEF p, t
<1>9. ASSUME NEW k \in DOMAIN published, NEW l \in DOMAIN published, Supersedes(k, l)
      PROVE  Supersedes(k, l)'
  BY <1>7, <1>9 DEF Supersedes
<1>10. \E at \in Seq(Nat) : FeedHolds(s, at)'
  <2>1. PICK old \in Seq(Nat) : FeedHolds(s, old)  BY DEF FeedsInv
  <2>0. PICK at : at = InsertBefore(old, later, n)  OBVIOUS
  <2>2. Len(old) = Len(feed) /\ DOMAIN old = 1 .. Len(feed)
    BY <2>1, LenProperties DEF FeedHolds, feed
  <2>3. Before(old, later) = p  BY <2>2 DEF p, Before
  <2>4. /\ at \in Seq(Nat) /\ Len(at) = Len(feed) + 1
        /\ \A i \in 1 .. Len(feed) + 1 :
             at[i] = IF i < p THEN old[i] ELSE IF i = p THEN n ELSE old[i - 1]
    <3>1. later \in SUBSET DOMAIN old  BY <1>1, <1>2, <2>2
    <3>2. InsertsInPlace(Nat, old, later, n)  BY <1>0, <3>1, InsertBeforeIs
    <3> QED  BY <2>0, <2>2, <2>3, <3>2 DEF InsertsInPlace
  <2>5. \A i \in 1 .. Len(feed) + 1 :
          \/ i = p /\ at[i] = n /\ t[i] = entry
          \/ i < p /\ i \in 1 .. Len(feed) /\ at[i] = old[i] /\ t[i] = feed[i]
          \/ i > p /\ i - 1 \in 1 .. Len(feed) /\ p <= i - 1
             /\ at[i] = old[i - 1] /\ t[i] = feed[i - 1]
    BY <1>2, <1>5, <2>4
  <2>6. \A i \in 1 .. Len(feed) :
          /\ old[i] \in DOMAIN published /\ published[old[i]].symbol = s
          /\ published[old[i]].epoch = feed[i].epoch
          /\ published[old[i]].price = feed[i].price
    BY <2>1, <2>2 DEF FeedHolds, feed
  <2>7. ASSUME NEW i \in 1 .. Len(feed) + 1
        PROVE  /\ at[i] \in DOMAIN published' /\ published'[at[i]].symbol = s
               /\ published'[at[i]].epoch = t[i].epoch
               /\ published'[at[i]].price = t[i].price
    <3>1. CASE i = p /\ at[i] = n /\ t[i] = entry
      BY <1>7, <1>8, <3>1 DEF entry
    <3>2. ASSUME NEW j \in 1 .. Len(feed), at[i] = old[j], t[i] = feed[j]
          PROVE  /\ at[i] \in DOMAIN published' /\ published'[at[i]].symbol = s
                 /\ published'[at[i]].epoch = t[i].epoch
                 /\ published'[at[i]].price = t[i].price
      <4>1. old[j] \in DOMAIN published'  BY <1>0, <1>6, <1>7, <2>6
      <4> QED  BY <1>7, <2>6, <3>2, <4>1
    <3> QED  BY <2>5, <3>1, <3>2
  <2>8. ASSUME NEW k \in DOMAIN published', published'[k].symbol = s
        PROVE  \E i \in 1 .. Len(feed) + 1 : at[i] = k
    <3>1. CASE k = n
      <4>1. p \in 1 .. Len(feed) + 1 /\ ~(p < p)  BY <1>2, <1>5
      <4> QED  BY <2>4, <3>1, <4>1
    <3>2. CASE k \in DOMAIN published
      <4>1. PICK i \in 1 .. Len(feed) : old[i] = k
        BY <1>7, <2>1, <2>2, <2>8, <3>2 DEF FeedHolds
      <4>2. CASE i < p
        <5>1. i \in 1 .. Len(feed) + 1 /\ at[i] = old[i]  BY <1>2, <2>4, <4>2
        <5> QED  BY <4>1, <5>1
      <4>3. CASE ~(i < p)
        <5>1. i + 1 \in 1 .. Len(feed) + 1 /\ ~(i + 1 < p) /\ i + 1 # p /\ i + 1 - 1 = i
          BY <1>2, <1>5, <4>3
        <5>2. at[i + 1] = old[i + 1 - 1]  BY <2>4, <5>1
        <5> QED  BY <4>1, <5>1, <5>2
      <4> QED  BY <4>2, <4>3
    <3> QED  BY <1>8, <3>1, <3>2
  <2>9. \A i, j \in 1 .. Len(feed) : i < j => Supersedes(old[j], old[i])'
    <3>1. \A i, j \in 1 .. Len(feed) : i < j => Supersedes(old[j], old[i])
      BY <2>1, <2>2 DEF FeedHolds
    <3> QED  BY <1>9, <2>6, <3>1
  <2>10. ASSUME NEW i \in 1 .. Len(feed), i < p
         PROVE  Supersedes(n, old[i])'
    <3>1. i \notin later
      <4>1. i \in Nat /\ p \in Nat  BY <1>2, <1>5
      <4> QED  BY <1>5, <2>10, <4>1
    <3>2. feed[i].epoch <= e
      <4>1. i \in DOMAIN feed /\ feed[i].epoch \in Nat  BY <1>2
      <4>2. ~(feed[i].epoch > e)  BY <1>4, <3>1, <4>1
      <4> QED  BY <4>1, <4>2
    <3>3. old[i] \in Nat /\ old[i] < n  BY <1>0, <1>6, <2>6
    <3>4. published'[n].epoch = e /\ published'[old[i]].epoch = feed[i].epoch
      BY <1>0, <1>7, <2>6
    <3>5. feed[i].epoch \in Nat /\ (feed[i].epoch < e \/ feed[i].epoch = e)
      BY <1>2, <3>2
    <3> QED  BY <3>3, <3>4, <3>5 DEF Supersedes
  <2>11. ASSUME NEW i \in 1 .. Len(feed), p <= i
         PROVE  Supersedes(old[i], n)'
    <3>1. p \in 1 .. Len(feed) /\ p \in later  BY <1>2, <1>5, <2>11
    <3>2. feed[p].epoch \in Nat /\ e < feed[p].epoch
      <4>1. feed[p].epoch > e  BY <1>2, <1>4, <3>1
      <4> QED  BY <1>2, <3>1, <4>1
    <3>3. feed[p].epoch <= feed[i].epoch
      BY <1>2, <2>11, <3>1, FeedOrdered DEF feed
    <3>4. published'[n].epoch = e /\ published'[old[i]].epoch = feed[i].epoch
      BY <1>0, <1>7, <2>6
    <3>5. feed[i].epoch \in Nat /\ e < feed[i].epoch
      <4>1. feed[i].epoch \in Nat  BY <1>2
      <4> QED  BY <3>2, <3>3, <4>1
    <3> QED  BY <3>4, <3>5 DEF Supersedes
  <2>12. ASSUME NEW i \in 1 .. Len(feed) + 1, NEW j \in 1 .. Len(feed) + 1, i < j
         PROVE  Supersedes(at[j], at[i])'
    <3>1. i \in Nat /\ j \in Nat /\ p \in Nat  BY <1>2, <1>5
    <3>2. CASE j < p
      <4>1. /\ i \in 1 .. Len(feed) /\ j \in 1 .. Len(feed)
            /\ at[i] = old[i] /\ at[j] = old[j]
        BY <2>5, <2>12, <3>1, <3>2
      <4> QED  BY <2>9, <2>12, <4>1
    <3>3. CASE j = p
      <4>1. i \in 1 .. Len(feed) /\ i < p /\ at[i] = old[i] /\ at[j] = n
        BY <2>5, <2>12, <3>1, <3>3
      <4> QED  BY <2>10, <4>1
    <3>4. CASE j > p /\ i < p
      <4>1. /\ i \in 1 .. Len(feed) /\ j - 1 \in 1 .. Len(feed)
            /\ at[i] = old[i] /\ at[j] = old[j - 1] /\ i < j - 1
        BY <2>5, <2>12, <3>1, <3>4
      <4> QED  BY <2>9, <4>1
    <3>5. CASE j > p /\ i = p
      <4>1. j - 1 \in 1 .. Len(feed) /\ p <= j - 1 /\ at[i] = n /\ at[j] = old[j - 1]
        BY <2>5, <2>12, <3>1, <3>5
      <4> QED  BY <2>11, <4>1
    <3>6. CASE j > p /\ i > p
      <4>1. /\ i - 1 \in 1 .. Len(feed) /\ j - 1 \in 1 .. Len(feed)
            /\ at[i] = old[i - 1] /\ at[j] = old[j - 1] /\ i - 1 < j - 1
        BY <2>5, <2>12, <3>1, <3>6
      <4> QED  BY <2>9, <4>1
    <3> QED  BY <2>12, <3>1, <3>2, <3>3, <3>4, <3>5, <3>6
  <2>13. Len(feeds'[s]) = Len(feed) + 1 /\ feeds'[s] = t  BY <1>3, <1>5
  <2>14. at \in Seq(Nat) /\ Len(at) = Len(feeds'[s])  BY <2>4, <2>13
  <2>15. /\ \A i \in 1 .. Len(at) :
               /\ at[i] \in DOMAIN published' /\ published'[at[i]].symbol = s
               /\ published'[at[i]].epoch = feeds'[s][i].epoch
               /\ published'[at[i]].price = feeds'[s][i].price
         /\ \A k \in DOMAIN published' :
               published'[k].symbol = s => \E i \in 1 .. Len(at) : at[i] = k
         /\ \A i, j \in 1 .. Len(at) : i < j => Supersedes(at[j], at[i])'
    BY <2>4, <2>7, <2>8, <2>12, <2>13
  <2>16. FeedHolds(s, at)'  BY <2>14, <2>15 DEF FeedHolds
  <2> QED  BY <2>4, <2>16
<1>11. ASSUME NEW q \in Symbols, q # s
       PROVE  \E at \in Seq(Nat) : FeedHolds(q, at)'
  <2>1. PICK at \in Seq(Nat) : FeedHolds(q, at)  BY DEF FeedsInv
  <2>2. feeds'[q] = feeds[q]  BY <1>3, <1>11
  <2>3. \A i \in 1 .. Len(at) : at[i] \in DOMAIN published  BY <2>1 DEF FeedHolds
  <2>4. \A i \in 1 .. Len(at) :
          /\ at[i] \in DOMAIN published' /\ published'[at[i]].symbol = q
          /\ published'[at[i]].epoch = feeds'[q][i].epoch
          /\ published'[at[i]].price = feeds'[q][i].price
    BY <1>6, <1>7, <2>1, <2>2, <2>3, <1>0 DEF FeedHolds
  <2>5. \A k \in DOMAIN published' :
          published'[k].symbol = q => \E i \in 1 .. Len(at) : at[i] = k
    BY <1>7, <1>8, <1>11, <2>1 DEF FeedHolds
  <2>6. \A i, j \in 1 .. Len(at) : i < j => Supersedes(at[j], at[i])'
    BY <1>9, <2>1, <2>3 DEF FeedHolds
  <2>7. Len(at) = Len(feeds'[q])  BY <2>1, <2>2 DEF FeedHolds
  <2> QED  BY <2>4, <2>5, <2>6, <2>7 DEF FeedHolds
<1>12. feeds' \in [Symbols -> Seq(FeedPrice)]  BY <1>3, <1>5 DEF FeedsInv
<1> QED  BY <1>7, <1>10, <1>11, <1>12 DEF FeedsInv

LEMMA FeedStays ==
    ASSUME UNCHANGED <<feeds, published>>, NEW s, NEW at, FeedHolds(s, at)
    PROVE  FeedHolds(s, at)'
<1>1. feeds' = feeds /\ published' = published  OBVIOUS
<1>2. \A k, l : Supersedes(k, l) => Supersedes(k, l)'  BY <1>1 DEF Supersedes
<1> QED  BY <1>1, <1>2 DEF FeedHolds

LEMMA FeedsAlways == DeskSpec => []FeedsInv
<1>1. DeskInit => FeedsInv
  <2> SUFFICES ASSUME OracleInit PROVE FeedsInv
    BY DEF DeskInit
  <2>1. /\ feeds = [s \in Symbols |-> << >>] /\ published = << >>
        /\ bands = [s \in Symbols |-> NoBand]
    BY DEF OracleInit
  <2>2. NoBand \in [lower : Nat, upper : Nat, staleness : Nat]  BY DEF NoBand
  <2>3. ASSUME NEW s \in Symbols PROVE FeedHolds(s, << >>)
    BY <2>1 DEF FeedHolds
  <2>4. << >> \in Seq(Nat) /\ << >> \in Seq(FeedPrice) /\ << >> \in Seq(Publication)
    OBVIOUS
  <2> QED  BY <2>1, <2>2, <2>3, <2>4 DEF FeedsInv
<1>2. FeedsInv /\ [DeskNext]_deskVars => FeedsInv'
  <2> SUFFICES ASSUME FeedsInv, [DeskNext]_deskVars PROVE FeedsInv'
    OBVIOUS
  <2>1. ASSUME NEW s \in Symbols, NEW band \in Bands, SetBand(s, band)
        PROVE  FeedsInv'
    <3>1. UNCHANGED <<feeds, published>> /\ bands' = [bands EXCEPT ![s] = band]
      BY <2>1 DEF SetBand
    <3>2. band \in [lower : Nat, upper : Nat, staleness : Nat]  BY OracleAssumption
    <3>3. bands' \in [Symbols -> [lower : Nat, upper : Nat, staleness : Nat]]
      BY <3>1, <3>2 DEF FeedsInv
    <3>4. \A q, at : FeedHolds(q, at) => FeedHolds(q, at)'  BY <3>1, FeedStays
    <3> QED  BY <3>1, <3>3, <3>4 DEF FeedsInv
  <2>2. ASSUME NEW s \in Symbols, NEW price \in Prices, NEW e \in PriceEpochs,
               Publish(s, price, e)
        PROVE  FeedsInv'
    <3>1. price \in Nat /\ e \in Nat  BY OracleAssumption
    <3> QED  BY <2>2, <3>1, PublishKeeps DEF Publish
  <2>3. CASE UNCHANGED oracleVars
    <3>1. UNCHANGED <<feeds, published>> /\ UNCHANGED bands  BY <2>3 DEF oracleVars
    <3>2. \A q, at : FeedHolds(q, at) => FeedHolds(q, at)'  BY <3>1, FeedStays
    <3> QED  BY <3>1, <3>2 DEF FeedsInv
  <2>4. OracleNext \/ UNCHANGED oracleVars  BY DeskMoves
  <2> QED  BY <2>1, <2>2, <2>3, <2>4 DEF OracleNext
<1> QED  BY <1>1, <1>2, PTL DEF DeskSpec

\* LastPublicationWins: the search backwards over a feed ends at the
\* publication that supersedes all others for the epoch.
THEOREM NewestPriceFound == DeskSpec => []LastPublicationWins
<1>1. ASSUME FeedsInv PROVE LastPublicationWins
  <2> SUFFICES ASSUME NEW s \in Symbols, NEW e \in PriceEpochs
               PROVE  /\ HasPrice(s, e) <=> InForce(s, e) # {}
                      /\ \A k \in InForce(s, e) :
                           (\A j \in InForce(s, e) : j = k \/ Supersedes(k, j)) =>
                              /\ AtOrBefore(s, e) = published[k].price
                              /\ (\A q \in DOMAIN published :
                                     published[q].symbol = s => published[q].epoch <= e)
                                   => Latest(s) = AtOrBefore(s, e)
    BY DEF LastPublicationWins
  <2>1. PICK at \in Seq(Nat) : FeedHolds(s, at)  BY <1>1 DEF FeedsInv
  <2>2. /\ Len(feeds[s]) \in Nat /\ DOMAIN feeds[s] = 1 .. Len(feeds[s])
        /\ \A i \in DOMAIN feeds[s] : feeds[s][i].epoch \in Nat
        /\ \A k \in DOMAIN published : k \in Nat /\ published[k].epoch \in Nat
    BY <1>1, FeedTyped DEF FeedPrice, Publication
  <2>3. /\ \A i \in DOMAIN feeds[s] :
             /\ at[i] \in DOMAIN published /\ published[at[i]].symbol = s
             /\ published[at[i]].epoch = feeds[s][i].epoch
             /\ published[at[i]].price = feeds[s][i].price
        /\ \A k \in DOMAIN published :
             published[k].symbol = s => \E i \in DOMAIN feeds[s] : at[i] = k
        /\ \A i, j \in DOMAIN feeds[s] : i < j => Supersedes(at[j], at[i])
    BY <2>1, <2>2 DEF FeedHolds
  <2>4. \A i \in DOMAIN feeds[s] : i \in UpTo(s, e) <=> at[i] \in InForce(s, e)
    BY <2>3 DEF UpTo, InForce
  <2>5. \A k \in InForce(s, e) : \E i \in UpTo(s, e) : at[i] = k
    BY <2>3, <2>4 DEF InForce
  <2>6. UpTo(s, e) \subseteq DOMAIN feeds[s]  BY DEF UpTo
  <2>7. HasPrice(s, e) <=> InForce(s, e) # {}
    BY <2>4, <2>5, <2>6 DEF HasPrice
  <2>8. ASSUME NEW k \in InForce(s, e),
               \A j \in InForce(s, e) : j = k \/ Supersedes(k, j)
        PROVE  /\ AtOrBefore(s, e) = published[k].price
               /\ (\A q \in DOMAIN published :
                      published[q].symbol = s => published[q].epoch <= e)
                    => Latest(s) = AtOrBefore(s, e)
    <3>1. PICK x \in UpTo(s, e) : at[x] = k  BY <2>5
    <3>2. PICK g \in UpTo(s, e) : \A j \in UpTo(s, e) : j <= g
      BY <2>2, <2>6, <3>1, GreatestBelow
    <3>3. g \in DOMAIN feeds[s] /\ x \in DOMAIN feeds[s] /\ g \in Nat /\ x \in Nat
      BY <2>2, <2>6
    <3>4. at[g] = k
      <4> SUFFICES ASSUME at[g] # k PROVE FALSE
        OBVIOUS
      <4>1. at[g] \in InForce(s, e)  BY <2>4, <3>3
      <4>2. Supersedes(k, at[g])  BY <2>8, <4>1
      <4>3. x < g  BY <3>1, <3>2, <3>3
      <4>4. Supersedes(at[g], k)  BY <2>3, <3>1, <3>3, <4>3
      <4>5. k \in DOMAIN published /\ at[g] \in DOMAIN published  BY <4>1 DEF InForce
      <4>6. /\ k \in Nat /\ at[g] \in Nat
            /\ published[k].epoch \in Nat /\ published[at[g]].epoch \in Nat
        BY <2>2, <4>5
      <4> QED  BY <4>2, <4>4, <4>6 DEF Supersedes
    <3>5. AtOrBefore(s, e) = feeds[s][g].price
      <4>1. UpTo(s, e) \in SUBSET Nat  BY <2>2, <2>6
      <4> QED  BY <3>2, <4>1, GreatestChosen DEF AtOrBefore
    <3>6. ASSUME \A q \in DOMAIN published :
                    published[q].symbol = s => published[q].epoch <= e
          PROVE  g = Len(feeds[s])
      <4>1. Len(feeds[s]) \in DOMAIN feeds[s]  BY <2>2, <3>3
      <4>2. Len(feeds[s]) \in UpTo(s, e)  BY <2>3, <3>6, <4>1 DEF UpTo
      <4> QED  BY <2>2, <3>2, <3>3, <4>2
    <3> QED  BY <2>3, <3>3, <3>4, <3>5, <3>6 DEF Latest
  <2> QED  BY <2>7, <2>8
<1> QED  BY <1>1, FeedsAlways, PTL

\* QuotesSettle: what the band still admits is inserted after everything that
\* the search for a settled epoch looks at.
THEOREM QuotesFinal == DeskSpec => QuotesSettle
<1>1. ASSUME FeedsInv, ClockInv, OracleNext, UNCHANGED vars,
             NEW s \in Symbols, NEW e \in PriceEpochs,
             bands[s] # NoBand, HasPrice(s, e),
             e + bands[s].staleness < current_epoch
      PROVE  AtOrBefore(s, e)' = AtOrBefore(s, e)
  <2> DEFINE feed == feeds[s]
  <2>1. CASE feeds'[s] = feed
    BY <2>1 DEF AtOrBefore, UpTo
  <2>2. ASSUME NEW price \in Prices, NEW e2 \in PriceEpochs, Publish(s, price, e2)
        PROVE  AtOrBefore(s, e)' = AtOrBefore(s, e)
    <3> DEFINE entry == [epoch |-> e2, price |-> price]
               later == {i \in DOMAIN feed : feed[i].epoch > entry.epoch}
               p == Before(feed, later)
               t == InsertBefore(feed, later, entry)
    <3>1. e < e2
      <4>1. SaturatingSub(current_epoch, e2) <= bands[s].staleness
        BY <1>1, <2>2 DEF Publish, BandAccepts
      <4>2. /\ current_epoch \in Nat /\ e \in Nat /\ e2 \in Nat
            /\ bands[s].staleness \in Nat
        BY <1>1, OracleAssumption DEF ClockInv, TypeOK, FeedsInv
      <4> QED  BY <1>1, <4>1, <4>2 DEF SaturatingSub
    <3>2. e \in Nat /\ e2 \in Nat /\ price \in Nat  BY OracleAssumption
    <3>3. feeds'[s] = t
      BY <1>1, <2>2 DEF Publish, Sorted, FeedsInv
    <3>4. /\ feed \in Seq(FeedPrice) /\ entry \in FeedPrice
          /\ later \in SUBSET DOMAIN feed /\ entry.epoch = e2
      BY <1>1, <3>2 DEF FeedsInv, FeedPrice
    <3>5. /\ Len(feed) \in Nat /\ DOMAIN feed = 1 .. Len(feed)
          /\ \A i \in DOMAIN feed : feed[i].epoch \in Nat
      BY <1>1, FeedTyped DEF FeedPrice
    <3>6. \A i \in DOMAIN feed : i \in later <=> e2 < feed[i].epoch
      BY <3>2, <3>5
    <3>7. \A i, j \in DOMAIN feed : i <= j => feed[i].epoch <= feed[j].epoch
      BY <1>1, FeedOrdered
    <3>8. UpTo(s, e) = {i \in DOMAIN feed : feed[i].epoch <= e}  BY DEF UpTo
    <3>9. AtOrBefore(s, e) =
            feed[CHOOSE i \in UpTo(s, e) : \A j \in UpTo(s, e) : j <= i].price
      BY DEF AtOrBefore
    <3> DEFINE U == {i \in DOMAIN t : t[i].epoch <= e}
    <3>10. AtOrBefore(s, e)' = t[CHOOSE i \in U : \A j \in U : j <= i].price
      BY <3>3 DEF AtOrBefore, UpTo
    <3> HIDE DEF feed, entry, later
    <3>11. InsertsInPlace(FeedPrice, feed, later, entry)  BY <3>4, InsertBeforeIs
    <3>12. /\ p \in 1 .. Len(feed) + 1 /\ p \in later \cup {Len(feed) + 1}
           /\ DOMAIN t = 1 .. Len(feed) + 1
           /\ \A i \in 1 .. Len(feed) + 1 :
                t[i] = IF i < p THEN feed[i] ELSE IF i = p THEN entry ELSE feed[i - 1]
      BY <3>11 DEF InsertsInPlace
    <3> HIDE DEF p, t
    <3>13. PICK g \in UpTo(s, e) : \A j \in UpTo(s, e) : j <= g
      <4>1. UpTo(s, e) \in SUBSET (1 .. Len(feed)) /\ UpTo(s, e) # {}
        BY <1>1, <3>5, <3>8 DEF HasPrice
      <4> QED  BY <3>5, <4>1, GreatestBelow
    <3>14. g \in DOMAIN feed /\ g \in Nat /\ p \in Nat /\ feed[g].epoch <= e
      BY <3>5, <3>8, <3>12
    <3>15. g < p
      <4> SUFFICES ASSUME p <= g PROVE FALSE
        BY <3>14
      <4>1. p \in DOMAIN feed /\ p \in later  BY <3>5, <3>12, <3>14
      <4>2. e2 < feed[p].epoch /\ feed[p].epoch <= feed[g].epoch
        BY <3>6, <3>7, <3>14, <4>1
      <4>3. feed[p].epoch \in Nat /\ feed[g].epoch \in Nat  BY <3>5, <3>14, <4>1
      <4> QED  BY <3>1, <3>2, <3>14, <4>2, <4>3
    <3>16. t[g] = feed[g] /\ g \in U
      <4>1. g \in 1 .. Len(feed) + 1  BY <3>5, <3>14
      <4> QED  BY <3>12, <3>14, <3>15, <4>1
    <3>17. ASSUME NEW i \in U PROVE i <= g
      <4>1. i \in 1 .. Len(feed) + 1 /\ t[i].epoch <= e  BY <3>12
      <4>2. CASE i < p
        <5>1. i \in DOMAIN feed /\ t[i] = feed[i]  BY <3>5, <3>12, <4>1, <4>2
        <5> QED  BY <3>8, <3>13, <4>1, <5>1
      <4>3. i # p
        <5>1. i = p => t[i] = entry  BY <3>12, <4>1, <3>14
        <5> QED  BY <3>1, <3>2, <3>4, <4>1, <5>1
      <4>4. ~(i > p)
        <5> SUFFICES ASSUME i > p PROVE FALSE
          OBVIOUS
        <5>1. i - 1 \in DOMAIN feed /\ t[i] = feed[i - 1] /\ g < i - 1
          BY <3>5, <3>12, <3>14, <3>15, <4>1
        <5>2. i - 1 \in UpTo(s, e)  BY <3>8, <4>1, <5>1
        <5>3. i - 1 <= g  BY <3>13, <5>2
        <5> QED  BY <3>14, <4>1, <5>1, <5>3
      <4> QED  BY <3>14, <4>1, <4>2, <4>3, <4>4
    <3>18. U \in SUBSET Nat /\ UpTo(s, e) \in SUBSET Nat  BY <3>5, <3>8, <3>12
    <3>19. (CHOOSE i \in U : \A j \in U : j <= i) = g
      <4> HIDE DEF U
      <4> QED  BY <3>16, <3>17, <3>18, GreatestChosen
    <3>20. (CHOOSE i \in UpTo(s, e) : \A j \in UpTo(s, e) : j <= i) = g
      BY <3>13, <3>18, GreatestChosen
    <3> QED  BY <3>9, <3>10, <3>16, <3>19, <3>20
  <2>3. ASSUME NEW q \in Symbols, NEW price \in Prices, NEW e2 \in PriceEpochs,
               Publish(q, price, e2), q # s
        PROVE  feeds'[s] = feed
    BY <1>1, <2>3 DEF Publish, FeedsInv
  <2>4. ASSUME NEW q \in Symbols, NEW band \in Bands, SetBand(q, band)
        PROVE  feeds'[s] = feed
    BY <2>4 DEF SetBand
  <2> QED  BY <1>1, <2>1, <2>2, <2>3, <2>4 DEF OracleNext
<1>2. FeedsInv /\ ClockInv /\ [DeskNext]_deskVars
        => [\A s \in Symbols, e \in PriceEpochs :
              bands[s] # NoBand /\ HasPrice(s, e) /\ e + bands[s].staleness < current_epoch =>
                 AtOrBefore(s, e)' = AtOrBefore(s, e)]_oracleVars
  <2>1. [DeskNext]_deskVars => (OracleNext /\ UNCHANGED vars) \/ UNCHANGED oracleVars
    BY DeskMoves
  <2> QED  BY <1>1, <2>1
<1> QED  BY <1>2, FeedsAlways, DeskClock, PTL DEF DeskSpec, QuotesSettle

---------------------------------------------------------------------------
\* Repayment schedules

(***************************************************************************)
(* What the builders make of a loan, as long as the product of epochs does *)
(* not wrap: instalment k of n falls due when k shares of the span have    *)
(* passed, rounded down.                                                   *)
(***************************************************************************)
LEMMA SpanNat == ASSUME NEW terms \in Loan
                 PROVE  Span(terms) \in Nat /\ terms.start \in Nat
  BY SaturatingSubNat DEF Span, Loan

LEMMA DueEpochs ==
    ASSUME NEW terms \in Loan, NEW n \in Nat, n > 0,
           Span(terms) >= n, Span(terms) * n < U64, NEW k \in 1 .. n
    PROVE  /\ DueEpoch(terms, k, n) \in Nat
           /\ terms.start < DueEpoch(terms, k, n)
           /\ Span(terms) * k < n * (DueEpoch(terms, k, n) - terms.start + 1)
           /\ \A j \in 1 .. n : j < k => DueEpoch(terms, j, n) < DueEpoch(terms, k, n)
           /\ k = n => DueEpoch(terms, k, n) = terms.maturity
<1> DEFINE s == Span(terms)
           passed(j) == (s * j) \div n
<1>1. s \in Nat /\ terms.start \in Nat /\ n \in Nat \ {0} /\ s >= n  BY SpanNat
<1>2. s = terms.maturity - terms.start /\ terms.maturity \in Nat
  BY <1>1 DEF Span, SaturatingSub, Loan
<1>3. s * n < U64  OBVIOUS
<1> HIDE DEF s
<1>4. ASSUME NEW j \in 1 .. n
      PROVE  /\ DueEpoch(terms, j, n) = terms.start + passed(j)
             /\ passed(j) \in Nat /\ n * passed(j) <= s * j /\ s * j < n * passed(j) + n
  <2>1. s * j <= s * n /\ s * j \in Nat /\ s * n \in Nat  BY <1>1, TimesNat
  <2>2. (s * j) % U64 = s * j  BY <1>3, <2>1, ScheduleAssumption
  <2> QED  BY <1>1, <2>1, <2>2, DivNat, DivBracket DEF DueEpoch, s
<1> HIDE DEF passed
<1>5. ASSUME NEW j \in 1 .. n, j < k
      PROVE  passed(j) < passed(k)
  <2>1. s * j + n <= s * k
    <3>1. s * (j + 1) <= s * k  BY <1>1, <1>5
    <3>2. s * (j + 1) = s * j + s  BY <1>1
    <3>3. s * j \in Nat /\ s * k \in Nat  BY <1>1, TimesNat
    <3> QED  BY <1>1, <3>1, <3>2, <3>3
  <2> SUFFICES ASSUME passed(k) <= passed(j) PROVE FALSE  BY <1>4
  <2>2. n * passed(k) <= n * passed(j)  BY <1>1, <1>4
  <2>3. n * passed(k) \in Nat /\ n * passed(j) \in Nat /\ s * j \in Nat /\ s * k \in Nat
    BY <1>1, <1>4, TimesNat
  <2> QED  BY <1>1, <1>4, <2>1, <2>2, <2>3
<1>6. passed(k) >= 1
  <2> SUFFICES ASSUME passed(k) = 0 PROVE FALSE  BY <1>4
  <2>1. s * k < n  BY <1>1, <1>4
  <2>2. s * 1 <= s * k /\ s * k \in Nat  BY <1>1, TimesNat
  <2> QED  BY <1>1, <2>1, <2>2
<1>7. n * (passed(k) + 1) = n * passed(k) + n  BY <1>1, <1>4
<1>8. ASSUME k = n PROVE passed(k) = s
  <2>1. n * s = s * n /\ s * n \in Nat  BY <1>1, TimesNat
  <2> QED  BY <1>1, <1>8, <2>1, DivIs DEF passed
<1>9. DueEpoch(terms, k, n) - terms.start + 1 = passed(k) + 1  BY <1>1, <1>4
<1>10. Span(terms) * k < n * (DueEpoch(terms, k, n) - terms.start + 1)
  BY <1>4, <1>7, <1>9 DEF s
<1> QED  BY <1>1, <1>2, <1>4, <1>5, <1>6, <1>8, <1>10

\* The rank of a line among lines of different epochs.
Rank(s, k) == Cardinality({j \in DOMAIN s : s[j].due <= s[k].due})

LEMMA Ranks ==
    ASSUME NEW s, NEW n \in Nat, DOMAIN s = 1 .. n,
           \A k \in 1 .. n : s[k].due \in Nat,
           \A j, k \in 1 .. n : j # k => s[j].due # s[k].due
    PROVE  /\ \A k \in 1 .. n : Rank(s, k) \in 1 .. n
           /\ \A j, k \in 1 .. n : j # k => Rank(s, j) # Rank(s, k)
           /\ \A i \in 1 .. n : \E k \in 1 .. n : Rank(s, k) = i
<1> DEFINE upTo(k) == {j \in 1 .. n : s[j].due <= s[k].due}
<1>1. IsFiniteSet(1 .. n) /\ Cardinality(1 .. n) = n  BY FS_Interval
<1>2. ASSUME NEW k \in 1 .. n
      PROVE  /\ IsFiniteSet(upTo(k)) /\ Rank(s, k) = Cardinality(upTo(k))
             /\ Rank(s, k) \in 1 .. n
  <2>1. upTo(k) \subseteq 1 .. n /\ k \in upTo(k)  OBVIOUS
  <2>2. IsFiniteSet(upTo(k)) /\ Cardinality(upTo(k)) <= n  BY <1>1, <2>1, FS_Subset
  <2>3. Cardinality(upTo(k)) \in Nat /\ Cardinality(upTo(k)) # 0
    BY <2>1, <2>2, FS_CardinalityType, FS_EmptySet
  <2>4. Rank(s, k) = Cardinality(upTo(k))  BY DEF Rank
  <2> QED  BY <2>2, <2>3, <2>4
<1>3. ASSUME NEW j \in 1 .. n, NEW k \in 1 .. n, s[j].due < s[k].due
      PROVE  Rank(s, j) < Rank(s, k)
  <2>1. upTo(j) \subseteq upTo(k) /\ k \in upTo(k) /\ k \notin upTo(j)  BY <1>3
  <2>2. Cardinality(upTo(j)) < Cardinality(upTo(k))
    <3>1. Cardinality(upTo(j)) <= Cardinality(upTo(k))
      BY <1>2, <2>1, FS_Subset
    <3>2. Cardinality(upTo(j)) # Cardinality(upTo(k))
      BY <1>2, <2>1, FS_Subset
    <3>3. Cardinality(upTo(j)) \in Nat /\ Cardinality(upTo(k)) \in Nat
      BY <1>2, FS_CardinalityType
    <3> HIDE DEF upTo
    <3> QED  BY <3>1, <3>2, <3>3
  <2> QED  BY <1>2, <2>2
<1>4. ASSUME NEW j \in 1 .. n, NEW k \in 1 .. n, j # k PROVE Rank(s, j) # Rank(s, k)
  <2>1. s[j].due < s[k].due \/ s[k].due < s[j].due  BY <1>4
  <2>2. Rank(s, j) < Rank(s, k) \/ Rank(s, k) < Rank(s, j)  BY <1>3, <2>1
  <2>3. Rank(s, j) \in Nat /\ Rank(s, k) \in Nat
    <3> HIDE DEF upTo
    <3> QED  BY <1>2
  <2> QED  BY <2>2, <2>3
<1>5. ASSUME NEW i \in 1 .. n PROVE \E k \in 1 .. n : Rank(s, k) = i
  <2> DEFINE R  == {Rank(s, k) : k \in 1 .. n}
             rk == [k \in 1 .. n |-> Rank(s, k)]
  <2>1. rk \in Bijection(1 .. n, R)
    <3>1. rk \in [1 .. n -> R]  OBVIOUS
    <3>2. \A j, k \in 1 .. n : rk[j] = rk[k] => j = k  BY <1>4
    <3>3. \A r \in R : \E k \in 1 .. n : rk[k] = r  OBVIOUS
    <3> HIDE DEF rk, R
    <3> QED  BY <3>1, <3>2, <3>3 DEF Bijection, Injection, Surjection, IsInjective
  <2>2. IsFiniteSet(R) /\ Cardinality(R) = n
    <3> HIDE DEF rk, R
    <3> QED  BY <1>1, <2>1, FS_Bijection DEF ExistsBijection
  <2>3. R \subseteq 1 .. n  BY <1>2
  <2>4. R = 1 .. n  BY <1>1, <2>2, <2>3, FS_Subset
  <2> QED  BY <2>4
<1> QED  BY <1>2, <1>4, <1>5

\* Sorting keeps the lines, and changes nothing if they are in order already.
LEMMA InDueOrderIs ==
    ASSUME NEW n \in Nat, NEW s \in [1 .. n -> Line],
           \A j, k \in 1 .. n : j < k => s[j].due # s[k].due
    PROVE  /\ InDueOrder(s) \in [1 .. n -> Line]
           /\ \A i \in 1 .. n : \E k \in 1 .. n : InDueOrder(s)[i] = s[k]
           /\ (\A j, k \in 1 .. n : j < k => s[j].due < s[k].due) => InDueOrder(s) = s
<1>1. DOMAIN s = 1 .. n /\ \A k \in 1 .. n : s[k].due \in Nat  BY DEF Line
<1>2. ASSUME NEW j \in 1 .. n, NEW k \in 1 .. n, j # k PROVE s[j].due # s[k].due
  <2>1. j < k \/ k < j  BY <1>2
  <2> QED  BY <2>1
<1> DEFINE at(i) == CHOOSE k \in 1 .. n : Rank(s, k) = i
<1>3. ASSUME NEW i \in 1 .. n PROVE at(i) \in 1 .. n /\ Rank(s, at(i)) = i
  BY <1>1, <1>2, Ranks
<1>4. InDueOrder(s) = [i \in 1 .. n |-> s[at(i)]]  BY <1>1 DEF InDueOrder, Rank
<1> HIDE DEF at
<1>5. ASSUME \A j, k \in 1 .. n : j < k => s[j].due < s[k].due, NEW i \in 1 .. n
      PROVE  at(i) = i
  <2>1. {j \in DOMAIN s : s[j].due <= s[i].due} = 1 .. i
    <3>1. \A j \in 1 .. n : s[j].due <= s[i].due <=> j <= i
      <4> SUFFICES ASSUME NEW j \in 1 .. n PROVE s[j].due <= s[i].due <=> j <= i
        OBVIOUS
      <4>1. CASE j < i  BY <1>1, <1>5, <4>1
      <4>2. CASE i < j
        <5>1. s[i].due < s[j].due  BY <1>5, <4>2
        <5> QED  BY <1>1, <4>2, <5>1
      <4>3. CASE i = j  BY <1>1, <4>3
      <4> QED  BY <4>1, <4>2, <4>3
    <3> QED  BY <1>1, <3>1
  <2>2. Rank(s, i) = i
    <3>1. Rank(s, i) = Cardinality(1 .. i)  BY <2>1 DEF Rank
    <3> QED  BY <3>1, FS_Interval
  <2>3. \A j, k \in 1 .. n : j # k => Rank(s, j) # Rank(s, k)  BY <1>1, <1>2, Ranks
  <2> QED  BY <1>3, <2>2, <2>3
<1>6. (\A j, k \in 1 .. n : j < k => s[j].due < s[k].due) => InDueOrder(s) = s
  <2> SUFFICES ASSUME \A j, k \in 1 .. n : j < k => s[j].due < s[k].due
               PROVE  InDueOrder(s) = s
    OBVIOUS
  <2>1. \A i \in 1 .. n : at(i) = i  BY <1>5
  <2> QED  BY <1>4, <2>1
<1>7. InDueOrder(s) \in [1 .. n -> Line]  BY <1>3, <1>4
<1>8. \A i \in 1 .. n : \E k \in 1 .. n : InDueOrder(s)[i] = s[k]  BY <1>3, <1>4
<1> QED  BY <1>6, <1>7, <1>8
(***************************************************************************)
(* A schedule of n lines knows which of them have been paid, and divides   *)
(* the loan: all lines but the last are equal, the last takes the rest and *)
(* falls on the maturity, and every line comes at most an epoch early.     *)
(***************************************************************************)
Divided(n) ==
    /\ \A k \in 1 .. n : lines[k].interest = loan.interest \div n
    /\ \A k \in 1 .. n - 1 :
         /\ lines[k].principal = loan.principal \div n
         /\ loan.start < lines[k].due /\ lines[k].due < lines[k + 1].due
         /\ Span(loan) * k < n * (lines[k].due - loan.start + 1)
    /\ lines[n].principal = loan.principal - (loan.principal \div n) * (n - 1)
    /\ lines[n].due = loan.maturity
ScheduleSound(n) ==
    /\ lines \in Seq(Line) /\ Len(lines) = n
    /\ \A k \in 1 .. n : lines[k].status = "Paid" <=> lines[k].due \in paidOn
    /\ n > 0 /\ Span(loan) * n < U64 => Divided(n)
ScheduleInv ==
    /\ loan \in Loan
    /\ lines = << >> => paidOn = {}
    /\ \E n \in Nat : ScheduleSound(n)

LEMMA BulletKeeps ==
    ASSUME ScheduleInv, NEW terms \in Loans, BuildBullet(terms)
    PROVE  ScheduleInv'
<1> DEFINE line == [due |-> terms.maturity, principal |-> terms.principal,
                    interest |-> terms.interest, status |-> "Planned"]
<1>1. /\ terms \in Loan /\ line \in Line
  BY ScheduleAssumption DEF Loan, Line
<1>2. /\ lines' = <<line>> /\ loan' = terms /\ paidOn' = {}
  BY DEF BuildBullet, Bullet, ScheduleInv
<1>3. lines' \in Seq(Line) /\ Len(lines') = 1 /\ lines'[1] = line  BY <1>1, <1>2
<1>4. \A x \in Nat : x \div 1 = x /\ x - x * 0 = x
  <2>1. \A x \in Nat : 1 * x <= x /\ x < 1 * x + 1  OBVIOUS
  <2> QED  BY <2>1, DivIs
<1>5. terms.interest \in Nat /\ terms.principal \in Nat
  BY <1>1, AmountIffFits DEF Loan
<1>6. Divided(1)'
  <2>1. 1 .. 1 - 1 = {} /\ \A k \in 1 .. 1 : k = 1  OBVIOUS
  <2>2. terms.interest \div 1 = terms.interest /\ terms.principal \div 1 = terms.principal
        /\ terms.principal - terms.principal * (1 - 1) = terms.principal
    BY <1>4, <1>5
  <2> QED  BY <1>2, <1>3, <2>1, <2>2 DEF Divided
<1>7. \A k \in 1 .. 1 : (lines[k].status = "Paid")' <=> (lines[k].due \in paidOn)'
  BY <1>2, <1>3
<1>8. ScheduleSound(1)'  BY <1>3, <1>6, <1>7 DEF ScheduleSound
<1> QED  BY <1>1, <1>2, <1>3, <1>8 DEF ScheduleInv

LEMMA EqualPrincipalKeeps ==
    ASSUME ScheduleInv, NEW terms \in Loans, NEW n \in InstalmentCounts,
           BuildEqualPrincipal(terms, n)
    PROVE  ScheduleInv'
<1> DEFINE made == EqualPrincipal(terms, n)
<1>1. /\ terms \in Loan /\ n \in Nat /\ n > 0 /\ Span(terms) >= n
      /\ lines' = InDueOrder(made) /\ loan' = terms /\ paidOn' = {}
      /\ \A j, k \in 1 .. n : j < k => DueEpoch(terms, j, n) # DueEpoch(terms, k, n)
  BY ScheduleAssumption DEF BuildEqualPrincipal, EqualPrincipalAccepted, ScheduleInv
<1>2. /\ terms.interest \in Amount /\ terms.principal \in Amount
      /\ terms.interest \in Nat /\ terms.principal \in Nat
  BY <1>1, AmountIffFits DEF Loan
<1>3. ASSUME NEW x \in Amount PROVE x \div n \in Amount
  <2>1. x \in Nat /\ x <= MaxAmount  BY AmountsAssumption DEF Amount
  <2>2. x \div n \in Nat /\ n * (x \div n) <= x  BY <1>1, <2>1, DivNat, DivBracket
  <2>3. \A q \in Nat : q <= n * q  BY <1>1
  <2>4. n * (x \div n) \in Nat  BY <1>1, <2>2, TimesNat
  <2> QED  BY <2>1, <2>2, <2>3, <2>4, AmountsAssumption DEF Amount
<1> DEFINE q == terms.principal \div n
<1>4. q \in Nat /\ q * (n - 1) \in Nat /\ q * (n - 1) <= terms.principal
  <2>1. q \in Nat /\ n * q <= terms.principal  BY <1>1, <1>2, DivNat, DivBracket
  <2> HIDE DEF q
  <2>2. q * (n - 1) <= n * q /\ n - 1 \in Nat  BY <1>1, <2>1
  <2>3. q * (n - 1) \in Nat /\ n * q \in Nat  BY <1>1, <2>1, <2>2, TimesNat
  <2> QED  BY <1>2, <2>1, <2>2, <2>3
<1>5. ASSUME NEW k \in 1 .. n
      PROVE  /\ PrincipalDue(terms, k, n) \in Amount
             /\ k < n => PrincipalDue(terms, k, n) = q
             /\ k = n => PrincipalDue(terms, k, n) = terms.principal - q * (n - 1)
  <2>1. CASE k < n  BY <1>1, <1>2, <1>3, <2>1 DEF PrincipalDue
  <2>2. CASE ~(k < n)
    <3>1. PrincipalDue(terms, k, n) = SaturatingSub(terms.principal, q * (n - 1))
      BY <2>2 DEF PrincipalDue
    <3>2. SaturatingSub(terms.principal, q * (n - 1)) = terms.principal - q * (n - 1)
      <4> HIDE DEF q
      <4> QED  BY <1>2, <1>4 DEF SaturatingSub
    <3>3. terms.principal - q * (n - 1) \in Amount
      <4> DEFINE z == q * (n - 1)
      <4> HIDE DEF z
      <4>1. z \in Nat /\ z <= terms.principal  BY <1>4 DEF z
      <4> QED  BY <1>2, <4>1, AmountsAssumption DEF Amount, z
    <3> QED  BY <2>2, <3>1, <3>2, <3>3
  <2> QED  BY <2>1, <2>2
<1>6. ASSUME NEW k \in 1 .. n
      PROVE  DueEpoch(terms, k, n) \in Nat
  <2>1. Span(terms) \in Nat /\ terms.start \in Nat  BY <1>1, SpanNat
  <2>2. Span(terms) * k \in Nat  BY <2>1, TimesNat
  <2>3. (Span(terms) * k) % U64 \in Nat  BY <2>2, ScheduleAssumption
  <2>4. ((Span(terms) * k) % U64) \div n \in Nat  BY <1>1, <2>3, DivNat
  <2> QED  BY <2>1, <2>4 DEF DueEpoch
<1>7. ASSUME NEW k \in 1 .. n
      PROVE  /\ made[k].due = DueEpoch(terms, k, n)
             /\ made[k].principal = PrincipalDue(terms, k, n)
             /\ made[k].interest = terms.interest \div n /\ made[k].status = "Planned"
             /\ made[k] \in Line
  <2> DEFINE line == [due |-> DueEpoch(terms, k, n), principal |-> PrincipalDue(terms, k, n),
                      interest |-> terms.interest \div n, status |-> "Planned"]
  <2>1. made[k] = line  BY DEF EqualPrincipal
  <2>2. line \in Line  BY <1>2, <1>3, <1>5, <1>6 DEF Line
  <2> QED  BY <2>1, <2>2
<1>8. made \in [1 .. n -> Line]
  <2>1. made = [k \in 1 .. n |-> made[k]]  BY DEF EqualPrincipal
  <2> HIDE DEF made
  <2> QED  BY <1>7, <2>1
<1>9. \A j, k \in 1 .. n : j < k => made[j].due # made[k].due
  <2> HIDE DEF made
  <2> QED  BY <1>1, <1>7
<1> HIDE DEF made
<1>10. /\ lines' \in [1 .. n -> Line]
       /\ \A i \in 1 .. n : \E k \in 1 .. n : lines'[i] = made[k]
  <2>1. n \in Nat /\ lines' = InDueOrder(made)  BY <1>1
  <2>2. /\ InDueOrder(made) \in [1 .. n -> Line]
        /\ \A i \in 1 .. n : \E k \in 1 .. n : InDueOrder(made)[i] = made[k]
    BY <1>8, <1>9, <2>1, InDueOrderIs, Zenon
  <2> QED  BY <2>1, <2>2
<1>11. lines' \in Seq(Line) /\ Len(lines') = n  BY <1>1, <1>10
<1>12. \A k \in 1 .. n : (lines[k].status = "Paid")' <=> (lines[k].due \in paidOn)'
  <2>1. \A k \in 1 .. n : lines'[k].status = "Planned"  BY <1>7, <1>10
  <2> QED  BY <1>1, <2>1
<1>13. ASSUME Span(terms) * n < U64 PROVE Divided(n)'
  <2>1. \A j, k \in 1 .. n : j < k => made[j].due < made[k].due
    BY <1>1, <1>7, <1>13, DueEpochs
  <2>2. lines' = made  BY <1>1, <1>8, <1>9, <2>1, InDueOrderIs
  <2>3. \A k \in 1 .. n : made[k].interest = terms.interest \div n  BY <1>7
  <2>4. made[n].principal = terms.principal - q * (n - 1)
    BY <1>1, <1>5, <1>7
  <2>5. made[n].due = terms.maturity
    BY <1>1, <1>7, <1>13, DueEpochs
  <2>6. ASSUME NEW k \in 1 .. n - 1
        PROVE  /\ made[k].principal = q
               /\ terms.start < made[k].due /\ made[k].due < made[k + 1].due
               /\ Span(terms) * k < n * (made[k].due - terms.start + 1)
    <3>1. k \in 1 .. n /\ k + 1 \in 1 .. n /\ k < n /\ k < k + 1  BY <1>1
    <3>2. made[k].principal = q  BY <1>5, <1>7, <3>1
    <3>3. made[k].due < made[k + 1].due  BY <2>1, <3>1
    <3>4. made[k].due = DueEpoch(terms, k, n)  BY <1>7, <3>1
    <3>5. /\ terms.start < DueEpoch(terms, k, n)
          /\ Span(terms) * k < n * (DueEpoch(terms, k, n) - terms.start + 1)
      BY <1>1, <1>13, <3>1, DueEpochs
    <3> QED  BY <3>2, <3>3, <3>4, <3>5
  <2> QED  BY <1>1, <2>2, <2>3, <2>4, <2>5, <2>6 DEF Divided
<1>14. ScheduleSound(n)'  BY <1>1, <1>11, <1>12, <1>13 DEF ScheduleSound
<1> QED  BY <1>1, <1>14 DEF ScheduleInv

LEMMA MarkPaidKeeps ==
    ASSUME ScheduleInv, NEW e, MarkPaid(e)
    PROVE  ScheduleInv'
<1>1. PICK n \in Nat : ScheduleSound(n)  BY DEF ScheduleInv
<1>2. lines \in Seq(Line) /\ Len(lines) = n /\ DOMAIN lines = 1 .. n
  BY <1>1 DEF ScheduleSound
<1>3. /\ lines' = [i \in 1 .. n |-> IF lines[i].due = e
                                    THEN [lines[i] EXCEPT !.status = "Paid"]
                                    ELSE lines[i]]
      /\ paidOn' = paidOn \cup {e} /\ loan' = loan /\ loan \in Loan
  BY <1>2 DEF MarkPaid, ScheduleInv
<1>4. ASSUME NEW k \in 1 .. n
      PROVE  /\ lines'[k] \in Line
             /\ lines'[k].due = lines[k].due /\ lines'[k].principal = lines[k].principal
             /\ lines'[k].interest = lines[k].interest
             /\ lines'[k].status = "Paid" <=> lines[k].due \in paidOn'
  <2>1. lines[k] \in Line /\ (lines[k].status = "Paid" <=> lines[k].due \in paidOn)
    BY <1>1, <1>2 DEF ScheduleSound
  <2>2. CASE lines[k].due = e
    <3>1. lines'[k] = [lines[k] EXCEPT !.status = "Paid"]  BY <1>3, <2>2
    <3> QED  BY <1>3, <2>1, <2>2, <3>1 DEF Line
  <2>3. CASE lines[k].due # e
    <3>1. lines'[k] = lines[k]  BY <1>3, <2>3
    <3> QED  BY <1>3, <2>1, <2>3, <3>1
  <2> QED  BY <2>2, <2>3
<1>5. lines' \in Seq(Line) /\ Len(lines') = n
  <2>1. lines' \in [1 .. n -> Line]  BY <1>3, <1>4
  <2> QED  BY <2>1
<1>6. lines' # << >>
  <2>1. n # 0  BY <1>2 DEF MarkPaid
  <2> QED  BY <1>5, <2>1
<1>7. \A k \in 1 .. n : lines'[k].status = "Paid" <=> lines'[k].due \in paidOn'
  BY <1>4
<1>8. ASSUME n > 0, Span(loan) * n < U64 PROVE Divided(n)'
  <2>1. Divided(n)  BY <1>1, <1>8 DEF ScheduleSound
  <2>2. \A k \in 1 .. n - 1 : k \in 1 .. n /\ k + 1 \in 1 .. n  OBVIOUS
  <2>3. n \in 1 .. n  BY <1>8
  <2> QED  BY <1>3, <1>4, <2>1, <2>2, <2>3 DEF Divided
<1>9. (Span(loan))' = Span(loan)  BY <1>3 DEF Span
<1>10. ScheduleSound(n)'  BY <1>5, <1>7, <1>8, <1>9 DEF ScheduleSound
<1> QED  BY <1>3, <1>6, <1>10 DEF ScheduleInv

LEMMA LinesTyped ==
    ASSUME NEW n \in Nat, ScheduleSound(n)
    PROVE  /\ DOMAIN lines = 1 .. n
           /\ \A i \in 1 .. n : /\ lines[i] \in Line /\ lines[i].due \in Nat
                                /\ lines[i].principal \in Nat /\ lines[i].interest \in Nat
<1>1. lines \in Seq(Line) /\ Len(lines) = n  BY DEF ScheduleSound
<1>2. DOMAIN lines = 1 .. n /\ \A i \in 1 .. n : lines[i] \in Line  BY <1>1
<1>3. \A x \in Line : x.due \in Nat /\ x.principal \in Nat /\ x.interest \in Nat
  BY AmountIffFits DEF Line
<1> QED  BY <1>2, <1>3

\* What the lines of a sound schedule add up to.
LEMMA LineSums ==
    ASSUME NEW n \in Nat, ScheduleSound(n), NEW S \in SUBSET (1 .. n)
    PROVE  /\ IsFiniteSet(S)
           /\ Principal(S) = SumOver([i \in 1 .. n |-> lines[i].principal], S)
           /\ Principal(S) \in Nat
<1> DEFINE f  == [i \in S |-> lines[i].principal]
           pr == [i \in 1 .. n |-> lines[i].principal]
<1>1. IsFiniteSet(S)
  <2>1. IsFiniteSet(1 .. n)  BY FS_Interval
  <2> QED  BY <2>1, FS_Subset
<1>2. \A i \in 1 .. n : lines[i].principal \in Nat  BY LinesTyped
<1>3. \A i \in S : f[i] = pr[i] /\ f[i] \in Nat  BY <1>2
<1>4. Principal(S) = SumFunctionOnSet(f, S)  BY DEF Principal, SumFunction
<1> HIDE DEF f, pr
<1>5. SumFunctionOnSet(f, S) = SumOver(f, S) /\ SumOver(f, S) \in Nat
  BY <1>1, <1>3, FoldIsSum, SumOverNat
<1>6. SumOver(f, S) = SumOver(pr, S)  BY <1>3, SumSame
<1> QED  BY <1>1, <1>4, <1>5, <1>6 DEF pr

\* The instalments before the last, and all of them.
LEMMA DividedSums ==
    ASSUME NEW n \in Nat, n > 0, ScheduleSound(n), Divided(n), loan \in Loan
    PROVE  /\ \A S \in SUBSET (1 .. n - 1) :
                Principal(S) = Cardinality(S) * (loan.principal \div n)
           /\ Principal(1 .. n) = loan.principal
<1> DEFINE q  == loan.principal \div n
           pr == [i \in 1 .. n |-> lines[i].principal]
<1>1. /\ loan.principal \in Nat /\ q \in Nat
  BY AmountIffFits, DivNat DEF Loan
<1>2. ASSUME NEW S \in SUBSET (1 .. n - 1)
      PROVE  Principal(S) = Cardinality(S) * q
  <2>1. S \subseteq 1 .. n  OBVIOUS
  <2>2. IsFiniteSet(S) /\ Principal(S) = SumOver(pr, S)  BY <2>1, LineSums
  <2>3. \A i \in S : pr[i] = q  BY <2>1 DEF Divided
  <2> HIDE DEF q, pr
  <2> QED  BY <1>1, <2>2, <2>3, SumConstant
<1>3. Principal(1 .. n) = loan.principal
  <2>1. /\ IsFiniteSet(1 .. n) /\ Principal(1 .. n) = SumOver(pr, 1 .. n)
        /\ Principal(1 .. n - 1) = SumOver(pr, 1 .. n - 1)
    <3>1. 1 .. n - 1 \subseteq 1 .. n  OBVIOUS
    <3> QED  BY <3>1, LineSums
  <2>2. \A i \in 1 .. n : pr[i] \in Nat  BY LinesTyped
  <2>3. n \in 1 .. n /\ (1 .. n) \ {n} = 1 .. n - 1  OBVIOUS
  <2>4. pr[n] = loan.principal - q * (n - 1)  BY <2>3 DEF Divided
  <2>5. Principal(1 .. n - 1) = Cardinality(1 .. n - 1) * q  BY <1>2
  <2>6. Cardinality(1 .. n - 1) = n - 1
    <3>1. 1 \in Int /\ n - 1 \in Int /\ (1 > n - 1 => n - 1 = 0)  OBVIOUS
    <3> QED  BY <3>1, FS_Interval
  <2> HIDE DEF pr, q
  <2>7. SumOver(pr, 1 .. n) = pr[n] + SumOver(pr, 1 .. n - 1)
    BY <2>1, <2>2, <2>3, SumSplit
  <2>8. (n - 1) * q = q * (n - 1) /\ q * (n - 1) \in Int  BY <1>1
  <2> QED  BY <1>1, <2>1, <2>4, <2>5, <2>6, <2>7, <2>8
<1> QED  BY <1>2, <1>3

\* What is due never runs more than an epoch ahead of an even repayment.
LEMMA EvenRepayment ==
    ASSUME NEW n \in Nat, n > 0, ScheduleSound(n), Divided(n), loan \in Loan,
           NEW e \in loan.start .. loan.maturity
    PROVE  Principal(DueUpTo(e)) * Span(loan) <= loan.principal * (e - loan.start + 1)
<1> DEFINE total == loan.principal
           s == Span(loan)
           q == total \div n
           late == e - loan.start + 1
           S == DueUpTo(e)
<1>1. /\ loan.start \in Nat /\ loan.maturity \in Nat /\ total \in Nat /\ e \in Nat
      /\ s \in Nat /\ late \in Nat \ {0} /\ n \in Nat \ {0}
  BY SpanNat, AmountIffFits DEF Loan
<1>2. DOMAIN lines = 1 .. n  BY DEF ScheduleSound
<1>3. S = {i \in 1 .. n : lines[i].due <= e}  BY <1>2 DEF DueUpTo
<1>4. q \in Nat /\ n * q <= total  BY <1>1, DivNat, DivBracket
<1>5. CASE e = loan.maturity
  <2>1. Principal(S) <= total /\ Principal(S) \in Nat
    <3>1. S \subseteq 1 .. n  BY <1>3
    <3>2. /\ Principal(S) = SumOver([i \in 1 .. n |-> lines[i].principal], S)
          /\ Principal(1 .. n) = SumOver([i \in 1 .. n |-> lines[i].principal], 1 .. n)
          /\ IsFiniteSet(1 .. n) /\ Principal(S) \in Nat
      BY <3>1, LineSums
    <3>3. \A i \in 1 .. n : [j \in 1 .. n |-> lines[j].principal][i] \in Nat
      BY LinesTyped
    <3>4. Principal(S) <= Principal(1 .. n)  BY <3>1, <3>2, <3>3, SumPart
    <3> QED  BY <3>2, <3>4, DividedSums
  <2>2. s <= late  BY <1>1, <1>5 DEF Span, SaturatingSub
  <2> DEFINE p == Principal(S)
  <2> HIDE DEF p, s, late, total
  <2>3. p * s <= total * s /\ total * s <= total * late
    BY <1>1, <2>1, <2>2 DEF p
  <2>4. p \in Nat  BY <2>1 DEF p
  <2>5. p * s \in Nat /\ total * s \in Nat /\ total * late \in Nat
    BY <1>1, <2>4, TimesNat
  <2>6. p * s <= total * late  BY <2>3, <2>5
  <2> QED  BY <2>6 DEF p, s, late, total
<1>6. CASE e < loan.maturity
  <2> DEFINE m == (n * late - 1) \div s
  <2>1. s \in Nat \ {0}  BY <1>1, <1>6 DEF Span, SaturatingSub
  <2>2. n * late \in Nat /\ n * late >= 1
    <3> HIDE DEF late
    <3>1. n * late >= n * 1 /\ n * late \in Nat  BY <1>1, TimesNat
    <3> QED  BY <1>1, <3>1
  <2>3. m \in Nat /\ s * m <= n * late - 1
    <3> HIDE DEF s, late
    <3>1. n * late - 1 \in Nat  BY <2>2
    <3> QED  BY <2>1, <3>1, DivNat, DivBracket
  <2>4. ASSUME NEW i \in S PROVE i \in 1 .. n - 1 /\ i <= m
    <3>1. i \in 1 .. n /\ lines[i].due <= e /\ lines[i].due \in Nat
      BY <1>3, LinesTyped
    <3>2. i # n  BY <1>1, <1>6, <3>1 DEF Divided
    <3>3. i \in 1 .. n - 1  BY <3>1, <3>2
    <3>4. s * i < n * (lines[i].due - loan.start + 1) /\ loan.start < lines[i].due
      BY <3>3 DEF Divided
    <3> DEFINE d == lines[i].due - loan.start + 1
    <3>5. d \in Nat /\ d <= late  BY <1>1, <3>1, <3>4
    <3>6. s * i < n * d  BY <3>4
    <3> HIDE DEF s, late, d, m
    <3>7. n * d <= n * late /\ n * d \in Nat /\ s * i \in Nat
      BY <1>1, <3>3, <3>5, TimesNat
    <3>8. s * i <= n * late - 1  BY <2>2, <3>6, <3>7
    <3>9. i <= m
      <4> SUFFICES ASSUME m + 1 <= i PROVE FALSE  BY <2>3, <3>3
      <4>1. s * (m + 1) <= s * i /\ s * (m + 1) = s * m + s  BY <2>1, <2>3, <3>3
      <4>2. n * late - 1 < s * m + s
        <5>1. n * late - 1 \in Nat  BY <2>2
        <5> QED  BY <2>1, <5>1, DivBracket DEF m
      <4>3. s * m \in Nat  BY <2>1, <2>3, TimesNat
      <4> QED  BY <2>1, <2>2, <3>7, <3>8, <4>1, <4>2, <4>3
    <3> QED  BY <3>3, <3>9
  <2>5. S \subseteq 1 .. n - 1 /\ S \subseteq 1 .. m  BY <2>3, <2>4
  <2>6. Cardinality(S) \in Nat /\ Cardinality(S) <= m
    <3> HIDE DEF S, m
    <3>1. IsFiniteSet(1 .. m) /\ Cardinality(1 .. m) = m  BY <2>3, FS_Interval
    <3> QED  BY <2>5, <3>1, FS_Subset, FS_CardinalityType
  <2>7. Principal(S) = Cardinality(S) * q  BY <2>5, DividedSums
  <2> DEFINE c == Cardinality(S)
  <2> HIDE DEF S, c, m, s, q, late, total
  <2>8. c \in Nat /\ c <= m  BY <2>6 DEF c
  <2>9. (c * q) * s = q * (s * c)  BY <1>4, <2>1, <2>8
  <2>10. s * c <= n * late
    <3>1. s * c <= s * m /\ s * c \in Nat /\ s * m \in Nat  BY <2>1, <2>3, <2>8, TimesNat
    <3> QED  BY <2>2, <2>3, <3>1
  <2>11. q * (s * c) <= q * (n * late)
    <3> DEFINE x == s * c
               y == n * late
    <3>1. x \in Nat /\ y \in Nat /\ x <= y  BY <2>1, <2>2, <2>8, <2>10, TimesNat
    <3> HIDE DEF x, y
    <3>2. q * x <= q * y  BY <1>4, <3>1
    <3> QED  BY <3>2 DEF x, y
  <2>12. q * (n * late) = (n * q) * late  BY <1>1, <1>4
  <2>13. (n * q) * late <= total * late
    <3> DEFINE x == n * q
    <3>1. x \in Nat /\ x <= total  BY <1>1, <1>4, TimesNat
    <3> HIDE DEF x
    <3>2. x * late <= total * late  BY <1>1, <3>1
    <3> QED  BY <3>2 DEF x
  <2>14. q * (n * late) \in Int /\ total * late \in Int /\ q * (s * c) \in Int
    BY <1>1, <1>4, <2>1, <2>8
  <2>15. (c * q) * s <= total * late  BY <2>9, <2>11, <2>12, <2>13, <2>14
  <2> QED  BY <2>7, <2>15 DEF c, S, s, late, total
<1>7. e = loan.maturity \/ e < loan.maturity  BY <1>1
<1> QED  BY <1>5, <1>6, <1>7

\* What has been paid and what remains is the loan.
LEMMA PaidAndRemaining ==
    ASSUME NEW n \in Nat, n > 0, ScheduleSound(n), Divided(n), loan \in Loan
    PROVE  RemainingPrincipal
             = loan.principal - Principal({i \in DOMAIN lines : lines[i].due \in paidOn})
<1> DEFINE pr   == [i \in 1 .. n |-> lines[i].principal]
           paid == {i \in DOMAIN lines : lines[i].due \in paidOn}
           rest == {i \in DOMAIN lines : lines[i].status # "Paid"}
<1>1. DOMAIN lines = 1 .. n /\ \A i \in 1 .. n : pr[i] \in Nat  BY LinesTyped
<1>2. paid \cup rest = 1 .. n /\ paid \cap rest = {}  BY <1>1 DEF ScheduleSound
<1>3. /\ paid \subseteq 1 .. n /\ rest \subseteq 1 .. n  BY <1>1
<1>4. RemainingPrincipal = Principal(rest)  BY DEF RemainingPrincipal
<1> HIDE DEF paid, rest
<1>5. /\ IsFiniteSet(paid) /\ Principal(paid) = SumOver(pr, paid) /\ Principal(paid) \in Nat
      /\ IsFiniteSet(rest) /\ Principal(rest) = SumOver(pr, rest) /\ Principal(rest) \in Nat
      /\ Principal(1 .. n) = SumOver(pr, 1 .. n)
  BY <1>3, LineSums
<1> HIDE DEF pr
<1>6. SumOver(pr, 1 .. n) = SumOver(pr, paid) + SumOver(pr, rest)
  <2>1. \A i \in paid \cup rest : pr[i] \in Nat  BY <1>1, <1>2
  <2>2. SumOver(pr, paid \cup rest) = SumOver(pr, paid) + SumOver(pr, rest)
    BY <1>2, <1>5, <2>1, SumUnion
  <2> QED  BY <1>2, <2>2
<1>7. Principal(1 .. n) = loan.principal  BY DividedSums
<1> QED  BY <1>4, <1>5, <1>6, <1>7 DEF paid

\* Of the interest, less than a unit per instalment is lost.
LEMMA InterestLoss ==
    ASSUME NEW n \in Nat, n > 0, ScheduleSound(n), Divided(n), loan \in Loan
    PROVE  ExpectedInterest <= loan.interest /\ loan.interest < ExpectedInterest + n
<1> DEFINE f == [i \in 1 .. n |-> lines[i].interest]
           q == loan.interest \div n
<1>1. loan.interest \in Nat /\ n \in Nat \ {0}  BY AmountIffFits DEF Loan
<1>2. q \in Nat /\ n * q <= loan.interest /\ loan.interest < n * q + n
  BY <1>1, DivNat, DivBracket
<1>3. ExpectedInterest = SumFunctionOnSet(f, 1 .. n)
  BY LinesTyped DEF ExpectedInterest, SumFunction
<1>4. IsFiniteSet(1 .. n) /\ Cardinality(1 .. n) = n  BY FS_Interval
<1>5. \A i \in 1 .. n : f[i] = q  BY DEF Divided
<1> HIDE DEF f, q
<1>6. SumFunctionOnSet(f, 1 .. n) = SumOver(f, 1 .. n)  BY <1>2, <1>4, <1>5, FoldIsSum
<1>7. SumOver(f, 1 .. n) = n * q  BY <1>2, <1>4, <1>5, SumConstant
<1> QED  BY <1>2, <1>3, <1>6, <1>7

LEMMA SoundIsExact == ScheduleInv => InstalmentsExact
<1> SUFFICES ASSUME ScheduleInv, Len(lines) > 0, Span(loan) * Len(lines) < U64
             PROVE  LET n     == Len(lines)
                        total == loan.principal
                    IN  /\ Principal(DOMAIN lines) = total
                        /\ RemainingPrincipal
                             = total - Principal({i \in DOMAIN lines : lines[i].due \in paidOn})
                        /\ lines[n].due = loan.maturity
                        /\ \A i \in 1 .. n - 1 : /\ loan.start < lines[i].due
                                                 /\ lines[i].due < lines[i + 1].due
                        /\ \A e \in loan.start .. loan.maturity :
                             Principal(DueUpTo(e)) * Span(loan) <= total * (e - loan.start + 1)
                        /\ ExpectedInterest <= loan.interest
                        /\ loan.interest < ExpectedInterest + n
  BY DEF InstalmentsExact
<1>1. PICK n \in Nat : ScheduleSound(n)  BY DEF ScheduleInv
<1>2. n = Len(lines) /\ n > 0 /\ Divided(n) /\ loan \in Loan
  BY <1>1 DEF ScheduleSound, ScheduleInv
<1>3. DOMAIN lines = 1 .. n  BY <1>1, LinesTyped
<1>4. Principal(DOMAIN lines) = loan.principal  BY <1>1, <1>2, <1>3, DividedSums
<1>5. lines[n].due = loan.maturity
      /\ \A i \in 1 .. n - 1 : loan.start < lines[i].due /\ lines[i].due < lines[i + 1].due
  BY <1>2 DEF Divided
<1> QED  BY <1>1, <1>2, <1>4, <1>5, PaidAndRemaining, InterestLoss, EvenRepayment

LEMMA SchedulesStart ==
    ASSUME ScheduleInit
    PROVE  ScheduleInv
<1>1. loan \in Loan  BY AmountsAssumption DEF ScheduleInit, NoLoan, Loan, Amount
<1>2. ScheduleSound(0)
  <2>1. lines = << >> /\ lines \in Seq(Line) /\ Len(lines) = 0  BY DEF ScheduleInit
  <2> QED  BY <2>1 DEF ScheduleSound
<1> QED  BY <1>1, <1>2 DEF ScheduleInv, ScheduleInit

LEMMA SchedulesKept ==
    ASSUME ScheduleInv, ScheduleNext \/ UNCHANGED scheduleVars
    PROVE  ScheduleInv'
<1>1. CASE UNCHANGED scheduleVars
  BY <1>1 DEF scheduleVars, ScheduleInv, ScheduleSound, Divided
<1>2. CASE ScheduleNext
  BY <1>2, BulletKeeps, EqualPrincipalKeeps, MarkPaidKeeps DEF ScheduleNext
<1> QED  BY <1>1, <1>2

(***************************************************************************)
(* InstalmentsExact: whichever builder made it, and whatever was paid, a   *)
(* schedule repays the loan to the unit, in order and up to its maturity.  *)
(***************************************************************************)
THEOREM InstalmentsAddUp == DeskSpec => []InstalmentsExact
<1>1. DeskInit => ScheduleInv
  BY SchedulesStart DEF DeskInit
<1>2. ScheduleInv /\ [DeskNext]_deskVars => ScheduleInv'
  BY DeskMoves, SchedulesKept
<1>3. ScheduleInv => InstalmentsExact  BY SoundIsExact
<1> QED  BY <1>1, <1>2, <1>3, PTL DEF DeskSpec

---------------------------------------------------------------------------
\* Reports

LEMMA DisjointSize ==
    ASSUME NEW P, NEW Q, IsFiniteSet(P), IsFiniteSet(Q), P \cap Q = {}
    PROVE  Cardinality(P \cup Q) = Cardinality(P) + Cardinality(Q)
<1>1. Cardinality(P \cup Q) = Cardinality(P) + Cardinality(Q) - Cardinality(P \cap Q)
  BY FS_Union
<1>2. Cardinality(P \cap Q) = 0  BY FS_EmptySet
<1>3. Cardinality(P) \in Nat /\ Cardinality(Q) \in Nat  BY FS_CardinalityType
<1> QED  BY <1>1, <1>2, <1>3

\* The `+` of Amount, which saturates.
LEMMA CappedIs ==
    ASSUME NEW x \in Nat
    PROVE  /\ Capped(x) \in Amount /\ Capped(x) \in Nat /\ Capped(x) <= x
           /\ x = 0 => Capped(x) = 0
           /\ \A y \in Nat : x <= y => Capped(x) <= Capped(y)
  BY AmountsAssumption DEF Capped, Fits, Amount

\* Additions may be capped one by one or at the end.
LEMMA CappedAdds ==
    ASSUME NEW x \in Nat, NEW y \in Nat
    PROVE  /\ Capped(x + Capped(y)) = Capped(x + y)
           /\ Capped(Capped(x) + y) = Capped(x + y)
           /\ Fits(Capped(x) + Capped(y)) => Capped(x) + Capped(y) = Capped(x + y)
  BY AmountsAssumption DEF Capped, Fits

LEMMA CappedSum ==
    ASSUME NEW S, IsFiniteSet(S), NEW f, NEW g,
           \A i \in S : f[i] \in Nat /\ g[i] = Capped(f[i])
    PROVE  Capped(SumOver(g, S)) = Capped(SumOver(f, S))
<1> DEFINE W == {s \in SUBSET S : Capped(SumOver(g, s)) = Capped(SumOver(f, s))}
<1>1. {} \in W  BY SumEmpty
<1>2. ASSUME NEW s \in SUBSET S, s # {}, \A x \in s : s \ {x} \in W PROVE s \in W
  <2> PICK x \in s : TRUE  BY <1>2
  <2> DEFINE F == SumOver(f, s \ {x})
             G == SumOver(g, s \ {x})
  <2>1. IsFiniteSet(s) /\ IsFiniteSet(s \ {x})  BY FS_Subset
  <2>2. \A i \in s : f[i] \in Nat /\ g[i] \in Nat /\ g[i] = Capped(f[i])
    BY CappedIs
  <2>3. F \in Nat /\ G \in Nat  BY <2>1, <2>2, SumOverNat
  <2>4. SumOver(f, s) = f[x] + F /\ SumOver(g, s) = g[x] + G  BY <2>1, <2>2, SumSplit
  <2>5. Capped(G) = Capped(F)  BY <1>2
  <2> HIDE DEF F, G
  <2>6. Capped(Capped(f[x]) + G) = Capped(f[x] + G)  BY <2>2, <2>3, CappedAdds
  <2>7. Capped(f[x] + G) = Capped(f[x] + Capped(G))  BY <2>2, <2>3, CappedAdds
  <2>8. Capped(f[x] + F) = Capped(f[x] + Capped(F))  BY <2>2, <2>3, CappedAdds
  <2> QED  BY <2>2, <2>4, <2>5, <2>6, <2>7, <2>8
<1> HIDE DEF W
<1>3. S \in W  BY <1>1, <1>2, SubsetInduction
<1> QED  BY <1>3 DEF W

\* The groups of S, one for each member of B, divide it up.
DividesUp(group, B, S) ==
    /\ \A b \in B : group[b] \subseteq S
    /\ \A b, c \in B : b # c => group[b] \cap group[c] = {}
    /\ \A i \in S : \E b \in B : i \in group[b]

\* Totals by group, each capped, come to the same capped total.
LEMMA CappedGroups ==
    ASSUME NEW B, IsFiniteSet(B), NEW S, IsFiniteSet(S), NEW f, NEW g, NEW group,
           \A i \in S : f[i] \in Nat,
           DividesUp(group, B, S),
           \A b \in B : g[b] = Capped(SumOver(f, group[b]))
    PROVE  Capped(SumOver(g, B)) = Capped(SumOver(f, S))
<1> DEFINE sums == [b \in B |-> SumOver(f, group[b])]
<1>1. ASSUME NEW b \in B
      PROVE  sums[b] \in Nat /\ g[b] = Capped(sums[b])
  <2>1. IsFiniteSet(group[b])  BY FS_Subset DEF DividesUp
  <2>2. \A i \in group[b] : f[i] \in Nat  BY DEF DividesUp
  <2>3. SumOver(f, group[b]) \in Nat  BY <2>1, <2>2, SumOverNat
  <2> QED  BY <2>3
<1>2. \A b \in B : group[b] \subseteq S /\ sums[b] = SumOver(f, group[b])
  BY DEF DividesUp
<1> HIDE DEF sums
<1>3. Capped(SumOver(g, B)) = Capped(SumOver(sums, B))  BY <1>1, CappedSum
<1>4. SumOver(sums, B) = SumOver(f, S)  BY <1>2, SumGroups DEF DividesUp
<1> QED  BY <1>3, <1>4

(***************************************************************************)
(* A report stands for intakes, each a view, an epoch and a call.  What it *)
(* tells of a set of them: the open ones, those in a bucket, and their     *)
(* sum.                                                                    *)
(***************************************************************************)
Intakes(v) == (DOMAIN v) \X (0 .. LastEpoch) \X Nat
OpenOf(v, C) == {c \in C : Open(v[c[1]])}
LateUnder(v, C, b) ==
    {c \in C : /\ IsLateAt(v[c[1]], c[2])
               /\ InBucket(b, SaturatingSub(c[2], v[c[1]].maturity))}
SumIn(v, C) == SumOver([c \in C |-> v[c[1]].principal], C)

\* A report whose total is that of the intakes in C, and one whose buckets
\* hold those in C.
TotalIs(v, report, C) == report.principal = Capped(SumIn(v, OpenOf(v, C)))
BucketsHold(v, report, C) ==
    \A b \in Buckets :
        /\ report.late[b].principal = Capped(SumIn(v, LateUnder(v, C, b)))
        /\ report.late[b].positions = Cardinality(LateUnder(v, C, b))

LEMMA ViewTyped ==
    ASSUME NEW v \in Seq(View), NEW i \in DOMAIN v
    PROVE  /\ v[i] \in View
           /\ v[i].principal \in Nat /\ v[i].maturity \in Nat
           /\ v[i].pending_interest \in Nat /\ v[i].pending_penalty \in Nat
<1>1. v[i] \in View  BY ElementOfSeq
<1>2. \A x \in View : /\ x.principal \in Nat /\ x.maturity \in Nat
                      /\ x.pending_interest \in Nat /\ x.pending_penalty \in Nat
  BY AmountIffFits DEF View
<1> QED  BY <1>1, <1>2

\* The sum over intakes is that over a part of them, and adds up over parts.
LEMMA SumInIs ==
    ASSUME NEW v \in Seq(View), NEW C \in SUBSET Intakes(v), IsFiniteSet(C)
    PROVE  /\ SumIn(v, C) \in Nat
           /\ \A T \in SUBSET C :
                /\ SumIn(v, T) = SumOver([c \in C |-> v[c[1]].principal], T)
                /\ SumIn(v, T) <= SumIn(v, C) /\ IsFiniteSet(T)
           /\ \A c \in C : [d \in C |-> v[d[1]].principal][c] \in Nat
<1> DEFINE f == [c \in C |-> v[c[1]].principal]
<1>1. \A c \in C : f[c] \in Nat
  <2>1. \A c \in C : c[1] \in DOMAIN v  BY DEF Intakes
  <2> QED  BY <2>1, ViewTyped
<1>2. SumIn(v, C) = SumOver(f, C)  BY DEF SumIn
<1>3. ASSUME NEW T \in SUBSET C
      PROVE  SumIn(v, T) = SumOver(f, T) /\ IsFiniteSet(T)
  <2> DEFINE g == [c \in T |-> v[c[1]].principal]
  <2>1. \A c \in T : g[c] = f[c]  OBVIOUS
  <2>2. SumIn(v, T) = SumOver(g, T)  BY DEF SumIn
  <2>3. SumOver(g, T) = SumOver(f, T)
    <3> HIDE DEF f, g
    <3> QED  BY <2>1, SumSame
  <2> QED  BY <2>2, <2>3, FS_Subset
<1> HIDE DEF f
<1>4. SumOver(f, C) \in Nat  BY <1>1, SumOverNat
<1>5. \A T \in SUBSET C : SumOver(f, T) <= SumOver(f, C)  BY <1>1, SumPart
<1> QED  BY <1>1, <1>2, <1>3, <1>4, <1>5 DEF f

LEMMA SumInUnion ==
    ASSUME NEW v \in Seq(View), NEW C \in SUBSET Intakes(v), IsFiniteSet(C),
           NEW D \in SUBSET Intakes(v), IsFiniteSet(D), C \cap D = {}
    PROVE  SumIn(v, C \cup D) = SumIn(v, C) + SumIn(v, D)
<1> DEFINE f == [c \in C \cup D |-> v[c[1]].principal]
<1>1. IsFiniteSet(C \cup D) /\ C \cup D \subseteq Intakes(v)  BY FS_Union
<1>2. \A c \in C \cup D : f[c] \in Nat  BY <1>1, SumInIs
<1>3. /\ SumIn(v, C) = SumOver(f, C) /\ SumIn(v, D) = SumOver(f, D)
      /\ SumIn(v, C \cup D) = SumOver(f, C \cup D)
  <2>1. C \in SUBSET (C \cup D) /\ D \in SUBSET (C \cup D) /\ C \cup D \in SUBSET (C \cup D)
    OBVIOUS
  <2> QED  BY <1>1, <2>1, SumInIs
<1> HIDE DEF f
<1> QED  BY <1>2, <1>3, SumUnion

\* The views in Q, all taken in at epoch e by call n.
LEMMA TakenAt ==
    ASSUME NEW v \in Seq(View), NEW Q \in SUBSET DOMAIN v, NEW e \in 0 .. LastEpoch,
           NEW n \in Nat
    PROVE  /\ IsFiniteSet(Q) /\ IsFiniteSet(Intake(Q, e, n))
           /\ Intake(Q, e, n) \in SUBSET Intakes(v)
           /\ Cardinality(Intake(Q, e, n)) = Cardinality(Q)
           /\ SumIn(v, Intake(Q, e, n)) = SumOver([i \in Q |-> v[i].principal], Q)
<1> DEFINE C == Intake(Q, e, n)
           h == [i \in Q |-> <<i, e, n>>]
           f == [i \in Q |-> v[i].principal]
           g == [c \in C |-> v[c[1]].principal]
<1>1. IsFiniteSet(Q)
  <2>1. DOMAIN v = 1 .. Len(v) /\ Len(v) \in Nat  BY LenProperties
  <2>2. IsFiniteSet(1 .. Len(v))  BY <2>1, FS_Interval
  <2> QED  BY <2>1, <2>2, FS_Subset
<1>2. h \in Bijection(Q, C)
  <2>1. h \in [Q -> C]  BY DEF Intake
  <2>2. \A i, j \in Q : h[i] = h[j] => i = j  OBVIOUS
  <2>3. \A c \in C : \E i \in Q : h[i] = c  BY DEF Intake
  <2> HIDE DEF h, C
  <2> QED  BY <2>1, <2>2, <2>3 DEF Bijection, Injection, Surjection, IsInjective
<1>3. \A i \in Q : f[i] \in Nat /\ g[h[i]] = f[i]
  <2>1. \A i \in Q : f[i] = v[i].principal /\ g[h[i]] = v[i].principal
    BY DEF Intake
  <2>2. \A i \in Q : v[i].principal \in Nat  BY ViewTyped
  <2> HIDE DEF f, g, h
  <2> QED  BY <2>1, <2>2
<1>4. C \in SUBSET Intakes(v)  BY DEF Intakes, Intake
<1>5. SumIn(v, C) = SumOver(g, C)  BY DEF SumIn
<1> HIDE DEF C, h, f, g
<1>6. IsFiniteSet(C) /\ Cardinality(C) = Cardinality(Q)
  BY <1>1, <1>2, FS_Bijection DEF ExistsBijection
<1>7. SumOver(g, C) = SumOver(f, Q)  BY <1>1, <1>2, <1>3, <1>6, SumRename
<1> QED  BY <1>1, <1>4, <1>5, <1>6, <1>7 DEF C, f

\* What the totals of a portfolio come to: by pool and by account alike, they
\* are the total of the open positions.
LEMMA PortfolioTotal ==
    ASSUME views \in Seq(View), NEW S \in SUBSET DOMAIN views
    PROVE  /\ TotalPrincipal(S) = PrincipalOf(OpenIn(S))
           /\ Capped(SumOver([a \in AccountsIn(S) |-> PrincipalOf(OfAccount(S, a))],
                             AccountsIn(S))) = PrincipalOf(OpenIn(S))
           /\ PrincipalOf(OpenIn(S)) \in Nat
           /\ IsFiniteSet(AccountsIn(S)) /\ IsFiniteSet(PoolsIn(S)) /\ IsFiniteSet(OpenIn(S))
<1> DEFINE Q == OpenIn(S)
           f == [i \in Q |-> views[i].principal]
<1>1. IsFiniteSet(Q) /\ Q \subseteq DOMAIN views /\ \A i \in Q : f[i] \in Nat
  <2>1. Q \subseteq DOMAIN views  BY DEF OpenIn
  <2>2. DOMAIN views = 1 .. Len(views) /\ Len(views) \in Nat  BY LenProperties
  <2>3. IsFiniteSet(1 .. Len(views))  BY <2>2, FS_Interval
  <2> QED  BY <2>1, <2>2, <2>3, ViewTyped, FS_Subset
<1>2. ASSUME NEW T \in SUBSET Q
      PROVE  PrincipalOf(T) = Capped(SumOver(f, T))
  <2> DEFINE g == [i \in T |-> views[i].principal]
  <2>1. \A i \in T : g[i] = f[i]  OBVIOUS
  <2>2. PrincipalOf(T) = Capped(SumOver(g, T))  BY DEF PrincipalOf
  <2> HIDE DEF f, g
  <2>3. SumOver(g, T) = SumOver(f, T)  BY <2>1, SumSame
  <2> QED  BY <2>2, <2>3
<1>3. SumOver(f, Q) \in Nat  BY <1>1, SumOverNat
<1>4. PrincipalOf(Q) = Capped(SumOver(f, Q)) /\ PrincipalOf(Q) \in Nat
  BY <1>2, <1>3, CappedIs
<1>5. IsFiniteSet(PoolsIn(S)) /\ IsFiniteSet(AccountsIn(S))
  <2> DEFINE p == [i \in Q |-> views[i].pool]
             a == [i \in Q |-> views[i].account]
  <2>1. p \in Surjection(Q, PoolsIn(S)) /\ a \in Surjection(Q, AccountsIn(S))
    BY DEF Surjection, PoolsIn, AccountsIn
  <2> HIDE DEF p, a
  <2> QED  BY <1>1, <2>1, FS_Surjection
<1>6. TotalPrincipal(S) = Capped(SumOver(f, Q))
  <2> DEFINE group == [p \in PoolsIn(S) |-> OfPool(S, p)]
             g == [p \in PoolsIn(S) |-> PoolRollup(S, p).principal]
  <2>1. ASSUME NEW p \in PoolsIn(S)
        PROVE  group[p] \subseteq Q /\ g[p] = Capped(SumOver(f, group[p]))
    <3>1. OfPool(S, p) \subseteq Q  BY DEF OfPool
    <3>2. PoolRollup(S, p).principal = PrincipalOf(OfPool(S, p))  BY DEF PoolRollup
    <3> HIDE DEF f
    <3> QED  BY <1>2, <3>1, <3>2
  <2>2. \A p, q \in PoolsIn(S) : p # q => group[p] \cap group[q] = {}  BY DEF OfPool
  <2>3. \A i \in Q : \E p \in PoolsIn(S) : i \in group[p]
    <3> SUFFICES ASSUME NEW i \in Q PROVE \E p \in PoolsIn(S) : i \in group[p]
      OBVIOUS
    <3>1. views[i].pool \in PoolsIn(S) /\ i \in OfPool(S, views[i].pool)
      BY DEF PoolsIn, OfPool
    <3> QED  BY <3>1
  <2>4. TotalPrincipal(S) = Capped(SumOver(g, PoolsIn(S)))  BY DEF TotalPrincipal
  <2> HIDE DEF Q, f, g, group
  <2>5. DividesUp(group, PoolsIn(S), Q)  BY <2>1, <2>2, <2>3 DEF DividesUp
  <2> QED  BY <1>1, <1>5, <2>1, <2>4, <2>5, CappedGroups
<1>7. Capped(SumOver([a \in AccountsIn(S) |-> PrincipalOf(OfAccount(S, a))], AccountsIn(S)))
        = Capped(SumOver(f, Q))
  <2> DEFINE group == [a \in AccountsIn(S) |-> OfAccount(S, a)]
             g == [a \in AccountsIn(S) |-> PrincipalOf(OfAccount(S, a))]
  <2>1. ASSUME NEW a \in AccountsIn(S)
        PROVE  group[a] \subseteq Q /\ g[a] = Capped(SumOver(f, group[a]))
    <3>1. OfAccount(S, a) \subseteq Q  BY DEF OfAccount
    <3> HIDE DEF f
    <3> QED  BY <1>2, <3>1
  <2>2. \A a, b \in AccountsIn(S) : a # b => group[a] \cap group[b] = {}  BY DEF OfAccount
  <2>3. \A i \in Q : \E a \in AccountsIn(S) : i \in group[a]
    <3> SUFFICES ASSUME NEW i \in Q PROVE \E a \in AccountsIn(S) : i \in group[a]
      OBVIOUS
    <3>1. views[i].account \in AccountsIn(S) /\ i \in OfAccount(S, views[i].account)
      BY DEF AccountsIn, OfAccount
    <3> QED  BY <3>1
  <2> HIDE DEF Q, f, g, group
  <2>4. DividesUp(group, AccountsIn(S), Q)  BY <2>1, <2>2, <2>3 DEF DividesUp
  <2>5. Capped(SumOver(g, AccountsIn(S))) = Capped(SumOver(f, Q))
    <3>1. \A a \in AccountsIn(S) : g[a] = Capped(SumOver(f, group[a]))  BY <2>1
    <3>2. IsFiniteSet(AccountsIn(S)) /\ IsFiniteSet(Q) /\ \A i \in Q : f[i] \in Nat
      BY <1>1, <1>5
    <3> QED  BY <3>1, <3>2, <2>4, CappedGroups
  <2> QED  BY <2>5 DEF g
<1> QED  BY <1>1, <1>4, <1>5, <1>6, <1>7

\* The late ones, in any bucket.
LateAll(v, C) == {c \in C : IsLateAt(v[c[1]], c[2])}

\* Every late intake is in one bucket.
LEMMA BucketsDivide ==
    ASSUME NEW v \in Seq(View), NEW C \in SUBSET Intakes(v)
    PROVE  /\ DividesUp([b \in Buckets |-> LateUnder(v, C, b)], Buckets, LateAll(v, C))
           /\ LateAll(v, C) \subseteq OpenOf(v, C)
<1> DEFINE group == [b \in Buckets |-> LateUnder(v, C, b)]
<1>1. \A b \in Buckets : b.first \in Nat /\ b.last \in Nat
  BY ReportsAssumption DEF Bucket
<1>2. ASSUME NEW c \in LateAll(v, C)
      PROVE  SaturatingSub(c[2], v[c[1]].maturity) \in 1 .. LastEpoch
  <2>1. c[1] \in DOMAIN v /\ c[2] \in 0 .. LastEpoch /\ c[2] > v[c[1]].maturity
    BY DEF LateAll, Intakes, IsLateAt
  <2>2. v[c[1]].maturity \in Nat  BY <2>1, ViewTyped
  <2> QED  BY <2>1, <2>2, ClockAssumption DEF SaturatingSub
<1>3. \A b \in Buckets : group[b] \subseteq LateAll(v, C)  BY DEF LateUnder, LateAll
<1>4. ASSUME NEW b \in Buckets, NEW d \in Buckets, b # d
      PROVE  group[b] \cap group[d] = {}
  <2> SUFFICES ASSUME NEW c, c \in group[b], c \in group[d] PROVE FALSE
    OBVIOUS
  <2> DEFINE n == SaturatingSub(c[2], v[c[1]].maturity)
  <2>1. b.first <= n /\ n <= b.last /\ d.first <= n /\ n <= d.last
    BY DEF LateUnder, InBucket
  <2>2. n \in Nat  BY <1>2, <1>3, <1>4
  <2>3. b.last < d.first \/ d.last < b.first  BY <1>4, ReportsAssumption
  <2> HIDE DEF n
  <2> QED  BY <1>1, <2>1, <2>2, <2>3
<1>5. ASSUME NEW c \in LateAll(v, C)
      PROVE  \E b \in Buckets : c \in group[b]
  <2>1. PICK b \in Buckets : InBucket(b, SaturatingSub(c[2], v[c[1]].maturity))
    BY <1>2, ReportsAssumption DEF InBucket
  <2>2. c \in LateUnder(v, C, b)  BY <2>1 DEF LateUnder, LateAll
  <2> QED  BY <2>2
<1>6. LateAll(v, C) \subseteq OpenOf(v, C)  BY DEF LateAll, OpenOf, IsLateAt
<1> HIDE DEF group
<1>7. DividesUp(group, Buckets, LateAll(v, C))  BY <1>3, <1>4, <1>5 DEF DividesUp
<1> QED  BY <1>6, <1>7 DEF group

\* What the buckets of a report tell of the intakes in C as a whole.
LEMMA BucketsAddUp ==
    ASSUME NEW v \in Seq(View), NEW C \in SUBSET Intakes(v), IsFiniteSet(C),
           NEW report, BucketsHold(v, report, C)
    PROVE  /\ AtRisk(report) = Capped(SumIn(v, LateAll(v, C)))
           /\ LatePositions(report) = Cardinality(LateAll(v, C))
           /\ \A D \in SUBSET Intakes(v) :
                C \subseteq D /\ IsFiniteSet(D) /\ TotalIs(v, report, D)
                  => AtRisk(report) <= report.principal
<1> DEFINE late == LateAll(v, C)
           f == [c \in C |-> v[c[1]].principal]
           group == [b \in Buckets |-> LateUnder(v, C, b)]
           g == [b \in Buckets |-> report.late[b].principal]
           n == [b \in Buckets |-> report.late[b].positions]
<1>1. IsFiniteSet(late) /\ late \in SUBSET C  BY FS_Subset DEF LateAll
<1>2. \A c \in late : f[c] \in Nat  BY <1>1, SumInIs
<1>3. DividesUp(group, Buckets, late)  BY BucketsDivide
<1>4. IsFiniteSet(Buckets)  BY ReportsAssumption
<1>5. ASSUME NEW b \in Buckets
      PROVE  g[b] = Capped(SumOver(f, group[b])) /\ n[b] = Cardinality(group[b])
  <2>1. group[b] \in SUBSET C /\ group[b] = LateUnder(v, C, b)  BY DEF LateUnder
  <2>2. SumIn(v, LateUnder(v, C, b)) = SumOver(f, group[b])  BY <2>1, SumInIs
  <2>3. g[b] = report.late[b].principal /\ n[b] = report.late[b].positions  OBVIOUS
  <2> QED  BY <2>1, <2>2, <2>3 DEF BucketsHold
<1>6. SumIn(v, late) = SumOver(f, late)  BY <1>1, SumInIs
<1>7. AtRisk(report) = Capped(SumOver(g, Buckets))  BY DEF AtRisk
<1>8. LatePositions(report) = SumOver(n, Buckets)  BY DEF LatePositions
<1> HIDE DEF f, group, g, n
<1>9. Capped(SumOver(g, Buckets)) = Capped(SumOver(f, late))
  BY <1>1, <1>2, <1>3, <1>4, <1>5, CappedGroups
<1>10. SumOver(n, Buckets) = Cardinality(late)
  BY <1>1, <1>3, <1>4, <1>5, GroupSizes DEF DividesUp
<1>11. ASSUME NEW D \in SUBSET Intakes(v), C \subseteq D, IsFiniteSet(D)
       PROVE  Capped(SumIn(v, late)) <= Capped(SumIn(v, OpenOf(v, D)))
  <2> DEFINE x == SumIn(v, late)
             y == SumIn(v, OpenOf(v, D))
  <2>1. OpenOf(v, D) \in SUBSET D /\ late \subseteq OpenOf(v, D)
    BY <1>11, BucketsDivide DEF OpenOf
  <2>2. OpenOf(v, D) \in SUBSET Intakes(v) /\ IsFiniteSet(OpenOf(v, D))
    BY <1>11, <2>1, SumInIs
  <2>3. x \in Nat /\ y \in Nat /\ x <= y  BY <1>1, <2>1, <2>2, SumInIs
  <2> HIDE DEF x, y
  <2> QED  BY <2>3, CappedIs DEF x, y
<1> QED  BY <1>6, <1>7, <1>8, <1>9, <1>10, <1>11 DEF TotalIs

\* A new report tells the truth of no views at all.
LEMMA NewTruthful ==
    ASSUME NEW v \in Seq(View), NEW e
    PROVE  TotalIs(v, NewReport(e), {}) /\ BucketsHold(v, NewReport(e), {})
<1>1. OpenOf(v, {}) = {} /\ \A b \in Buckets : LateUnder(v, {}, b) = {}
  BY DEF OpenOf, LateUnder
<1>2. SumIn(v, {}) = 0 /\ Capped(0) = 0  BY SumEmpty, CappedIs DEF SumIn
<1>3. Cardinality({}) = 0  BY FS_EmptySet
<1> QED  BY <1>1, <1>2, <1>3 DEF TotalIs, BucketsHold, NewReport

\* What the intake of the views in Q comes to.
LEMMA IntakeSums ==
    ASSUME views \in Seq(View), NEW Q \in SUBSET DOMAIN views,
           NEW e \in 0 .. LastEpoch, NEW n \in Nat
    PROVE  /\ PrincipalOf(Q) = Capped(SumIn(views, Intake(Q, e, n)))
           /\ Cardinality(Q) = Cardinality(Intake(Q, e, n)) /\ Cardinality(Q) \in Nat
           /\ SumIn(views, Intake(Q, e, n)) \in Nat
           /\ Intake(Q, e, n) \in SUBSET Intakes(views) /\ IsFiniteSet(Intake(Q, e, n))
<1>1. /\ SumIn(views, Intake(Q, e, n)) = SumOver([i \in Q |-> views[i].principal], Q)
      /\ Cardinality(Q) = Cardinality(Intake(Q, e, n)) /\ Cardinality(Q) \in Nat
      /\ Intake(Q, e, n) \in SUBSET Intakes(views) /\ IsFiniteSet(Intake(Q, e, n))
  BY TakenAt, FS_CardinalityType
<1>2. SumIn(views, Intake(Q, e, n)) \in Nat  BY <1>1, SumInIs
<1> QED  BY <1>1, <1>2 DEF PrincipalOf

\* The total of a portfolio is that of what is taken in with it.
LEMMA TotalTaken ==
    ASSUME views \in Seq(View), NEW S \in SUBSET DOMAIN views,
           NEW e \in 0 .. LastEpoch, NEW n \in Nat
    PROVE  TotalPrincipal(S) = Capped(SumIn(views, OpenOf(views, Intake(S, e, n))))
<1>1. OpenOf(views, Intake(S, e, n)) = Intake(OpenIn(S), e, n)
  BY DEF OpenOf, OpenIn, Intake
<1>2. OpenIn(S) \in SUBSET DOMAIN views  BY DEF OpenIn
<1> QED  BY <1>1, <1>2, IntakeSums, PortfolioTotal

\* The buckets of a report that takes a portfolio in hold it as well as what
\* they held before.
LEMMA IngestedTruthful ==
    ASSUME views \in Seq(View), NEW report, report.generated \in 0 .. LastEpoch,
           DOMAIN report = DOMAIN NewReport(0), NEW n \in Nat,
           NEW S \in SUBSET DOMAIN views,
           NEW D \in SUBSET Intakes(views), IsFiniteSet(D),
           D \cap Intake(S, report.generated, n) = {},
           BucketsHold(views, report, D)
    PROVE  /\ TotalIs(views, Ingested(report, S), Intake(S, report.generated, n))
           /\ BucketsHold(views, Ingested(report, S), D \cup Intake(S, report.generated, n))
<1> DEFINE e == report.generated
           C == Intake(S, e, n)
           new == Ingested(report, S)
<1>1. /\ new.principal = TotalPrincipal(S)
      /\ \A b \in Buckets :
           /\ new.late[b].principal
                = Capped(report.late[b].principal + PrincipalOf(LateIn(S, b, e)))
           /\ new.late[b].positions
                = report.late[b].positions + Cardinality(LateIn(S, b, e))
  BY DEF Ingested, NewReport
<1>2. ASSUME NEW b \in Buckets
      PROVE  /\ LateUnder(views, C, b) = Intake(LateIn(S, b, e), e, n)
             /\ LateIn(S, b, e) \in SUBSET DOMAIN views
             /\ LateUnder(views, D \cup C, b) = LateUnder(views, D, b) \cup LateUnder(views, C, b)
             /\ LateUnder(views, D, b) \in SUBSET D /\ LateUnder(views, C, b) \in SUBSET C
  BY DEF LateUnder, LateIn, Intake
<1>3. C \in SUBSET Intakes(views) /\ IsFiniteSet(C) /\ D \cap C = {}  BY IntakeSums
<1>4. e \in 0 .. LastEpoch  OBVIOUS
<1> HIDE DEF new, e, C
<1>5. new.principal = Capped(SumIn(views, OpenOf(views, C)))
  BY <1>1, <1>4, TotalTaken DEF C
<1>6. ASSUME NEW b \in Buckets
      PROVE  /\ new.late[b].principal = Capped(SumIn(views, LateUnder(views, D \cup C, b)))
             /\ new.late[b].positions = Cardinality(LateUnder(views, D \cup C, b))
  <2> DEFINE L == LateIn(S, b, e)
             P == LateUnder(views, D, b)
             Q == LateUnder(views, C, b)
             x == SumIn(views, P)
             y == SumIn(views, Q)
  <2>1. /\ new.late[b].principal = Capped(Capped(x) + PrincipalOf(L))
        /\ new.late[b].positions = Cardinality(P) + Cardinality(L)
    <3>1. /\ report.late[b].principal = Capped(SumIn(views, LateUnder(views, D, b)))
          /\ report.late[b].positions = Cardinality(LateUnder(views, D, b))
      BY DEF BucketsHold
    <3> QED  BY <1>1, <3>1
  <2>2. /\ Q = Intake(L, e, n) /\ L \in SUBSET DOMAIN views
        /\ LateUnder(views, D \cup C, b) = P \cup Q
        /\ P \in SUBSET D /\ Q \in SUBSET C
    BY <1>2
  <2> HIDE DEF L, P, Q
  <2>3. /\ P \in SUBSET Intakes(views) /\ IsFiniteSet(P) /\ Q \in SUBSET Intakes(views)
        /\ IsFiniteSet(Q) /\ P \cap Q = {}
    BY <1>3, <2>2, FS_Subset
  <2>4. PrincipalOf(L) = Capped(y) /\ Cardinality(L) = Cardinality(Q)
    BY <1>4, <2>2, IntakeSums
  <2>5. x \in Nat /\ y \in Nat  BY <2>3, SumInIs
  <2>6. SumIn(views, P \cup Q) = x + y  BY <2>3, SumInUnion
  <2>7. Cardinality(P \cup Q) = Cardinality(P) + Cardinality(Q)  BY <2>3, DisjointSize
  <2> HIDE DEF x, y
  <2>8. Capped(Capped(x) + Capped(y)) = Capped(x + y)
    <3>1. Capped(x) \in Nat /\ Capped(Capped(x) + Capped(y)) = Capped(Capped(x) + y)
      BY <2>5, CappedIs, CappedAdds
    <3> QED  BY <2>5, <3>1, CappedAdds
  <2> QED  BY <2>1, <2>2, <2>4, <2>6, <2>7, <2>8
<1> QED  BY <1>5, <1>6 DEF TotalIs, BucketsHold, new, C, e

\* A merged report tells the truth of all that either of the two told of.
LEMMA MergedTruthful ==
    ASSUME NEW v \in Seq(View), NEW x, NEW y, DOMAIN x = DOMAIN NewReport(0),
           NEW C \in SUBSET Intakes(v), IsFiniteSet(C),
           NEW D \in SUBSET Intakes(v), IsFiniteSet(D),
           C \cap D = {}, MergeFits(x, y)
    PROVE  /\ TotalIs(v, x, C) /\ TotalIs(v, y, D) => TotalIs(v, Merged(x, y), C \cup D)
           /\ BucketsHold(v, x, C) /\ BucketsHold(v, y, D)
                => BucketsHold(v, Merged(x, y), C \cup D)
<1> DEFINE new == Merged(x, y)
<1>1. /\ new.principal = x.principal + y.principal
      /\ \A b \in Buckets :
           /\ new.late[b].principal = x.late[b].principal + y.late[b].principal
           /\ new.late[b].positions = x.late[b].positions + y.late[b].positions
  BY DEF Merged, NewReport
<1>2. ASSUME NEW P \in SUBSET C, NEW Q \in SUBSET D,
             Fits(Capped(SumIn(v, P)) + Capped(SumIn(v, Q)))
      PROVE  Capped(SumIn(v, P)) + Capped(SumIn(v, Q)) = Capped(SumIn(v, P \cup Q))
  <2>1. /\ P \in SUBSET Intakes(v) /\ IsFiniteSet(P) /\ Q \in SUBSET Intakes(v)
        /\ IsFiniteSet(Q) /\ P \cap Q = {}
    BY FS_Subset
  <2>2. SumIn(v, P) \in Nat /\ SumIn(v, Q) \in Nat  BY <2>1, SumInIs
  <2>3. SumIn(v, P \cup Q) = SumIn(v, P) + SumIn(v, Q)  BY <2>1, SumInUnion
  <2> QED  BY <1>2, <2>2, <2>3, CappedAdds
<1>3. ASSUME TotalIs(v, x, C), TotalIs(v, y, D)
      PROVE  new.principal = Capped(SumIn(v, OpenOf(v, C \cup D)))
  <2>1. /\ OpenOf(v, C \cup D) = OpenOf(v, C) \cup OpenOf(v, D)
        /\ OpenOf(v, C) \in SUBSET C /\ OpenOf(v, D) \in SUBSET D
    BY DEF OpenOf
  <2>2. /\ x.principal = Capped(SumIn(v, OpenOf(v, C)))
        /\ y.principal = Capped(SumIn(v, OpenOf(v, D)))
        /\ Fits(x.principal + y.principal)
    BY <1>3 DEF TotalIs, MergeFits
  <2> QED  BY <1>1, <1>2, <2>1, <2>2
<1>4. ASSUME BucketsHold(v, x, C), BucketsHold(v, y, D), NEW b \in Buckets
      PROVE  /\ new.late[b].principal = Capped(SumIn(v, LateUnder(v, C \cup D, b)))
             /\ new.late[b].positions = Cardinality(LateUnder(v, C \cup D, b))
  <2> DEFINE P == LateUnder(v, C, b)
             Q == LateUnder(v, D, b)
  <2>1. /\ LateUnder(v, C \cup D, b) = P \cup Q
        /\ P \in SUBSET C /\ Q \in SUBSET D
    BY DEF LateUnder
  <2>2. /\ x.late[b].principal = Capped(SumIn(v, P)) /\ x.late[b].positions = Cardinality(P)
        /\ y.late[b].principal = Capped(SumIn(v, Q)) /\ y.late[b].positions = Cardinality(Q)
        /\ Fits(x.late[b].principal + y.late[b].principal)
    BY <1>4 DEF BucketsHold, MergeFits
  <2> HIDE DEF P, Q
  <2>3. Cardinality(P \cup Q) = Cardinality(P) + Cardinality(Q)
    <3>1. IsFiniteSet(P) /\ IsFiniteSet(Q) /\ P \cap Q = {}  BY <2>1, FS_Subset
    <3> QED  BY <3>1, DisjointSize
  <2>4. x.late[b].principal + y.late[b].principal = Capped(SumIn(v, P \cup Q))
    BY <1>2, <2>1, <2>2
  <2> QED  BY <1>1, <2>1, <2>2, <2>3, <2>4
<1> QED  BY <1>3, <1>4 DEF TotalIs, BucketsHold, new

(***************************************************************************)
(* The inductive invariant: the totals and the buckets of every report     *)
(* tell of what the history says, calls are numbered as they come, and no  *)
(* intake is in the buckets, or the totals, of two reports, so that merged *)
(* reports add up.                                                         *)
(***************************************************************************)
Report ==
    [generated : 0 .. LastEpoch, principal : Nat, charges : Nat,
     late : [Buckets -> [principal : Nat, positions : Nat]]]

\* What reports stand for, in `cover`: intakes of views in v and calls below
\* n, none of them in two reports.
Covers(v, n, cover) ==
    /\ cover = [r \in ReportIds |-> cover[r]]
    /\ \A r \in ReportIds : /\ cover[r] \in SUBSET Intakes(v) /\ IsFiniteSet(cover[r])
                            /\ \A c \in cover[r] : c[3] < n
    /\ \A r, q \in ReportIds : r # q => cover[r] \cap cover[q] = {}

ReportsInv ==
    /\ views \in Seq(View) /\ calls \in Nat
    /\ reports \in [ReportIds -> Report]
    /\ Covers(views, calls, totalled) /\ Covers(views, calls, bucketed)
    /\ \A r \in ReportIds : /\ TotalIs(views, reports[r], totalled[r])
                            /\ BucketsHold(views, reports[r], bucketed[r])

\* A function of the reports with r changed to x and then, if another, q to y.
Replaced(f, r, q, x, y) ==
    [t \in ReportIds |-> IF t = r THEN x ELSE IF t = q THEN y ELSE f[t]]

\* One report changes to intakes that it, or a report that it leaves with
\* none, stood for, or of the current call.
LEMMA CoversMove ==
    ASSUME NEW v, NEW n \in Nat, NEW old, Covers(v, n, old),
           NEW r \in ReportIds, NEW q \in ReportIds,
           NEW C \in SUBSET Intakes(v), IsFiniteSet(C),
           \A c \in C : c \in old[r] \/ c \in old[q] \/ c[3] = n
    PROVE  Covers(v, n + 1, Replaced(old, r, q, C, {}))
<1> DEFINE cover == Replaced(old, r, q, C, {})
<1>0. /\ cover = [t \in ReportIds |-> cover[t]]
      /\ \A t \in ReportIds :
           cover[t] = IF t = r THEN C ELSE IF t = q THEN {} ELSE old[t]
  BY DEF Replaced
<1> HIDE DEF cover
<1>1. ASSUME NEW t \in ReportIds
      PROVE  /\ cover[t] \in SUBSET Intakes(v) /\ IsFiniteSet(cover[t])
             /\ \A c \in cover[t] : c[3] < n + 1
  <2>1. /\ old[t] \in SUBSET Intakes(v) /\ IsFiniteSet(old[t])
        /\ \A i \in ReportIds : \A c \in old[i] : c[3] < n
    BY DEF Covers
  <2>2. \A c \in Intakes(v) : c[3] \in Nat  BY DEF Intakes
  <2>3. \A c \in C : c[3] < n + 1  BY <2>1, <2>2
  <2>4. \A c \in old[t] : c[3] < n + 1  BY <2>1, <2>2
  <2> QED  BY <1>0, <2>1, <2>3, <2>4, FS_EmptySet
<1>2. ASSUME NEW t \in ReportIds, t # r
      PROVE  cover[t] \cap C = {}
  <2>1. \A c \in old[t] : c[3] < n /\ c[3] \in Nat
    BY DEF Covers, Intakes
  <2>2. old[t] \cap old[r] = {} /\ (t # q => old[t] \cap old[q] = {})
    BY <1>2 DEF Covers
  <2>3. ASSUME NEW c \in old[t] \cap C, t # q PROVE FALSE
    BY <2>1, <2>2, <2>3
  <2> QED  BY <1>0, <1>2, <2>3
<1>3. ASSUME NEW t \in ReportIds, NEW u \in ReportIds, t # u
      PROVE  cover[t] \cap cover[u] = {}
  <2>1. CASE t = r \/ u = r
    BY <1>0, <1>2, <1>3, <2>1
  <2>2. CASE t # r /\ u # r
    BY <1>0, <1>3, <2>2 DEF Covers
  <2> QED  BY <2>1, <2>2
<1>4. Covers(v, n + 1, cover)  BY <1>0, <1>1, <1>3 DEF Covers
<1> QED  BY <1>4 DEF cover

\* Later calls, more views.
LEMMA CoversStay ==
    ASSUME NEW v, NEW w, Intakes(v) \subseteq Intakes(w), NEW n, NEW cover,
           Covers(v, n, cover)
    PROVE  Covers(w, n, cover)
BY DEF Covers

LEMMA ReportTyped ==
    ASSUME NEW e \in 0 .. LastEpoch
    PROVE  /\ NewReport(e) \in Report
           /\ \A report \in Report :
                /\ DOMAIN report = DOMAIN NewReport(0)
                /\ report.generated \in 0 .. LastEpoch
  BY DEF NewReport, Report

LEMMA IngestedTyped ==
    ASSUME views \in Seq(View), NEW S \in SUBSET DOMAIN views, NEW report \in Report
    PROVE  /\ TotalPrincipal(S) \in Nat
           /\ Ingested(report, S) \in Report
<1>1. ASSUME NEW Q \in SUBSET DOMAIN views
      PROVE  /\ PrincipalOf(Q) \in Nat /\ InterestOf(Q) \in Nat /\ PenaltyOf(Q) \in Nat
             /\ Cardinality(Q) \in Nat
  <2> DEFINE f == [i \in Q |-> views[i].principal]
             g == [i \in Q |-> views[i].pending_interest]
             h == [i \in Q |-> views[i].pending_penalty]
  <2>1. IsFiniteSet(Q)
    <3>1. 0 \in 0 .. LastEpoch  BY ClockAssumption
    <3> QED  BY <3>1, TakenAt
  <2>2. \A i \in Q : f[i] \in Nat /\ g[i] \in Nat /\ h[i] \in Nat  BY ViewTyped
  <2>3. /\ PrincipalOf(Q) = Capped(SumOver(f, Q)) /\ InterestOf(Q) = Capped(SumOver(g, Q))
        /\ PenaltyOf(Q) = Capped(SumOver(h, Q))
    BY DEF PrincipalOf, InterestOf, PenaltyOf
  <2> HIDE DEF f, g, h
  <2>4. SumOver(f, Q) \in Nat /\ SumOver(g, Q) \in Nat /\ SumOver(h, Q) \in Nat
    BY <2>1, <2>2, SumOverNat
  <2> QED  BY <2>1, <2>3, <2>4, CappedIs, FS_CardinalityType
<1>2. TotalPrincipal(S) \in Nat
  <2>1. OpenIn(S) \in SUBSET DOMAIN views  BY DEF OpenIn
  <2> QED  BY <1>1, <2>1, PortfolioTotal
<1>3. TotalPending(S) \in Nat
  <2> DEFINE f == [p \in PoolsIn(S) |-> PoolRollup(S, p).pending]
  <2>1. ASSUME NEW p \in PoolsIn(S) PROVE f[p] \in Nat
    <3>1. OfPool(S, p) \in SUBSET DOMAIN views  BY DEF OfPool, OpenIn
    <3>2. f[p] = InterestOf(OfPool(S, p)) + PenaltyOf(OfPool(S, p))  BY DEF PoolRollup
    <3> HIDE DEF f
    <3> QED  BY <1>1, <3>1, <3>2
  <2>2. IsFiniteSet(PoolsIn(S))  BY PortfolioTotal
  <2>3. TotalPending(S) = SumOver(f, PoolsIn(S))  BY DEF TotalPending
  <2> HIDE DEF f
  <2> QED  BY <2>1, <2>2, <2>3, SumOverNat
<1>4. ASSUME NEW b \in Buckets
      PROVE  /\ Capped(report.late[b].principal
                       + PrincipalOf(LateIn(S, b, report.generated))) \in Nat
             /\ report.late[b].positions
                  + Cardinality(LateIn(S, b, report.generated)) \in Nat
  <2> DEFINE L == LateIn(S, b, report.generated)
  <2>1. L \in SUBSET DOMAIN views  BY DEF LateIn
  <2>2. report.late[b].principal \in Nat /\ report.late[b].positions \in Nat
    BY DEF Report
  <2> HIDE DEF L
  <2>3. PrincipalOf(L) \in Nat /\ Cardinality(L) \in Nat  BY <1>1, <2>1
  <2>4. /\ report.late[b].principal + PrincipalOf(L) \in Nat
        /\ report.late[b].positions + Cardinality(L) \in Nat
    <3> DEFINE x == report.late[b].principal
               y == report.late[b].positions
    <3>1. x \in Nat /\ y \in Nat  BY <2>2
    <3> HIDE DEF x, y
    <3>2. x + PrincipalOf(L) \in Nat /\ y + Cardinality(L) \in Nat  BY <2>3, <3>1
    <3> QED  BY <3>2 DEF x, y
  <2>5. Capped(report.late[b].principal + PrincipalOf(L)) \in Nat  BY <2>4, CappedIs
  <2> QED  BY <2>4, <2>5 DEF L
<1> QED  BY <1>2, <1>3, <1>4 DEF Ingested, Report

LEMMA MergedTyped ==
    ASSUME NEW x \in Report, NEW y \in Report
    PROVE  Merged(x, y) \in Report
<1>1. \A b \in Buckets : /\ x.late[b].principal + y.late[b].principal \in Nat
                         /\ x.late[b].positions + y.late[b].positions \in Nat
  BY DEF Report
<1>2. x.principal + y.principal \in Nat /\ x.charges + y.charges \in Nat
  BY DEF Report
<1> QED  BY <1>1, <1>2 DEF Merged, Report

\* More views change nothing of what is told of the earlier ones.
LEMMA ViewsAdded ==
    ASSUME NEW v \in Seq(View), NEW x \in View, NEW C \in SUBSET Intakes(v)
    PROVE  /\ Append(v, x) \in Seq(View)
           /\ Intakes(v) \subseteq Intakes(Append(v, x))
           /\ \A report :
                /\ TotalIs(v, report, C) => TotalIs(Append(v, x), report, C)
                /\ BucketsHold(v, report, C) => BucketsHold(Append(v, x), report, C)
<1> DEFINE w == Append(v, x)
<1>1. w \in Seq(View) /\ DOMAIN v \subseteq DOMAIN w /\ \A i \in DOMAIN v : w[i] = v[i]
  <2>1. Len(v) \in Nat /\ DOMAIN v = 1 .. Len(v)  BY LenProperties
  <2>2. w \in Seq(View) /\ Len(w) = Len(v) + 1 /\ DOMAIN w = 1 .. Len(w)
    BY AppendProperties, LenProperties
  <2>3. \A i \in 1 .. Len(v) : w[i] = v[i]  BY AppendProperties
  <2> QED  BY <2>1, <2>2, <2>3
<1> HIDE DEF w
<1>2. \A c \in C : w[c[1]] = v[c[1]]  BY <1>1 DEF Intakes
<1>3. OpenOf(w, C) = OpenOf(v, C) /\ \A b \in Buckets : LateUnder(w, C, b) = LateUnder(v, C, b)
  BY <1>2 DEF OpenOf, LateUnder
<1>4. ASSUME NEW D \in SUBSET C PROVE SumIn(w, D) = SumIn(v, D)
  BY <1>2, SumSame DEF SumIn
<1>5. OpenOf(v, C) \in SUBSET C /\ \A b \in Buckets : LateUnder(v, C, b) \in SUBSET C
  BY DEF OpenOf, LateUnder
<1>6. \A report : /\ TotalIs(v, report, C) => TotalIs(w, report, C)
                  /\ BucketsHold(v, report, C) => BucketsHold(w, report, C)
  BY <1>3, <1>4, <1>5 DEF TotalIs, BucketsHold
<1>7. Intakes(v) \subseteq Intakes(w)  BY <1>1 DEF Intakes
<1> QED  BY <1>1, <1>6, <1>7 DEF w

LEMMA AddViewKeeps ==
    ASSUME ReportsInv, NEW v \in ViewOptions, AddView(v)
    PROVE  ReportsInv'
<1>1. v \in View /\ views' = Append(views, v)  BY ReportsAssumption DEF AddView
<1>2. UNCHANGED <<reports, calls, totalled, bucketed>>  BY DEF AddView
<1>3. views \in Seq(View)  BY DEF ReportsInv
<1>4. views' \in Seq(View) /\ Intakes(views) \subseteq Intakes(views')
  <2>1. {} \in SUBSET Intakes(views)  OBVIOUS
  <2> QED  BY <1>1, <1>3, <2>1, ViewsAdded
<1>5. Covers(views', calls, totalled) /\ Covers(views', calls, bucketed)
  BY <1>4, CoversStay DEF ReportsInv
<1>6. ASSUME NEW r \in ReportIds
      PROVE  /\ TotalIs(views', reports[r], totalled[r])
             /\ BucketsHold(views', reports[r], bucketed[r])
  <2>1. totalled[r] \in SUBSET Intakes(views) /\ bucketed[r] \in SUBSET Intakes(views)
    BY DEF ReportsInv, Covers
  <2>2. TotalIs(views, reports[r], totalled[r]) /\ BucketsHold(views, reports[r], bucketed[r])
    BY DEF ReportsInv
  <2> QED  BY <1>1, <1>3, <2>1, <2>2, ViewsAdded
<1> QED  BY <1>2, <1>4, <1>5, <1>6 DEF ReportsInv

\* What a step must show of the reports it changes.
LEMMA ReportsMove ==
    ASSUME ReportsInv, views' = views, calls' = calls + 1,
           NEW r \in ReportIds, NEW q \in ReportIds,
           NEW x \in Report, NEW y \in Report,
           NEW C \in SUBSET Intakes(views), IsFiniteSet(C), TotalIs(views, x, C),
           \A c \in C : c \in totalled[r] \/ c \in totalled[q] \/ c[3] = calls,
           NEW D \in SUBSET Intakes(views), IsFiniteSet(D), BucketsHold(views, x, D),
           \A c \in D : c \in bucketed[r] \/ c \in bucketed[q] \/ c[3] = calls,
           q # r => TotalIs(views, y, {}) /\ BucketsHold(views, y, {}),
           reports' = Replaced(reports, r, q, x, y),
           totalled' = Replaced(totalled, r, q, C, {}),
           bucketed' = Replaced(bucketed, r, q, D, {})
    PROVE  ReportsInv'
<1>1. calls \in Nat /\ calls' \in Nat /\ views' \in Seq(View)  BY DEF ReportsInv
<1>2. Covers(views', calls', totalled') /\ Covers(views', calls', bucketed')
  <2>1. Covers(views, calls, totalled) /\ Covers(views, calls, bucketed)
    BY DEF ReportsInv
  <2>2. Covers(views, calls + 1, totalled')  BY <1>1, <2>1, CoversMove
  <2>3. Covers(views, calls + 1, bucketed')  BY <1>1, <2>1, CoversMove
  <2> QED  BY <2>2, <2>3
<1>3. reports' \in [ReportIds -> Report]  BY DEF ReportsInv, Replaced
<1>4. ASSUME NEW t \in ReportIds
      PROVE  /\ TotalIs(views', reports'[t], totalled'[t])
             /\ BucketsHold(views', reports'[t], bucketed'[t])
  <2>1. TotalIs(views, reports[t], totalled[t]) /\ BucketsHold(views, reports[t], bucketed[t])
    BY DEF ReportsInv
  <2>2. CASE t = r
    <3>1. reports'[t] = x /\ totalled'[t] = C /\ bucketed'[t] = D  BY <2>2 DEF Replaced
    <3> QED  BY <3>1
  <2>3. CASE t # r /\ t = q
    <3>1. reports'[t] = y /\ totalled'[t] = {} /\ bucketed'[t] = {}
      BY <2>3 DEF Replaced
    <3> QED  BY <2>3, <3>1
  <2>4. CASE t # r /\ t # q
    <3>1. /\ reports'[t] = reports[t] /\ totalled'[t] = totalled[t]
          /\ bucketed'[t] = bucketed[t]
      BY <2>4 DEF Replaced
    <3> QED  BY <2>1, <3>1
  <2> QED  BY <2>2, <2>3, <2>4
<1> QED  BY <1>1, <1>2, <1>3, <1>4 DEF ReportsInv

\* The reports, and what is known of one of them.
LEMMA ReportIs ==
    ASSUME ReportsInv, NEW r \in ReportIds
    PROVE  /\ views \in Seq(View) /\ calls \in Nat
           /\ reports[r] \in Report /\ DOMAIN reports[r] = DOMAIN NewReport(0)
           /\ reports[r].generated \in 0 .. LastEpoch
           /\ DOMAIN reports = ReportIds /\ DOMAIN totalled = ReportIds
           /\ DOMAIN bucketed = ReportIds
           /\ totalled[r] \in SUBSET Intakes(views) /\ IsFiniteSet(totalled[r])
           /\ bucketed[r] \in SUBSET Intakes(views) /\ IsFiniteSet(bucketed[r])
           /\ \A c \in bucketed[r] : c[3] < calls
           /\ TotalIs(views, reports[r], totalled[r])
           /\ BucketsHold(views, reports[r], bucketed[r])
<1>1. views \in Seq(View) /\ calls \in Nat /\ reports[r] \in Report /\ DOMAIN reports = ReportIds
  BY DEF ReportsInv
<1>2. /\ DOMAIN totalled = ReportIds /\ DOMAIN bucketed = ReportIds
      /\ totalled[r] \in SUBSET Intakes(views) /\ IsFiniteSet(totalled[r])
      /\ bucketed[r] \in SUBSET Intakes(views) /\ IsFiniteSet(bucketed[r])
      /\ \A c \in bucketed[r] : c[3] < calls
  BY DEF ReportsInv, Covers
<1>3. DOMAIN reports[r] = DOMAIN NewReport(0) /\ reports[r].generated \in 0 .. LastEpoch
  <2>1. 0 \in 0 .. LastEpoch  BY ClockAssumption
  <2> QED  BY <1>1, <2>1, ReportTyped
<1>4. TotalIs(views, reports[r], totalled[r]) /\ BucketsHold(views, reports[r], bucketed[r])
  BY DEF ReportsInv
<1> QED  BY <1>1, <1>2, <1>3, <1>4

LEMMA CreateReportKeeps ==
    ASSUME ReportsInv, current_epoch \in 0 .. LastEpoch, NEW r \in ReportIds,
           CreateReport(r)
    PROVE  ReportsInv'
<1> DEFINE new == NewReport(current_epoch)
<1>1. /\ views' = views /\ calls' = calls + 1
      /\ reports' = [reports EXCEPT ![r] = new]
      /\ totalled' = [totalled EXCEPT ![r] = {}] /\ bucketed' = [bucketed EXCEPT ![r] = {}]
  BY DEF CreateReport
<1>2. new \in Report /\ TotalIs(views, new, {}) /\ BucketsHold(views, new, {})
  BY ReportTyped, NewTruthful, ReportIs
<1>3. IsFiniteSet({}) /\ {} \in SUBSET Intakes(views)  BY FS_EmptySet
<1> HIDE DEF new
<1>4. /\ reports' = Replaced(reports, r, r, new, new)
      /\ totalled' = Replaced(totalled, r, r, {}, {})
      /\ bucketed' = Replaced(bucketed, r, r, {}, {})
  BY <1>1, ReportIs DEF Replaced
<1>5. \A c \in {} : c \in totalled[r] \/ c \in bucketed[r] \/ c[3] = calls  OBVIOUS
<1> QED  BY <1>1, <1>2, <1>3, <1>4, <1>5, ReportsMove

LEMMA IngestKeeps ==
    ASSUME ReportsInv, NEW r \in ReportIds, NEW S \in SUBSET DOMAIN views, Ingest(r, S)
    PROVE  ReportsInv'
<1> DEFINE e == reports[r].generated
           C == Intake(S, e, calls)
           D == bucketed[r] \cup C
<1>1. /\ views \in Seq(View) /\ calls \in Nat /\ reports[r] \in Report /\ e \in 0 .. LastEpoch
      /\ DOMAIN reports[r] = DOMAIN NewReport(0)
      /\ bucketed[r] \in SUBSET Intakes(views) /\ IsFiniteSet(bucketed[r])
      /\ \A c \in bucketed[r] : c[3] < calls
      /\ BucketsHold(views, reports[r], bucketed[r])
  BY ReportIs
<1>2. C \in SUBSET Intakes(views) /\ IsFiniteSet(C) /\ \A c \in C : c[3] = calls
  <2>1. \A c \in C : c[3] = calls  BY DEF Intake
  <2> QED  BY <1>1, <2>1, TakenAt
<1>3. D \in SUBSET Intakes(views) /\ IsFiniteSet(D) /\ bucketed[r] \cap C = {}
  <2> HIDE DEF C
  <2>1. bucketed[r] \cap C = {}  BY <1>1, <1>2
  <2> QED  BY <1>1, <1>2, <2>1, FS_Union
<1>4. /\ views' = views /\ calls' = calls + 1
      /\ totalled' = [totalled EXCEPT ![r] = C]
  BY DEF Ingest
<1>5. totalled' = Replaced(totalled, r, r, C, {})
  <2> HIDE DEF C
  <2> QED  BY <1>4, ReportIs DEF Replaced
<1>6. CASE /\ reports' = [reports EXCEPT ![r] = Ingested(@, S)]
           /\ bucketed' = [bucketed EXCEPT ![r] = @ \cup C]
  <2> DEFINE x == Ingested(reports[r], S)
  <2>1. x \in Report  BY <1>1, IngestedTyped
  <2>2. TotalIs(views, x, C) /\ BucketsHold(views, x, D)
    BY <1>1, <1>3, IngestedTruthful
  <2> HIDE DEF C, x, e
  <2>3. /\ reports' = Replaced(reports, r, r, x, x)
        /\ bucketed' = Replaced(bucketed, r, r, D, {})
    BY <1>6, ReportIs DEF x, Replaced
  <2>4. \A c \in D : c \in bucketed[r] \/ c \in bucketed[r] \/ c[3] = calls  BY <1>2
  <2> HIDE DEF D
  <2> QED  BY <1>2, <1>3, <1>4, <1>5, <2>1, <2>2, <2>3, <2>4, ReportsMove
<1>7. CASE /\ reports' = [reports EXCEPT ![r].principal = TotalPrincipal(S)]
           /\ UNCHANGED bucketed
  <2> DEFINE x == [reports[r] EXCEPT !.principal = TotalPrincipal(S)]
  <2>1. x \in Report /\ x.principal = TotalPrincipal(S) /\ x.late = reports[r].late
    BY <1>1, IngestedTyped DEF Report
  <2>2. TotalIs(views, x, C)
    BY <1>1, <2>1, TotalTaken DEF TotalIs
  <2>3. BucketsHold(views, x, bucketed[r])
    <3> HIDE DEF x
    <3> QED  BY <1>1, <2>1 DEF BucketsHold
  <2> HIDE DEF C, x, e
  <2>4. /\ reports' = Replaced(reports, r, r, x, x)
        /\ bucketed' = Replaced(bucketed, r, r, bucketed[r], {})
    <3>1. bucketed' = [t \in ReportIds |-> bucketed[t]]  BY <1>7 DEF ReportsInv, Covers
    <3> QED  BY <1>7, <3>1, ReportIs DEF x, Replaced
  <2> QED  BY <1>1, <1>2, <1>4, <1>5, <2>1, <2>2, <2>3, <2>4, ReportsMove
<1> QED  BY <1>6, <1>7 DEF Ingest

LEMMA MergeKeeps ==
    ASSUME ReportsInv, NEW r \in ReportIds, NEW q \in ReportIds, Merge(r, q)
    PROVE  ReportsInv'
<1> DEFINE new == NewReport(GenesisEpoch)
           both == Merged(reports[r], reports[q])
           C == totalled[r] \cup totalled[q]
           D == bucketed[r] \cup bucketed[q]
<1>1. new \in Report /\ TotalIs(views, new, {}) /\ BucketsHold(views, new, {})
  BY ReportIs, ReportTyped, NewTruthful, ClockAssumption
<1>2. IsFiniteSet({}) /\ {} \in SUBSET Intakes(views)  BY FS_EmptySet
<1>3. r # q /\ views' = views /\ calls' = calls + 1  BY DEF Merge
<1>4. CASE /\ MergeFits(reports[r], reports[q])
           /\ reports' = [reports EXCEPT ![r] = Merged(@, reports[q]),
                                         ![q] = NewReport(GenesisEpoch)]
           /\ totalled' = [totalled EXCEPT ![r] = @ \cup totalled[q], ![q] = {}]
           /\ bucketed' = [bucketed EXCEPT ![r] = @ \cup bucketed[q], ![q] = {}]
  <2>1. both \in Report  BY ReportIs, MergedTyped
  <2>2. totalled[r] \cap totalled[q] = {} /\ bucketed[r] \cap bucketed[q] = {}
    BY <1>3 DEF ReportsInv, Covers
  <2>3. TotalIs(views, both, C)
    BY <1>4, <2>2, ReportIs, MergedTruthful
  <2>4. BucketsHold(views, both, D)
    BY <1>4, <2>2, ReportIs, MergedTruthful
  <2>5. /\ C \in SUBSET Intakes(views) /\ IsFiniteSet(C)
        /\ D \in SUBSET Intakes(views) /\ IsFiniteSet(D)
    BY ReportIs, FS_Union
  <2>6. /\ \A c \in C : c \in totalled[r] \/ c \in totalled[q] \/ c[3] = calls
        /\ \A c \in D : c \in bucketed[r] \/ c \in bucketed[q] \/ c[3] = calls
    OBVIOUS
  <2>7. /\ reports' = [reports EXCEPT ![r] = both, ![q] = new]
        /\ totalled' = [totalled EXCEPT ![r] = C, ![q] = {}]
        /\ bucketed' = [bucketed EXCEPT ![r] = D, ![q] = {}]
    BY <1>4
  <2> HIDE DEF new, both, C, D
  <2>8. /\ reports' = Replaced(reports, r, q, both, new)
        /\ totalled' = Replaced(totalled, r, q, C, {})
        /\ bucketed' = Replaced(bucketed, r, q, D, {})
    <3>1. DOMAIN reports = ReportIds /\ DOMAIN totalled = ReportIds /\ DOMAIN bucketed = ReportIds
      BY ReportIs
    <3>2. reports' = Replaced(reports, r, q, both, new)  BY <1>3, <2>7, <3>1 DEF Replaced
    <3>3. totalled' = Replaced(totalled, r, q, C, {})  BY <1>3, <2>7, <3>1 DEF Replaced
    <3>4. bucketed' = Replaced(bucketed, r, q, D, {})  BY <1>3, <2>7, <3>1 DEF Replaced
    <3> QED  BY <3>2, <3>3, <3>4
  <2> QED  BY <1>1, <1>3, <2>1, <2>3, <2>4, <2>5, <2>6, <2>8, ReportsMove
<1>5. CASE /\ reports' = [reports EXCEPT ![r] = NewReport(GenesisEpoch),
                                         ![q] = NewReport(GenesisEpoch)]
           /\ totalled' = [totalled EXCEPT ![r] = {}, ![q] = {}]
           /\ bucketed' = [bucketed EXCEPT ![r] = {}, ![q] = {}]
  <2> HIDE DEF new, both, C, D
  <2>1. /\ reports' = Replaced(reports, r, q, new, new)
        /\ totalled' = Replaced(totalled, r, q, {}, {})
        /\ bucketed' = Replaced(bucketed, r, q, {}, {})
    BY <1>3, <1>5, ReportIs DEF new, Replaced
  <2> QED  BY <1>1, <1>2, <1>3, <2>1, ReportsMove
<1> QED  BY <1>4, <1>5 DEF Merge

LEMMA ReportsStart ==
    ASSUME ReportsInit
    PROVE  ReportsInv
<1>1. << >> \in Seq(View) /\ IsFiniteSet({})  BY FS_EmptySet
<1>2. GenesisEpoch \in 0 .. LastEpoch  BY ClockAssumption
<1>3. /\ NewReport(GenesisEpoch) \in Report
      /\ TotalIs(<< >>, NewReport(GenesisEpoch), {})
      /\ BucketsHold(<< >>, NewReport(GenesisEpoch), {})
  BY <1>1, <1>2, ReportTyped, NewTruthful
<1>4. Covers(<< >>, 0, [r \in ReportIds |-> {}])  BY <1>1 DEF Covers
<1> QED  BY <1>1, <1>3, <1>4 DEF ReportsInit, ReportsInv

LEMMA ReportsKept ==
    ASSUME ReportsInv, current_epoch \in 0 .. LastEpoch,
           ReportsNext \/ UNCHANGED reportsVars
    PROVE  ReportsInv'
<1>1. CASE UNCHANGED reportsVars  BY <1>1 DEF reportsVars, ReportsInv
<1>2. CASE ReportsNext
  BY <1>2, AddViewKeeps, CreateReportKeeps, IngestKeeps, MergeKeeps DEF ReportsNext
<1> QED  BY <1>1, <1>2

\* By account, what is late in a portfolio comes to what is late in all.
LEMMA LateByAccount ==
    ASSUME views \in Seq(View), NEW S \in SUBSET DOMAIN views, NEW e \in 0 .. LastEpoch
    PROVE  SumOver([a \in AccountsIn(S) |-> AccountExposure(S, a, e).late_positions],
                   AccountsIn(S))
             = Cardinality(LateAll(views, Intake(S, e, 0)))
<1> DEFINE late == {i \in S : IsLateAt(views[i], e)}
           group == [a \in AccountsIn(S) |->
                       {i \in OfAccount(S, a) : IsLateAt(views[i], e)}]
           n == [a \in AccountsIn(S) |-> AccountExposure(S, a, e).late_positions]
<1>1. late \in SUBSET DOMAIN views /\ LateAll(views, Intake(S, e, 0)) = Intake(late, e, 0)
  BY DEF LateAll, Intake
<1>2. IsFiniteSet(late) /\ Cardinality(late) = Cardinality(LateAll(views, Intake(S, e, 0)))
  <2> HIDE DEF late, n
  <2>1. \A k \in Nat : IsFiniteSet(late) /\ Cardinality(Intake(late, e, k)) = Cardinality(late)
    BY <1>1, TakenAt
  <2>2. 0 \in Nat  OBVIOUS
  <2> QED  BY <1>1, <2>1, <2>2
<1>3. IsFiniteSet(AccountsIn(S))  BY PortfolioTotal
<1>4. \A a \in AccountsIn(S) : n[a] = Cardinality(group[a])  BY DEF AccountExposure
<1>5. \A a \in AccountsIn(S) : group[a] \subseteq late  BY DEF OfAccount, OpenIn
<1>6. \A a, b \in AccountsIn(S) : a # b => group[a] \cap group[b] = {}  BY DEF OfAccount
<1>7. ASSUME NEW i \in late PROVE \E a \in AccountsIn(S) : i \in group[a]
  <2>1. i \in OpenIn(S)  BY DEF OpenIn, IsLateAt
  <2>2. views[i].account \in AccountsIn(S) /\ i \in OfAccount(S, views[i].account)
    BY <2>1 DEF AccountsIn, OfAccount
  <2> QED  BY <2>2
<1> HIDE DEF late, group, n
<1>8. SumOver(n, AccountsIn(S)) = Cardinality(late)
  BY <1>2, <1>3, <1>4, <1>5, <1>6, <1>7, GroupSizes
<1> QED  BY <1>2, <1>8 DEF n

LEMMA TruthIsAddedUp ==
    ASSUME ReportsInv, current_epoch \in 0 .. LastEpoch
    PROVE  ReportsAddUp
<1>1. ASSUME NEW r \in ReportIds
      PROVE  /\ reports[r].principal = PrincipalOver({c \in totalled[r] : Open(views[c[1]])})
             /\ AtRisk(reports[r]) = PrincipalOver(LateOf(bucketed[r]))
             /\ LatePositions(reports[r]) = Cardinality(LateOf(bucketed[r]))
             /\ bucketed[r] \subseteq totalled[r] => AtRisk(reports[r]) <= reports[r].principal
  <2>1. /\ views \in Seq(View)
        /\ totalled[r] \in SUBSET Intakes(views) /\ IsFiniteSet(totalled[r])
        /\ bucketed[r] \in SUBSET Intakes(views) /\ IsFiniteSet(bucketed[r])
        /\ TotalIs(views, reports[r], totalled[r])
        /\ BucketsHold(views, reports[r], bucketed[r])
    BY ReportIs
  <2>2. LateOf(bucketed[r]) = LateAll(views, bucketed[r])  BY DEF LateOf, LateAll
  <2>3. {c \in totalled[r] : Open(views[c[1]])} = OpenOf(views, totalled[r])  BY DEF OpenOf
  <2>4. \A C : PrincipalOver(C) = Capped(SumIn(views, C))  BY DEF PrincipalOver, SumIn
  <2>5. reports[r].principal = Capped(SumIn(views, OpenOf(views, totalled[r])))
    BY <2>1 DEF TotalIs
  <2> QED  BY <2>1, <2>2, <2>3, <2>4, <2>5, BucketsAddUp
<1> DEFINE all == DOMAIN views
           e == current_epoch
           new == Ingested(NewReport(e), all)
<1>2. views \in Seq(View) /\ all \in SUBSET DOMAIN views  BY DEF ReportsInv
<1>3. Capped(SumOver([a \in AccountsIn(all) |-> AccountExposure(all, a, e).principal],
                     AccountsIn(all))) = TotalPrincipal(all)
  <2>1. [a \in AccountsIn(all) |-> AccountExposure(all, a, e).principal]
          = [a \in AccountsIn(all) |-> PrincipalOf(OfAccount(all, a))]
    BY DEF AccountExposure
  <2> QED  BY <1>2, <2>1, PortfolioTotal
<1>4. SumOver([a \in AccountsIn(all) |-> AccountExposure(all, a, e).late_positions],
              AccountsIn(all)) = LatePositions(new)
  <2>1. /\ NewReport(e).generated = e
        /\ DOMAIN NewReport(e) = DOMAIN NewReport(0)
    BY DEF NewReport
  <2>2. BucketsHold(views, NewReport(e), {})  BY <1>2, NewTruthful
  <2>3. BucketsHold(views, new, Intake(all, e, 0))
    <3>1. {} \in SUBSET Intakes(views) /\ IsFiniteSet({}) /\ {} \cap Intake(all, e, 0) = {}
          /\ {} \cup Intake(all, e, 0) = Intake(all, e, 0) /\ 0 \in Nat
      BY FS_EmptySet
    <3> HIDE DEF all, new
    <3>2. BucketsHold(views, new, {} \cup Intake(all, e, 0))
      BY <1>2, <2>1, <2>2, <3>1, IngestedTruthful DEF new
    <3> QED  BY <3>1, <3>2
  <2>4. Intake(all, e, 0) \in SUBSET Intakes(views) /\ IsFiniteSet(Intake(all, e, 0))
    BY <1>2, TakenAt
  <2> HIDE DEF new, all
  <2>5. LatePositions(new) = Cardinality(LateAll(views, Intake(all, e, 0)))
    BY <1>2, <2>3, <2>4, BucketsAddUp
  <2> QED  BY <1>2, <2>5, LateByAccount
<1> QED  BY <1>1, <1>3, <1>4 DEF ReportsAddUp

(***************************************************************************)
(* ReportsAddUp: whatever portfolios are taken in, however reports are     *)
(* merged and wherever a sum saturates, the totals of a report tell of the *)
(* last portfolio and its buckets of all of them, and what is at risk      *)
(* exceeds the total only after totals were replaced.                      *)
(***************************************************************************)
THEOREM ReportsTruthful == DeskSpec => []ReportsAddUp
<1>1. ClockInv => current_epoch \in 0 .. LastEpoch
  BY ClockAssumption DEF ClockInv, TypeOK
<1>2. DeskInit => ReportsInv  BY ReportsStart DEF DeskInit
<1>3. ReportsInv /\ ClockInv /\ [DeskNext]_deskVars => ReportsInv'
  BY <1>1, DeskMoves, ReportsKept
<1>4. ReportsInv /\ ClockInv => ReportsAddUp  BY <1>1, TruthIsAddedUp
<1> QED  BY <1>2, <1>3, <1>4, DeskClock, PTL DEF DeskSpec
=============================================================================
