-------------------------- MODULE GovernanceProofs --------------------------
(***************************************************************************)
(* Executions are justified and in order, for every set of governors and   *)
(* operations, every policy and every lag of the callers; and governance   *)
(* implements the abstract life of its operations.                         *)
(***************************************************************************)
EXTENDS GovernanceProperties, TLAPS, FiniteSetTheorems

\* What the guards of schedule have established of a known operation, and
\* the clock as an upper bound of what has been recorded.
Recorded ==
    \A op \in Ops : Known(op) =>
        /\ operations[op].scheduled_at + MinDelay <= Eta[op]
        /\ operations[op].executed_at <= now

IInv == TypeOK /\ Recorded /\ ExecutionJustified

\* The epoch a caller believes in is a natural not beyond the clock.
LEMMA BelievedEpochs ==
    ASSUME now \in Nat, NEW e \in Believed
    PROVE  e \in Nat /\ e <= now /\ now <= e + MaxLag
  BY OperationsAssumption DEF Believed

\* A change of one operation, for the conjuncts of IInv that look at each
\* operation by itself or at an executed predecessor.
LEMMA OneOperationChanges ==
    ASSUME IInv, NEW op \in Ops, NEW new \in PolicyOperation,
           operations' = [operations EXCEPT ![op] = new], now' = now,
           ~StatusIs(op, "Executed"),
           new.executed_at # NoEpoch <=> new.status = "Executed",
           new.cancelled_at # NoEpoch <=> new.status = "Cancelled",
           new.scheduled_at + MinDelay <= Eta[op],
           new.executed_at <= now,
           new.status = "Executed" => Justified(op)'
    PROVE  IInv'
<1>1. /\ \A o \in Ops : o # op => operations'[o] = operations[o]
      /\ operations'[op] = new /\ new # Absent
  BY AbsentOperation DEF IInv, TypeOK
<1>2. TypeOK'  BY <1>1 DEF IInv, TypeOK, Known
<1>3. Recorded'  BY <1>1 DEF IInv, Recorded, Known
<1>4. ASSUME NEW o \in Ops, StatusIs(o, "Executed")'
      PROVE  Justified(o)'
  <2>1. CASE o = op
    BY <2>1, <1>1, <1>4 DEF StatusIs, Known
  <2>2. CASE o # op
    <3>1. StatusIs(o, "Executed") /\ operations'[o] = operations[o]
      BY <2>2, <1>1, <1>4 DEF StatusIs, Known
    <3>2. Justified(o)  BY <3>1 DEF IInv, ExecutionJustified
    <3>3. Predecessor[o] # NoOp => Predecessor[o] \in Ops /\ Predecessor[o] # op
      BY <3>2, OperationsAssumption DEF Justified
    <3> QED  BY <3>1, <3>2, <3>3, <1>1 DEF Justified, StatusIs, Known
  <2> QED  BY <2>1, <2>2
<1> QED  BY <1>2, <1>3, <1>4 DEF IInv, ExecutionJustified

LEMMA ScheduleInv ==
    ASSUME IInv, NEW op \in Ops, NEW e \in Believed, Schedule(op, e)
    PROVE  IInv'
<1> DEFINE new == [status |-> "Scheduled", approvals |-> {}, scheduled_at |-> e,
                   executed_at |-> NoEpoch, cancelled_at |-> NoEpoch]
<1>1. e \in Nat /\ now \in Nat  BY BelievedEpochs DEF IInv, TypeOK
<1>2. new \in PolicyOperation  BY <1>1 DEF PolicyOperation, OperationStatus
<1>3. /\ ~Known(op) /\ e + MinDelay <= Eta[op] /\ now' = now
      /\ operations' = [operations EXCEPT ![op] = new]
  BY <1>1, PolicyAssumption, OperationsAssumption DEF Schedule
<1>4. /\ new.status = "Scheduled" /\ new.scheduled_at = e
      /\ new.executed_at = NoEpoch /\ new.cancelled_at = NoEpoch /\ NoEpoch <= now
      /\ NoEpoch = NoEpoch
  BY <1>1 DEF NoEpoch
<1>5. ~StatusIs(op, "Executed")  BY <1>3 DEF StatusIs
<1> HIDE DEF new
<1> QED  BY <1>2, <1>3, <1>4, <1>5, OneOperationChanges

LEMMA ApproveInv ==
    ASSUME IInv, NEW op \in Ops, NEW a, Approve(op, a)
    PROVE  IInv'
<1> DEFINE old == operations[op]
           new == [old EXCEPT !.approvals = @ \cup {a}]
<1>1. /\ StatusIs(op, "Scheduled") /\ a \in Governors /\ now' = now
      /\ operations' = [operations EXCEPT ![op] = new]
  BY DEF Approve
<1>2. old \in PolicyOperation  BY <1>1 DEF StatusIs, Known, IInv, TypeOK
<1>3. /\ new \in PolicyOperation
      /\ new.status = "Scheduled" /\ new.scheduled_at = old.scheduled_at
      /\ new.executed_at = old.executed_at /\ new.cancelled_at = old.cancelled_at
  BY <1>1, <1>2 DEF PolicyOperation, StatusIs
<1>4. /\ old.status = "Scheduled"
      /\ old.executed_at # NoEpoch <=> old.status = "Executed"
      /\ old.cancelled_at # NoEpoch <=> old.status = "Cancelled"
      /\ old.scheduled_at + MinDelay <= Eta[op] /\ old.executed_at <= now
  BY <1>1 DEF StatusIs, IInv, TypeOK, Recorded
<1>5. ~StatusIs(op, "Executed")  BY <1>4 DEF StatusIs
<1> HIDE DEF new, old
<1> QED  BY <1>1, <1>3, <1>4, <1>5, OneOperationChanges

\* What decision has found when it lets an operation execute.
LEMMA ExecutableMeans ==
    ASSUME NEW op \in Ops, NEW e, Known(op), Executable(op, e),
           operations[op].status \in OperationStatus
    PROVE  /\ StatusIs(op, "Scheduled") /\ e < ExpiresAt[op]
           /\ Approved(op) /\ ~(e < Eta[op] /\ Approved(op))
           /\ ~(e >= Eta[op] /\ ~PredecessorSatisfied(op))
  BY DEF Executable, Lifecycle, StatusIs, OperationStatus

LEMMA ExecuteInv ==
    ASSUME IInv, NEW op \in Ops, NEW e \in Believed, Execute(op, e)
    PROVE  IInv'
<1> DEFINE old  == operations[op]
           done == [old EXCEPT !.status = "Executed"]
           new  == [done EXCEPT !.executed_at = e]
<1>1. /\ Known(op) /\ Executable(op, e) /\ now' = now
      /\ operations' = [operations EXCEPT ![op] = new]
  BY DEF Execute, IInv, TypeOK
<1>2. old \in PolicyOperation  BY <1>1 DEF Known, IInv, TypeOK
<1>3. e \in Nat /\ e <= now /\ now <= e + MaxLag /\ now \in Nat
  BY BelievedEpochs DEF IInv, TypeOK
<1>4. /\ StatusIs(op, "Scheduled") /\ e < ExpiresAt[op] /\ Approved(op)
      /\ e >= Eta[op] /\ PredecessorSatisfied(op)
  BY <1>1, <1>2, <1>3, ExecutableMeans, OperationsAssumption DEF PolicyOperation
<1>5. /\ new \in PolicyOperation
      /\ new.status = "Executed" /\ new.scheduled_at = old.scheduled_at
      /\ new.executed_at = e /\ new.cancelled_at = old.cancelled_at
      /\ new.approvals = old.approvals
  BY <1>2, <1>3 DEF PolicyOperation, OperationStatus
<1>6. /\ old.status = "Scheduled" /\ old.cancelled_at = NoEpoch
      /\ old.scheduled_at + MinDelay <= Eta[op]
      /\ e # NoEpoch
  BY <1>1, <1>3, <1>4 DEF StatusIs, IInv, TypeOK, Recorded, NoEpoch
<1>7. ~StatusIs(op, "Executed")  BY <1>6 DEF StatusIs
<1>8. Cardinality(new.approvals) >= Quorum  BY <1>4, <1>5 DEF Approved
<1>9. operations'[op] = new  BY <1>1 DEF IInv, TypeOK
<1> HIDE DEF new, done
<1>10. Justified(op)'
  <2>1. new.scheduled_at + MinDelay <= e
    <3>1. old.scheduled_at \in Nat  BY <1>2 DEF PolicyOperation
    <3> HIDE DEF old
    <3> QED  BY <1>3, <1>4, <1>5, <1>6, <3>1, PolicyAssumption, OperationsAssumption
  <2>2. ASSUME Predecessor[op] # NoOp
        PROVE  /\ StatusIs(Predecessor[op], "Executed")'
               /\ operations'[Predecessor[op]].executed_at <= e + MaxLag
    <3>1. Predecessor[op] \in Ops /\ StatusIs(Predecessor[op], "Executed")
      BY <1>4, <2>2, OperationsAssumption DEF PredecessorSatisfied
    <3>2. Predecessor[op] # op  BY <3>1, <1>7
    <3>3. operations'[Predecessor[op]] = operations[Predecessor[op]]
      BY <1>1, <3>2 DEF IInv, TypeOK
    <3>4. operations[Predecessor[op]] \in PolicyOperation
      BY <3>1 DEF StatusIs, Known, IInv, TypeOK
    <3>5. operations[Predecessor[op]].executed_at \in Nat \cup {NoEpoch}
      BY <3>4 DEF PolicyOperation
    <3>6. operations[Predecessor[op]].executed_at <= now
      BY <3>1 DEF StatusIs, IInv, Recorded
    <3> QED
      BY <3>1, <3>3, <3>5, <3>6, <1>3, OperationsAssumption DEF StatusIs, Known, NoEpoch
  <2> QED  BY <1>4, <1>5, <1>8, <1>9, <2>1, <2>2 DEF Justified
<1> HIDE DEF old
<1> QED  BY <1>1, <1>3, <1>5, <1>6, <1>7, <1>10, OneOperationChanges

LEMMA CancelInv ==
    ASSUME IInv, NEW op \in Ops, NEW a, NEW e \in Believed, Cancel(op, a, e)
    PROVE  IInv'
<1> DEFINE old  == operations[op]
           done == [old EXCEPT !.status = "Cancelled"]
           new  == [done EXCEPT !.cancelled_at = e]
<1>1. /\ StatusIs(op, "Scheduled") /\ now' = now
      /\ operations' = [operations EXCEPT ![op] = new]
  BY DEF Cancel, IInv, TypeOK
<1>2. old \in PolicyOperation  BY <1>1 DEF StatusIs, Known, IInv, TypeOK
<1>3. e \in Nat /\ now \in Nat  BY BelievedEpochs DEF IInv, TypeOK
<1>4. /\ new \in PolicyOperation
      /\ new.status = "Cancelled" /\ new.scheduled_at = old.scheduled_at
      /\ new.executed_at = old.executed_at /\ new.cancelled_at = e
  BY <1>2, <1>3 DEF PolicyOperation, OperationStatus
<1>5. /\ old.status = "Scheduled" /\ old.executed_at = NoEpoch /\ e # NoEpoch
      /\ old.scheduled_at + MinDelay <= Eta[op] /\ old.executed_at <= now
  BY <1>1, <1>3 DEF StatusIs, IInv, TypeOK, Recorded, NoEpoch
<1>6. ~StatusIs(op, "Executed")  BY <1>5 DEF StatusIs
<1> HIDE DEF new, done, old
<1> QED  BY <1>1, <1>4, <1>5, <1>6, OneOperationChanges

LEMMA TickInv ==
    ASSUME IInv, NEW n \in Ticks, Tick(n)
    PROVE  IInv'
<1>1. now' \in Nat /\ now <= now' /\ operations' = operations
  BY OperationsAssumption DEF Tick, IInv, TypeOK
<1>2. TypeOK'  BY <1>1 DEF IInv, TypeOK, Known
<1>3. Recorded'
  <2>1. ASSUME NEW op \in Ops, Known(op) PROVE operations[op].executed_at <= now'
    <3>1. operations[op] \in PolicyOperation  BY <2>1 DEF IInv, TypeOK, Known
    <3>2. operations[op].executed_at \in Nat \cup {NoEpoch}
      BY <3>1 DEF PolicyOperation
    <3>3. operations[op].executed_at <= now  BY <2>1 DEF IInv, Recorded
    <3> QED  BY <1>1, <3>2, <3>3 DEF NoEpoch, IInv, TypeOK
  <2> QED  BY <1>1, <2>1 DEF IInv, Recorded, Known
<1>4. ExecutionJustified'
  BY <1>1 DEF IInv, ExecutionJustified, Justified, StatusIs, Known
<1> QED  BY <1>2, <1>3, <1>4 DEF IInv

LEMMA InitInv == Init => IInv
  BY DEF Init, IInv, TypeOK, Recorded, ExecutionJustified, StatusIs, Known

LEMMA NextInv == IInv /\ [Next]_vars => IInv'
<1> SUFFICES ASSUME IInv, [Next]_vars PROVE IInv'  OBVIOUS
<1>1. CASE UNCHANGED vars
  BY <1>1 DEF vars, IInv, TypeOK, Recorded, ExecutionJustified, Justified, StatusIs, Known
<1> QED
  BY <1>1, ScheduleInv, ApproveInv, ExecuteInv, CancelInv, TickInv DEF Next, Advance

\* The invariants hold together in every reachable state.
THEOREM Inductive == Spec => []IInv
  BY InitInv, NextInv, PTL DEF Spec

\* Whatever has been executed had its quorum, its delay, its window and its
\* predecessor, however late the callers' epochs are.
THEOREM ExecutionsJustified == Spec => []ExecutionJustified
<1>1. IInv => ExecutionJustified  BY DEF IInv
<1> QED  BY <1>1, Inductive, PTL

---------------------------------------------------------------------------
\* The life of an operation

\* The decision as a cascade of tests, the first that applies.
Staged ==
    \A op \in Ops : Known(op) =>
        Lifecycle(op, now) =
            IF operations[op].status # "Scheduled" THEN operations[op].status
            ELSE IF now >= ExpiresAt[op] THEN "Expired"
            ELSE IF ~Approved(op) THEN "PendingApprovals"
            ELSE IF now < Eta[op] THEN "Timelocked"
            ELSE IF ~PredecessorSatisfied(op) THEN "BlockedPredecessor"
            ELSE "Ready"

LEMMA Stages == TypeOK => Staged
<1> SUFFICES ASSUME TypeOK, NEW op \in Ops, Known(op)
             PROVE  Lifecycle(op, now) =
                IF operations[op].status # "Scheduled" THEN operations[op].status
                ELSE IF now >= ExpiresAt[op] THEN "Expired"
                ELSE IF ~Approved(op) THEN "PendingApprovals"
                ELSE IF now < Eta[op] THEN "Timelocked"
                ELSE IF ~PredecessorSatisfied(op) THEN "BlockedPredecessor"
                ELSE "Ready"
  BY DEF Staged
<1>1. operations[op].status \in OperationStatus
  BY DEF TypeOK, Known, PolicyOperation
<1>2. now \in Nat /\ Eta[op] \in Nat /\ ExpiresAt[op] \in Nat
  BY OperationsAssumption DEF TypeOK
<1>3. (now >= ExpiresAt[op] <=> ~(now < ExpiresAt[op])) /\ (now >= Eta[op] <=> ~(now < Eta[op]))
  BY <1>2
<1> QED  BY <1>1, <1>3 DEF Lifecycle, StatusIs, OperationStatus

LEMMA StagesNext == TypeOK' => Staged'
  BY Stages, PTL

\* What one step does to one operation: its approvals and those of time only
\* grow, an executed predecessor stays executed, and an operation leaves
\* Scheduled by being cancelled, or by being executed when a caller's epoch
\* calls it ready.
Moves(op) ==
    /\ Known(op)' /\ now <= now'
    /\ PredecessorSatisfied(op) => PredecessorSatisfied(op)'
    /\ \/ /\ operations'[op].status = operations[op].status
          /\ operations[op].approvals \subseteq operations'[op].approvals
       \/ /\ operations[op].status = "Scheduled"
          /\ operations'[op].status = "Cancelled"
       \/ /\ operations[op].status = "Scheduled"
          /\ operations'[op].status = "Executed"
          /\ now' = now
          /\ \E e \in Believed : Executable(op, e) /\ operations'[op].executed_at = e

LEMMA StepMoves ==
    ASSUME IInv, IInv', [Next]_vars, NEW op \in Ops, Known(op)
    PROVE  Moves(op)
<1>1. ASSUME NEW o \in Ops, NEW new,
             operations' = [operations EXCEPT ![o] = new], now' = now,
             new \in PolicyOperation,
             StatusIs(o, "Executed") => new.status = "Executed",
             Known(o) =>
                \/ /\ new.status = operations[o].status
                   /\ operations[o].approvals \subseteq new.approvals
                \/ operations[o].status = "Scheduled" /\ new.status = "Cancelled"
                \/ /\ operations[o].status = "Scheduled" /\ new.status = "Executed"
                   /\ \E e \in Believed : Executable(o, e) /\ new.executed_at = e
      PROVE  Moves(op)
  <2>1. operations'[o] = new /\ \A q \in Ops : q # o => operations'[q] = operations[q]
    BY <1>1 DEF IInv, TypeOK
  <2>2. \A q \in Ops : StatusIs(q, "Executed") => StatusIs(q, "Executed")'
    BY <1>1, <2>1, AbsentOperation DEF StatusIs, Known
  <2>3. PredecessorSatisfied(op) => PredecessorSatisfied(op)'
    BY <2>2, OperationsAssumption DEF PredecessorSatisfied
  <2>4. Known(op)'  BY <1>1, <2>1, AbsentOperation DEF Known
  <2>5. now <= now'  BY <1>1 DEF IInv, TypeOK
  <2> QED  BY <1>1, <2>1, <2>3, <2>4, <2>5 DEF Moves
<1>2. CASE UNCHANGED operations /\ now <= now'
  BY <1>2 DEF Moves, Known, PredecessorSatisfied, StatusIs
<1>3. ASSUME NEW o \in Ops, NEW e \in Believed, Schedule(o, e)
      PROVE  Moves(op)
  <2>1. e \in Nat  BY DEF Believed
  <2> DEFINE new == [status |-> "Scheduled", approvals |-> {}, scheduled_at |-> e,
                     executed_at |-> NoEpoch, cancelled_at |-> NoEpoch]
  <2>2. /\ new \in PolicyOperation /\ ~Known(o) /\ now' = now
        /\ operations' = [operations EXCEPT ![o] = new]
    BY <1>3, <2>1 DEF PolicyOperation, OperationStatus, Schedule
  <2> HIDE DEF new
  <2> QED  BY <2>2, <1>1 DEF StatusIs
<1>4. ASSUME NEW o \in Ops, NEW a, Approve(o, a)
      PROVE  Moves(op)
  <2> DEFINE old == operations[o]
             new == [old EXCEPT !.approvals = @ \cup {a}]
  <2>1. StatusIs(o, "Scheduled") /\ a \in Governors /\ now' = now
        /\ operations' = [operations EXCEPT ![o] = new]
    BY <1>4 DEF Approve
  <2>2. old \in PolicyOperation  BY <2>1 DEF StatusIs, Known, IInv, TypeOK
  <2>3. new \in PolicyOperation /\ new.status = old.status
        /\ old.approvals \subseteq new.approvals
    BY <2>1, <2>2 DEF PolicyOperation
  <2> HIDE DEF new
  <2> QED  BY <2>1, <2>3, <1>1 DEF StatusIs
<1>5. ASSUME NEW o \in Ops, NEW e \in Believed, Execute(o, e)
      PROVE  Moves(op)
  <2> DEFINE old == operations[o]
             done == [old EXCEPT !.status = "Executed"]
             new == [done EXCEPT !.executed_at = e]
  <2>1. Known(o) /\ Executable(o, e) /\ now' = now
        /\ operations' = [operations EXCEPT ![o] = new]
    BY <1>5 DEF Execute, IInv, TypeOK
  <2>2. old \in PolicyOperation  BY <2>1 DEF Known, IInv, TypeOK
  <2>3. e \in Nat  BY DEF Believed
  <2>4. new \in PolicyOperation /\ new.status = "Executed" /\ new.executed_at = e
    BY <2>2, <2>3 DEF PolicyOperation, OperationStatus
  <2>5. old.status = "Scheduled"
    BY <2>1, <2>2, ExecutableMeans DEF PolicyOperation, StatusIs
  <2> HIDE DEF new, done
  <2> QED  BY <2>1, <2>4, <2>5, <1>1
<1>6. ASSUME NEW o \in Ops, NEW a, NEW e \in Believed, Cancel(o, a, e)
      PROVE  Moves(op)
  <2> DEFINE old == operations[o]
             done == [old EXCEPT !.status = "Cancelled"]
             new == [done EXCEPT !.cancelled_at = e]
  <2>1. StatusIs(o, "Scheduled") /\ now' = now
        /\ operations' = [operations EXCEPT ![o] = new]
    BY <1>6 DEF Cancel, IInv, TypeOK
  <2>2. old \in PolicyOperation  BY <2>1 DEF StatusIs, Known, IInv, TypeOK
  <2>3. e \in Nat  BY DEF Believed
  <2>4. new \in PolicyOperation /\ new.status = "Cancelled"
    BY <2>2, <2>3 DEF PolicyOperation, OperationStatus
  <2> HIDE DEF new, done
  <2> QED  BY <2>1, <2>4, <1>1 DEF StatusIs
<1>7. ASSUME NEW n \in Ticks, Tick(n)
      PROVE  Moves(op)
  <2>1. n \in Nat /\ now \in Nat  BY OperationsAssumption DEF IInv, TypeOK
  <2> QED  BY <1>2, <1>7, <2>1 DEF Tick
<1>8. CASE UNCHANGED vars
  BY <1>2, <1>8 DEF vars, IInv, TypeOK
<1> QED  BY <1>3, <1>4, <1>5, <1>6, <1>7, <1>8 DEF Next, Advance

LEMMA QuorumKept ==
    ASSUME IInv, IInv', NEW op \in Ops, Known(op), Known(op)',
           operations[op].approvals \subseteq operations'[op].approvals,
           Approved(op)
    PROVE  Approved(op)'
<1>1. operations[op] \in PolicyOperation /\ operations'[op] \in PolicyOperation
  BY DEF IInv, TypeOK, Known
<1>2. /\ operations[op].approvals \subseteq Governors
      /\ operations'[op].approvals \subseteq Governors
  BY <1>1 DEF PolicyOperation
<1>3. IsFiniteSet(operations[op].approvals) /\ IsFiniteSet(operations'[op].approvals)
  BY <1>2, PolicyAssumption, FS_Subset
<1>4. /\ Cardinality(operations[op].approvals) \in Nat
      /\ Cardinality(operations'[op].approvals) \in Nat
      /\ Cardinality(operations[op].approvals) <= Cardinality(operations'[op].approvals)
  BY <1>3, FS_CardinalityType, FS_Subset
<1>5. Quorum \in Nat
  <2>1. Cardinality(Governors) \in Nat  BY PolicyAssumption, FS_CardinalityType
  <2> QED  BY <2>1, PolicyAssumption
<1> QED  BY <1>4, <1>5 DEF Approved

\* Seen from the clock an operation only goes forward: what a stage waits for
\* is never taken back once it is there.
THEOREM NeverRegresses == Spec => LifecycleNeverRegresses
<1>1. ASSUME IInv, IInv', [Next]_vars, NEW op \in Ops, Known(op)
      PROVE  \/ Lifecycle(op, now)' = Lifecycle(op, now)
             \/ Lifecycle(op, now)' \in Onward(Lifecycle(op, now))
             \/ Lifecycle(op, now) = "Expired" /\ RevivedByStaleCaller(op)
  <2> DEFINE old == operations[op]
             new == operations'[op]
  <2>1. Moves(op)  BY <1>1, StepMoves
  <2>2. Staged /\ Staged'  BY <1>1, Stages, StagesNext DEF IInv
  <2>3. old \in PolicyOperation /\ new \in PolicyOperation /\ Known(op)'
    BY <1>1, <2>1 DEF Moves, IInv, TypeOK, Known
  <2>4. /\ now \in Nat /\ now' \in Nat /\ now <= now'
        /\ Eta[op] \in Nat /\ ExpiresAt[op] \in Nat /\ MaxLag \in Nat
    BY <1>1, <2>1, OperationsAssumption DEF Moves, IInv, TypeOK
  <2>5. old.status \in OperationStatus /\ new.status \in OperationStatus
    BY <2>3 DEF PolicyOperation
  <2>6. CASE /\ new.status = old.status /\ old.approvals \subseteq new.approvals
    <3>1. Approved(op) => Approved(op)'  BY <1>1, <2>3, <2>6, QuorumKept
    <3>2. PredecessorSatisfied(op) => PredecessorSatisfied(op)'  BY <2>1 DEF Moves
    <3>3. /\ now >= ExpiresAt[op] => now' >= ExpiresAt[op]
          /\ now' < Eta[op] => now < Eta[op]
      BY <2>4
    <3>4. CASE old.status # "Scheduled"
      BY <3>4, <2>2, <2>3, <2>6, <1>1 DEF Staged
    <3>5. CASE old.status = "Scheduled"
      BY <3>1, <3>2, <3>3, <3>5, <2>2, <2>3, <2>6, <1>1 DEF Staged, Onward
    <3> QED  BY <3>4, <3>5
  <2>7. CASE old.status = "Scheduled" /\ new.status = "Cancelled"
    BY <2>2, <2>3, <2>7, <1>1 DEF Staged, Onward
  <2>8. CASE /\ old.status = "Scheduled" /\ new.status = "Executed" /\ now' = now
             /\ \E e \in Believed : Executable(op, e) /\ new.executed_at = e
    <3>1. PICK e \in Believed : Executable(op, e) /\ new.executed_at = e  BY <2>8
    <3>2. e \in Nat /\ e <= now /\ now <= e + MaxLag  BY <2>4, BelievedEpochs
    <3>3. e < ExpiresAt[op] /\ Approved(op) /\ e >= Eta[op] /\ PredecessorSatisfied(op)
      BY <1>1, <2>4, <2>5, <3>1, <3>2, ExecutableMeans
    <3>4. now >= Eta[op] /\ now < ExpiresAt[op] + MaxLag  BY <2>4, <3>2, <3>3
    <3>5. CASE now >= ExpiresAt[op]
      <4>1. Lifecycle(op, now) = "Expired"  BY <1>1, <2>2, <2>8, <3>5 DEF Staged
      <4>2. e < now  BY <2>4, <3>2, <3>3, <3>5
      <4> QED  BY <2>8, <3>1, <3>4, <4>1, <4>2 DEF RevivedByStaleCaller
    <3>6. CASE ~(now >= ExpiresAt[op])
      <4>1. ~(now < Eta[op])  BY <2>4, <3>4
      <4>2. Lifecycle(op, now) = "Ready"
        BY <1>1, <2>2, <2>8, <3>3, <3>6, <4>1 DEF Staged
      <4>3. Lifecycle(op, now)' = "Executed"  BY <2>2, <2>3, <2>8 DEF Staged
      <4> QED  BY <4>2, <4>3 DEF Onward
    <3> QED  BY <3>5, <3>6
  <2> QED  BY <2>1, <2>6, <2>7, <2>8 DEF Moves
<1>2. IInv /\ IInv' /\ [Next]_vars =>
        [\A op \in Ops : Known(op) =>
          LET before == Lifecycle(op, now)  after == Lifecycle(op, now)'
          IN  \/ after = before
              \/ after \in Onward(before)
              \/ before = "Expired" /\ RevivedByStaleCaller(op)]_vars
  BY <1>1
<1> QED  BY <1>2, Inductive, PTL DEF Spec, LifecycleNeverRegresses

---------------------------------------------------------------------------
\* Refinement

\* The phase of an operation depends on its own status only.
LEMMA PhaseValues ==
    /\ Phase = [op \in Ops |-> Phase[op]]
    /\ \A op \in Ops :
         /\ ~Known(op) => Phase[op] = "unknown"
         /\ StatusIs(op, "Scheduled") => Phase[op] = "proposed"
         /\ StatusIs(op, "Executed") => Phase[op] = "enacted"
         /\ StatusIs(op, "Cancelled") => Phase[op] = "dropped"
<1>1. Phase = [op \in Ops |-> Phase[op]]  BY DEF Phase
<1>2. ASSUME NEW op \in Ops
      PROVE  /\ ~Known(op) => Phase[op] = "unknown"
             /\ StatusIs(op, "Scheduled") => Phase[op] = "proposed"
             /\ StatusIs(op, "Executed") => Phase[op] = "enacted"
             /\ StatusIs(op, "Cancelled") => Phase[op] = "dropped"
  BY DEF Phase, StatusIs
<1> QED  BY <1>1, <1>2

\* A call changes the phase of the operation it names, and no other.
LEMMA PhaseMoves ==
    ASSUME TypeOK, NEW op \in Ops, NEW new \in PolicyOperation,
           operations' = [operations EXCEPT ![op] = new]
    PROVE  /\ new.status = "Scheduled" => Phase' = [Phase EXCEPT ![op] = "proposed"]
           /\ new.status = "Executed" => Phase' = [Phase EXCEPT ![op] = "enacted"]
           /\ new.status = "Cancelled" => Phase' = [Phase EXCEPT ![op] = "dropped"]
<1>1. /\ \A o \in Ops : o # op => operations'[o] = operations[o]
      /\ operations'[op] = new /\ new # Absent
  BY AbsentOperation DEF TypeOK
<1>2. \A o \in Ops : o # op => Phase'[o] = Phase[o]
  BY <1>1 DEF Phase, StatusIs, Known
<1>3. /\ new.status = "Scheduled" => Phase'[op] = "proposed"
      /\ new.status = "Executed" => Phase'[op] = "enacted"
      /\ new.status = "Cancelled" => Phase'[op] = "dropped"
  BY <1>1 DEF Phase, StatusIs, Known
<1>4. Phase = [o \in Ops |-> Phase[o]] /\ Phase' = [o \in Ops |-> Phase'[o]]
  BY DEF Phase
<1> HIDE DEF Phase
<1> QED  BY <1>2, <1>3, <1>4

LEMMA InitRefines == Init => Abstract!Init
  BY DEF Init, Abstract!Init, Phase, StatusIs, Known

LEMMA NextRefines == IInv /\ [Next]_vars => [Abstract!Next]_Phase
<1> SUFFICES ASSUME IInv, [Next]_vars PROVE [Abstract!Next]_Phase  OBVIOUS
<1>1. TypeOK  BY DEF IInv
<1>2. ASSUME NEW op \in Ops, NEW e \in Believed, Schedule(op, e)
      PROVE  Abstract!Propose(op)
  <2> DEFINE new == [status |-> "Scheduled", approvals |-> {}, scheduled_at |-> e,
                     executed_at |-> NoEpoch, cancelled_at |-> NoEpoch]
  <2>1. e \in Nat  BY BelievedEpochs DEF IInv, TypeOK
  <2>2. new \in PolicyOperation /\ new.status = "Scheduled"
    BY <2>1 DEF PolicyOperation, OperationStatus
  <2>3. ~Known(op) /\ operations' = [operations EXCEPT ![op] = new]
    BY <1>2 DEF Schedule
  <2>4. Phase' = [Phase EXCEPT ![op] = "proposed"]
    BY <1>1, <2>2, <2>3, PhaseMoves
  <2>5. Phase[op] = "unknown"  BY <2>3, PhaseValues
  <2> QED  BY <2>4, <2>5 DEF Abstract!Propose, Abstract!Move
<1>3. ASSUME NEW op \in Ops, NEW a \in Callers, Approve(op, a)
      PROVE  UNCHANGED Phase
  <2> DEFINE new == [operations[op] EXCEPT !.approvals = @ \cup {a}]
  <2>1. StatusIs(op, "Scheduled") /\ a \in Governors
    BY <1>3 DEF Approve
  <2>2. operations' = [operations EXCEPT ![op] = new]
    BY <1>1, <1>3, <2>1 DEF Approve, TypeOK
  <2>3. new \in PolicyOperation /\ new.status = "Scheduled"
    BY <1>1, <2>1 DEF StatusIs, Known, TypeOK, PolicyOperation
  <2>4. Phase' = [Phase EXCEPT ![op] = "proposed"]
    BY <1>1, <2>2, <2>3, PhaseMoves
  <2>5. Phase[op] = "proposed"  BY <2>1, PhaseValues
  <2>6. Phase = [o \in Ops |-> Phase[o]]  BY PhaseValues
  <2> QED  BY <2>4, <2>5, <2>6
<1>4. ASSUME NEW op \in Ops, NEW e \in Believed, Execute(op, e)
      PROVE  Abstract!Enact(op)
  <2> DEFINE done == [operations[op] EXCEPT !.status = "Executed"]
             new  == [done EXCEPT !.executed_at = e]
  <2>1. Known(op) /\ Executable(op, e) /\ operations' = [operations EXCEPT ![op] = new]
    BY <1>1, <1>4 DEF Execute, TypeOK
  <2>2. operations[op] \in PolicyOperation /\ e \in Nat
    BY <1>1, <2>1, BelievedEpochs DEF Known, TypeOK
  <2>3. new \in PolicyOperation /\ new.status = "Executed"
    BY <2>2 DEF PolicyOperation, OperationStatus
  <2>4. /\ StatusIs(op, "Scheduled") /\ PredecessorSatisfied(op)
    BY <2>1, <2>2, ExecutableMeans, OperationsAssumption DEF PolicyOperation
  <2>5. Phase' = [Phase EXCEPT ![op] = "enacted"]
    <3> HIDE DEF new
    <3> QED  BY <1>1, <2>1, <2>3, PhaseMoves
  <2>6. Phase[op] = "proposed"  BY <2>4, PhaseValues
  <2>7. Predecessor[op] # NoOp =>
          Predecessor[op] \in Ops /\ Phase[Predecessor[op]] = "enacted"
    BY <2>4, PhaseValues, OperationsAssumption DEF PredecessorSatisfied
  <2> QED  BY <2>5, <2>6, <2>7 DEF Abstract!Enact, Abstract!Move
<1>5. ASSUME NEW op \in Ops, NEW a \in Callers, NEW e \in Believed, Cancel(op, a, e)
      PROVE  Abstract!Drop(op)
  <2> DEFINE done == [operations[op] EXCEPT !.status = "Cancelled"]
             new  == [done EXCEPT !.cancelled_at = e]
  <2>1. StatusIs(op, "Scheduled") /\ operations' = [operations EXCEPT ![op] = new]
    BY <1>1, <1>5 DEF Cancel, TypeOK
  <2>2. operations[op] \in PolicyOperation /\ e \in Nat
    BY <1>1, <2>1, BelievedEpochs DEF StatusIs, Known, TypeOK
  <2>3. new \in PolicyOperation /\ new.status = "Cancelled"
    BY <2>2 DEF PolicyOperation, OperationStatus
  <2>4. Phase' = [Phase EXCEPT ![op] = "dropped"]
    <3> HIDE DEF new
    <3> QED  BY <1>1, <2>1, <2>3, PhaseMoves
  <2>5. Phase[op] = "proposed"  BY <2>1, PhaseValues
  <2> QED  BY <2>4, <2>5 DEF Abstract!Drop, Abstract!Move
<1>6. CASE UNCHANGED operations
  BY <1>6 DEF Phase, StatusIs, Known
<1>7. \/ UNCHANGED operations
      \/ \E op \in Ops, e \in Believed : Schedule(op, e)
      \/ \E op \in Ops, a \in Callers : Approve(op, a)
      \/ \E op \in Ops, e \in Believed : Execute(op, e)
      \/ \E op \in Ops, a \in Callers, e \in Believed : Cancel(op, a, e)
  BY DEF Next, Advance, Tick, vars
<1> QED  BY <1>2, <1>3, <1>4, <1>5, <1>6, <1>7 DEF Abstract!Next

\* Governance implements the abstract life of its operations: proposed once,
\* enacted in the order of their dependencies or dropped, and then final.
THEOREM Refinement == Spec => ImplementsLifecycle
  BY InitRefines, NextRefines, Inductive, PTL DEF Spec, ImplementsLifecycle, Abstract!Spec
=============================================================================
