---------------------------- MODULE Maintenance ----------------------------
(***************************************************************************)
(* MaintenanceQueue of src/maintenance: plans wait in the order of their   *)
(* scheduled epochs; a worker takes a ready plan out of the queue, begins  *)
(* it and hands it back with `finish`.  Workers own what they have taken:  *)
(* they may fail and lose a plan, push it back, or cancel it, and the      *)
(* queue learns of none of these.                                          *)
(***************************************************************************)
EXTENDS EpochClock, InOrder

CONSTANTS Subjects, PlanEpochs, MaxPlans, MaxPushes   \* inputs and bounds of a run

ASSUME MaintenanceAssumption ==
    PlanEpochs \subseteq Nat /\ MaxPlans \in Nat /\ MaxPushes \in Nat

VARIABLES
    queue,       \* MaintenanceQueue::queue
    taken,       \* plans in the hands of a worker
    finished,    \* MaintenanceQueue::completed
    created,     \* number of plans created so far, the name of the next one
    pushes       \* history: number of pushes so far, to tell who came first

maintenanceVars == <<queue, taken, finished, created, pushes>>

MaintenanceStatus == {"Queued", "Running", "Completed", "Cancelled"}

\* MaintenancePlan; `pushed` is history, the push that put it in the queue.
Plan == [name : Nat, subject : Subjects, scheduled : Nat,
         status : MaintenanceStatus, attempts : Nat, pushed : Nat]

MaintenanceInit ==
    /\ queue = << >> /\ taken = {} /\ finished = << >>
    /\ created = 0 /\ pushes = 0

ReadyAt(plan, e) == plan.status = "Queued" /\ e >= plan.scheduled

\* Mutant: goes before the plans scheduled for the same epoch.
Inserted_before(plans, plan) ==
    InsertBefore(plans, {i \in DOMAIN plans : plans[i].scheduled >= plan.scheduled}, plan)

\* MaintenanceQueue::push, before the first plan with a later epoch.
Inserted(plans, plan) ==
    InsertBefore(plans, {i \in DOMAIN plans : plans[i].scheduled > plan.scheduled}, plan)

Push(plan) ==
    /\ pushes < MaxPushes
    /\ queue' = Inserted(queue, [plan EXCEPT !.pushed = pushes])
    /\ pushes' = pushes + 1

NewPlan(subject, scheduled) ==
    /\ created < MaxPlans
    /\ Push([name |-> created, subject |-> subject, scheduled |-> scheduled,
             status |-> "Queued", attempts |-> 0, pushed |-> pushes])
    /\ created' = created + 1
    /\ UNCHANGED <<taken, finished>>

\* Mutant: only the head of the queue is looked at.
FirstReady_head(i, e) == i = 1 /\ i \in DOMAIN queue /\ ReadyAt(queue[i], e)

FirstReady(i, e) ==
    /\ i \in DOMAIN queue /\ ReadyAt(queue[i], e)
    /\ \A j \in 1 .. i - 1 : ~ReadyAt(queue[j], e)

NextReady ==
    \E i \in DOMAIN queue :
        /\ FirstReady(i, current_epoch)
        /\ taken' = taken \cup {queue[i]}
        /\ queue' = RemoveAt(queue, i)
        /\ UNCHANGED <<finished, created, pushes>>

\* MaintenancePlan::begin and cancel, by the worker that holds the plan.
Begin(plan) ==
    /\ plan.status = "Queued"
    /\ taken' = (taken \ {plan}) \cup
         {[plan EXCEPT !.status = "Running", !.attempts = @ + 1]}
    /\ UNCHANGED <<queue, finished, created, pushes>>
CancelTaken(plan) ==
    /\ plan.status \notin {"Completed", "Cancelled"}
    /\ taken' = (taken \ {plan}) \cup {[plan EXCEPT !.status = "Cancelled"]}
    /\ UNCHANGED <<queue, finished, created, pushes>>

\* Mutant: whatever comes back counts as completed.
Ended_any(plan) == [plan EXCEPT !.status = "Completed"]

\* MaintenanceQueue::finish takes any plan, and completes it if it runs.
Ended(plan) ==
    IF plan.status = "Running" THEN [plan EXCEPT !.status = "Completed"] ELSE plan
Finish(plan) ==
    /\ finished' = Append(finished, Ended(plan))
    /\ taken' = taken \ {plan}
    /\ UNCHANGED <<queue, created, pushes>>

\* The worker gives up: it pushes the plan back as it is, or drops it.
PushBack(plan) ==
    /\ Push(plan)
    /\ taken' = taken \ {plan}
    /\ UNCHANGED <<finished, created>>
Lose(plan) ==
    /\ taken' = taken \ {plan}
    /\ UNCHANGED <<queue, finished, created, pushes>>

\* MaintenanceQueue::cancel_subject: the plans stay in the queue.
CancelSubject(subject) ==
    /\ \E i \in DOMAIN queue : queue[i].subject = subject /\ queue[i].status = "Queued"
    /\ queue' = [i \in DOMAIN queue |->
         IF queue[i].subject = subject /\ queue[i].status = "Queued"
         THEN [queue[i] EXCEPT !.status = "Cancelled"] ELSE queue[i]]
    /\ UNCHANGED <<taken, finished, created, pushes>>

MaintenanceNext ==
    /\ Idle
    /\ \/ \E subject \in Subjects, e \in PlanEpochs : NewPlan(subject, e)
       \/ NextReady
       \/ \E plan \in taken : \/ Begin(plan) \/ CancelTaken(plan) \/ Finish(plan)
                              \/ PushBack(plan) \/ Lose(plan)
       \/ \E subject \in Subjects : CancelSubject(subject)

---------------------------------------------------------------------------
\* Properties

\* Earlier(p, q): p is to be served before q.
Earlier(p, q) ==
    \/ p.scheduled < q.scheduled
    \/ p.scheduled = q.scheduled /\ p.pushed < q.pushed

\* A plan is handed out in its turn: not before its epoch, not after it was
\* cancelled, and no ready plan with an earlier epoch, or pushed earlier for
\* the same epoch, stays behind, wherever cancelled, stuck and pushed-back
\* plans are in the queue.
ServedInTurn ==
    [][\A plan \in taken' \ taken :
          (\E i \in DOMAIN queue : queue[i] = plan) =>
             /\ ReadyAt(plan, current_epoch)
             /\ \A i \in DOMAIN queue' :
                   ReadyAt(queue'[i], current_epoch) => Earlier(plan, queue'[i])
      ]_maintenanceVars

\* Work is done at most once, although a plan may be pushed back in any state
\* and come back in any state: every trace of a plan is in one place, begun
\* at most once, and only what was begun is completed.
Everywhere == taken \cup ToSet(queue) \cup ToSet(finished)
DoneAtMostOnce ==
    /\ \A p \in Everywhere : /\ p.attempts <= 1
                             /\ p.status = "Completed" => p.attempts = 1
                             /\ p.status = "Queued" => p.attempts = 0
    /\ \A i, j \in DOMAIN finished : finished[i].name = finished[j].name => i = j
    /\ \A p \in taken \cup ToSet(queue) :
          \A q \in taken \cup ToSet(finished) : p.name = q.name => p = q

\* Nothing blocks the queue: while somebody polls and the clock runs, every
\* waiting plan is handed out or cancelled, also behind plans that were
\* cancelled or pushed back while running and that never leave the queue.
Waiting(n) == \E i \in DOMAIN queue : queue[i].name = n /\ queue[i].status = "Queued"
EveryPlanServed == \A n \in 0 .. MaxPlans - 1 : Waiting(n) ~> ~Waiting(n)
=============================================================================
