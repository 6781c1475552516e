# ChronosDTL in TLA+

TLA+ modules, TLC configurations and TLAPS proofs for ChronosDTL, a ledger of
time-locked loans: accounts pledge collateral, borrow from pools whose rates
accrue per epoch, and their positions are locked, released, settled or swept.
Every definition follows the Rust sources under `src/src` (and, for the offline
stress report, `src/sdk/chronosClient.js`); `PROJECT.json` names the lines.

## 1. Inventory of the system

The crate is a library. One object, `ChronosLedger`, owns the books and is called
synchronously; there are no threads, no network and no persistence, so what makes
it hard is not concurrency within a call but

- **calls that fail halfway**: nothing is rolled back, so an error after the first
  assignment leaves a state that no successful call produces;
- **orders of calls**: positions have five derived states, deadlines that move with
  locks, and several calls (`lock_position`, `expire_position`) that accept more
  states than the diagrams of the documents show;
- **several books that tell one story**: an account's hold, a pool's aggregates and a
  position's collateral are three copies of one number;
- **time**: pools accrue one epoch at a time and may lag behind the clock;
- **rounding, limits and conversions** of fixed-point numbers;
- **independent actors** in governance, each with its own idea of the epoch.

| Component (source) | State | Operations | Talks to | What makes it correct |
|---|---|---|---|---|
| Arithmetic, ids (`amount`, `ids`) | none; id counters | checked u128, bps, index growth | everyone | errors instead of wrap-around; rounding in a known direction |
| Epoch clock (`time`) | epoch, seconds, boundary count | advance_seconds, advance_epochs, set_seconds_into_epoch | ledger (advance_epochs) | no second lost or counted twice |
| Assets, accounts (`asset`, `accounts`) | limits; balances and holds | credit, debit, reserve, release, debit_reserved | ledger | holds never exceed balances and match open collateral |
| Pools (`pools`) | liquidity, aggregates, collected charges | deposit, withdraw, borrow, repay, absorb, charge_off | ledger | aggregates are the sums over positions; cash is conserved |
| Rates (`rates`) | accrual state and history per pool | advance_to | ledger, pools (utilization) | consecutive epochs, indices that agree for equal epochs |
| Debt, expiry (`debt`, `expiry`) | none | quote, materialize, classify, sweep decision | positions, rates | interest neither lost nor invented; grace respected |
| Positions, locks (`position`, `locks`) | state, version, checkpoint, active lock; lock records | transitions, attach, release | ledger | lock and position stay bound; versions reveal change; final states are final |
| Risk (`risk`) | limits | evaluate_open, evaluate_lock | ledger | no loan above the utilization limit |
| Ledger facade (`ledger`, `settlement`) | all of the above, journal | register, create_pool, deposit, deposit_liquidity, open, lock, release, settle, expire, advance_epochs | all | all of the above, also after failures |
| Governance (`governance`) | operations with approvals | schedule, approve, execute, cancel; derived decision | its callers supply the epoch | what is executed had its quorum, delay, window and predecessor |
| Treasury (`treasury`) | fee routes, treasuries | upsert_route, accrue, distribute | nobody yet | treasuries hold what routes may distribute |
| Temporal stress (`capital`), SDK (`sdk`) | none | evaluate; computeTemporalStress | reads snapshots | both give one answer; roundings err on the safe side |
| Oracle (`oracle`) | price feeds and bands per asset | set_band, publish; latest, at_or_before | the epoch | a price that has been used is not rewritten; corrections win, whatever the order of arrival |
| Maintenance (`maintenance`) | queue of plans, finished plans | push, next_ready, finish, cancel_subject; begin and cancel by the worker | the epoch, workers | plans served in turn, done at most once, none blocked by others |
| Batches (`batch`) | manifests | push, seal, begin_execution, record_tx, complete, cancel | the epoch, whoever executes | what is executed is what was sealed |
| Schedules (`schedule`) | lines of a loan | bullet, equal_principal, mark_paid | nobody | the instalments are the loan |
| Lanes (`routes`) | lanes per route | add_lane, pause_lane; quote | the epoch | an offer stands until it is paused |
| Operators (`operators`) | profiles, permissions, windows, records | insert, grant, revoke, add_window, record_success, record_failure; authorize | the epoch | record and score do not contradict each other |
| Portfolio, analytics (`portfolio`, `analytics`) | reports | from_views, ingest_portfolio, merge | views of positions | a report stands for its positions, each once |
| Audit (`audit`) | findings | observed supply, pool bounds | snapshots of the ledger | the books balance |
| Events, codec, scenario | journal, encodings, fixtures | append-only | the ledger | out of scope |

## 2. Modules

| Module | Models | State and actions |
|---|---|---|
| `Amounts` | `amount`, `ids` | operators: an exact result and a `...Fits` predicate for each checked operation; `AsU32` for `as u32` |
| `Pools` | `PoolState` | operators that return the new pool and whether the method succeeded; a failing method returns the fields assigned so far |
| `Debt` | `rates`, `debt`, `position`, the lock and grace rules | operators on accrual states and positions |
| `Ledger` | `ChronosLedger` | one variable per book; one action per public call, built from the methods of `AccountState` (`Credit`, `DebitAvailable`, `Reserve`, `Release`, `DebitReserved`) and the outcomes of `Pools` |
| `LedgerProperties` | `audit` (observed supply, pool findings) | the type invariant, safety, action and liveness properties, and five of the statements of the documents that the code does not keep |
| `EpochClock`, `WallClock` | `EpochClock` of `time` | the loops of advance_seconds and advance_epochs round by round; what they implement |
| `Governance`, `GovernanceProperties`, `PolicyLifecycle` | `GovernanceRegistry` | schedule, approve, execute, cancel and the ticks of the clock; what they implement |
| `Treasury` | `FeeRouter` | upsert, accrue, distribute |
| `Stress` | `TemporalStressEngine`, `computeTemporalStress` | operators over a portfolio that grows position by position |
| `Oracle`, `Maintenance`, `Batches`, `Lanes`, `Operators`, `Reports` | the books of the same names | each extends `EpochClock`, whose epoch it reads; one action per call; the properties of the book |
| `Schedules` | `ScheduleBuilder`, `RepaymentSchedule` | the builders as operators, marking as an action |
| `InOrder` | the inserting loops of queue, feeds and windows | insertion before the first element that is later, removal |
| `Desk` | | the clock and the seven books in one specification, with its fairness |
| `MC*` | | small instances for TLC |
| `AmountProofs` | | lemmas on quotients that round down, on indices and on sums, for all modules below |
| `LedgerProofs`, `RateProofs`, `ConservationProofs` | | theorems on the ledger, each module on top of the one before |
| `GovernanceProofs`, `TreasuryProofs`, `DeskProofs`, `StressProofs` | | theorems on the other components; those on the clock are in `DeskProofs` |

`Ledger` composes `Amounts`, `Pools` and `Debt` by extension, `Desk` composes the
clock with the books beside the ledger. `EpochClock` and `Governance` refine
`WallClock` and `PolicyLifecycle` through `INSTANCE ... WITH`.

### How the ledger model reads

`RegisterAssetConfig`, `CreatePool`, `Deposit`, `DepositLiquidity`, `OpenPosition`,
`LockPosition`, `ReleaseLock`, `SettlePosition`, `ExpirePosition` and
`AdvanceEpochs` are the calls. A call that returns an error before it changed
anything is not a step. A call that fails after a change is a disjunct of its action
that keeps the changes made so far and adds `"partial"` to `anomaly`. This history
variable (never read by an action) also records `"stalled"`, an aborted
`advance_epochs`, and `"replay"`, a lock, settlement or sweep of a position that had
been swept. Properties about regular histories name the anomalies they exclude, and
the runs that expect a violation show that the code reaches each of them.

`advance_epochs` moves the clock, then visits the pools of a hash map for each epoch
crossed. The model takes one step per pool and epoch (`AccruePool`, `LeavePool`), in
every order, and `StallAdvance` is the early return of the `?`. No other call is
enabled in between, as the call holds `&mut self`.

Left out, because nothing reads it back: journal and transition log, nonces, labels,
lock owner, mode, operator and reference, the previous checkpoint stored in a lock
snapshot, the last rate and utilization of an accrual state. `opened` is the rate
history sampled at the opening epoch. Ids of failed calls, which leave gaps, are
renumbered. The ledger's configuration is constant.

### Governance

The registry has no clock: each caller passes an epoch. The model has a clock `now`
and lets a caller use any epoch at most `MaxLag` behind it. Decisions are derived,
not stored, as in the code. Digests are assumed injective (an operation is its
identity) and checks of text fields are left out.

### Treasury, clock and stress

`UpsertRoute` puts any route in the place of another, counters and recipient included,
as `upsert_route` does (a `FeeRoute` is a copyable value with public fields, and
`route()` hands out one with its counters). `Accrue` and `Distribute` change the
route, then the treasury. The history variables `unfunded` and `orphaned` name the
treasuries that a step left with less, or more, than their routes claim: a call that
failed in between, or an upsert. `EpochClock` keeps the argument of a running call
(`remaining`, `rounds`), one round per step. `Stress` has no program state: its
variables are the inputs of one evaluation. Engine and SDK are separate operators
wherever their code differs (ceilings, overflow checks, limits on the input, cap of
the coverage) and shared where it is the same; the limits of the SDK, 128 pools and
4,096 positions, are the constants `ClientPools` and `ClientPositions`.

### The desk

Nothing in the crate connects these seven books with the ledger or with one another;
what they share is the epoch. A behaviour of `Desk` exercises one of them, chosen
initially, together with the clock (the clock alone moves by seconds too), so that
the states of the books are added and not multiplied; a property of one book could
not be violated with the help of another. A call of a book happens between two calls
of the clock (`Idle`).

- `Oracle`: a price of a later epoch counts as fresh (the distance saturates), and
  feeds are re-sorted with every arrival. `published` is the history of arrivals.
  A band carries its own staleness (a public field, 3 unless set), and may be replaced.
- `Maintenance`: a plan handed out is owned by its worker, in `taken`; the worker
  begins, cancels or finishes it, pushes it back in whatever state it is, or loses it
  (`PushBack`, `Lose`: what an owner may do with the value, not code of the crate).
- `Batches`: instructions are opaque; transactions are counted, since nothing reads
  their ids. More of them than instructions are accepted, as in the code. The epoch of a
  seal is the argument of the call, any of `SealEpochs`; `sealedAs` keeps what was sealed.
- `Schedules`: the product of span and instalment wraps at `U64`.
- `Lanes`: a route is a triple of pools and asset; `offered` and `withdrawn` record
  what was added and paused.
- `Operators`: `active` is a public field, so whoever holds the profile sets it.
- `Reports`: views are added one by one; an analytics report takes in any portfolio of
  them, again and again, and `merge` consumes its second report. `+` and `sum` of
  `Amount` saturate, `checked_add` fails: both are modelled, with the totals that a
  failing `ingest_portfolio` has replaced already. `totalled` and `bucketed` record what
  the totals and what the buckets of a report stand for, which differ once a second
  portfolio is taken in.

## 3. What the runs check

All bounds are CONSTANTS in the `.cfg` files. Amounts, basis points and indices
are scaled down in the ledger runs (a basis point is a tenth, an index starts at 10),
so that rounding, range limits and the 32-bit conversion show with small numbers;
`Stress` uses the denominators of the code.

| Run | Question | Bounds and why they are enough |
|---|---|---|
| `ledger_books` | do accounts, pools, positions, locks and debts agree through every order of calls? | two positions of one borrower sharing a hold, two locks, six epochs, interest of 30 % per epoch: opening, lock, second lock (so two materializations), release, settlement, sweep and a sweep again all fit, with interest that exceeds what the roundings lose |
| `ledger_pools` | utilization and accrual with pools created and funded on the way; what do failing calls leave behind; does advance_epochs end? | two pools, one with a curve that leaves the range of `Bps`, two loans of two sizes (both large ones together exceed the utilization limit), an asset that stops lending, jumps of one and two epochs; the largest amount is near the balances, so that credits, pool counters and conversions overflow |
| `governance_chain` | are executions justified, is nothing taken back, is the life cycle implemented, does every operation end? | an operation and its predecessor, three governors of whom one is the guardian, a stranger, quorum two, callers up to two epochs behind a clock of six, fairness of the clock |
| `treasury_routes` | do routes and treasuries agree? | the routes of two pools, two recipients, largest amount 2, so that a treasury shared by routes overflows first; every route there can be is put in (overdrawn ones too), at any time; symmetric in pools and recipients |
| `desk_books` | is the loop of the clock one addition of seconds, and do the seven books keep their promises? | epochs of four seconds, five epochs to the last one, arguments below, at and above the boundaries and beyond the end; three publications at four epochs, with bands of two widths and staleness zero and one; two plans pushed four times in all; a batch of two instructions and up to three transactions, sealed with an epoch that is past or to come; loans that the instalments do not divide, whose span wraps, that are as long as they have instalments, or mature already; three lanes out of five offers (dearer than the amount, expired, draining, two of one operator); an operator with two windows and three records at the caps of the score; two views of which two together overflow, two reports, three calls |
| `stress_agree` | does the SDK foresee the engine; are roundings safe; is concentration visible? | three positions, two borrowers, two pools, overflowing at several steps; the client takes two positions only, so that the engine evaluates portfolios which the client refuses for their size |

The ledger, governance and stress runs switch deadlock checking off: their clock and
their ids are bounded, so they may stop. The treasury and the desk never do.

`AuditBalanced` states in the ledger run what `audit` computes from a snapshot: the
observed supply lies between what was deposited and that plus the charges collected
(reserves are booked on top of the liquidity), and a pool has no finding.

`TypeOK` is checked where it is not a matter of shape: it says that everything
stored stays within u128, which rests on every `Fits` of every action. `Stress` has
none, as its variables are inputs.

### Disagreements with the documents

Six statements quoted from the repository are checked by runs that expect a
violation (`findings` in `PROJECT.json` has the quotes):

| Run | What the code does |
|---|---|
| `ledger_boundary` | a lock within one epoch of the maturity replaces the checkpoint without materializing: accrued charges vanish |
| `ledger_resweep` | a swept position can be swept again and takes the hold of another position |
| `ledger_ratelag` | a steep curve fails before it is capped, and the pools fall behind the clock |
| `ledger_emptypool` | the utilization is narrowed to 32 bits, so an opening on an empty pool fails only after reserving the collateral |
| `ledger_twolocks` | a second lock is accepted beside the first; releasing the first then unlocks the position while the second has still to run |
| `governance_stale` | a caller whose epoch lags executes an operation that has expired by the clock (`LifecycleNeverRegresses` admits this one regression, `RevivedByStaleCaller`, and no other) |

The models reach the following differences and surprises too, and the properties
above hold in spite of them; they have no run of their own:

- a swept position can be locked, and becomes Locked or Active, although
  `README.md:88` ends its life with the sweep;
- a position that is still Locked is swept as such once release and grace have passed,
  although `README.md:80-84` only leaves Locked by release or settlement;
- with a sweep delay of zero, which `EpochPolicy::validate` admits, the last epoch of the
  grace can be swept while a quote still says InGrace (`SweepAfterGrace` names it);
- a route read, given another recipient and put back claims its open fees from a treasury
  that never received them, so that `distribute` then fails halfway, and leaves them
  pending in the old one (`PendingCoversRoutes` says of which treasuries that is true);
- `pause_lane` pauses the first lane of an operator only, so a second one stays open;
- a schedule drops the remainder of the interest (less than a unit per instalment),
  while the remainder of the principal goes to the last line;
- a report that takes in a second portfolio, even one without a position of the first,
  replaces its totals and adds to its buckets, so that more may be at risk than there is
  (`ReportsAddUp` says what totals and buckets stand for, and when they agree);
- the SDK refuses more than 128 pools or 4,096 positions, which the engine evaluates
  (`SdkAgreesWithEngine` says that this is all it refuses of what the engine accepts);
- the guardian cancels ready, blocked and expired operations, although the diagram of
  `docs/governance.md:45-46` has it cancel pending and timelocked ones, and
  nothing keeps it from approving when it is also a governor (`README.md:135`), as one
  is in `governance_chain`;
- `ratio_bps` caps the coverage at 100,000 bps; the formula of
  `docs/economic-model.md:45` and the SDK do not (`SdkAgreesWithEngine` compares them
  below the cap).

### Fairness

`Ledger!FairSpec` has `WF_vars(AdvanceLoop)` and `EpochClock!FairSpec` has
`WF_vars(Loop)`: both loops run to their end within one call. `Governance!FairSpec` has
weak fairness of the tick only: time goes on, and nobody is obliged to approve,
execute or cancel. `Desk!FairDesk` has weak fairness of the loop of the clock, as above,
and, for the maintenance queue only, weak fairness of time and strong fairness of
`Polling`: `EveryPlanServed` says that *if* the host advances the clock and polls now
and then, no plan waits for ever. That the host does so is an assumption, since nothing
in the crate calls `next_ready`. The fairness is strong because a call of the clock in
progress disables the poll for a moment. Nothing is assumed of the workers.

## 4. What is proved

Every safety and action property that a passing run checks is proved, besides the two
refinements. The theorems hold for every number of accounts, pools, positions, locks,
operations, routes, plans, views and reports, every policy and unbounded time, under
the `ASSUME`s of the modules, which state what the constructors and `validate`
functions of the code enforce, and that books are finite.

| Theorem | Statement |
|---|---|
| `LedgerProofs!TypeCorrect` | `Spec => []TypeOK` |
| `LedgerProofs!HoldsCovered` | `Spec => []HeldWithinBalance` |
| `LedgerProofs!LocksBound` | `Spec => []LockBinding` |
| `LedgerProofs!VersionsDetectChange`, `ClosedFinal`, `SweepsWaitForLocks` | the action properties `VersionDetectsChange`, `ClosedIsFinal`, `NoSweepUnderLock` |
| `LedgerProofs!SweepsFollowGrace` | the action property `SweepAfterGrace`, for every sweep delay; at zero the two computations of the grace share its last epoch |
| `RateProofs!RatesFollow`, `CheckpointsConsistent` | `RatesFollowClockUnlessStalled`, `CheckpointsAgree` |
| `RateProofs!InterestAccounted`, `DebtNeverFalls` | `InterestFullyAccounted`, and the action property `DebtNeverFallsOffBoundary` |
| `ConservationProofs!HoldsMatch`, `PoolsMatch`, `Conservation` | `HoldsMatchCollateral`, `PoolMatchesPositions`, `CashConserved` |
| `ConservationProofs!UtilizationLimited`, `AuditHolds` | `UtilizationWithinLimit`, `AuditBalanced` |
| `GovernanceProofs!ExecutionsJustified`, `Refinement` | `ExecutionJustified` and `Spec => ImplementsLifecycle`, for every staleness of the callers |
| `GovernanceProofs!NeverRegresses` | the action property `LifecycleNeverRegresses` |
| `TreasuryProofs!TypeCorrect`, `CountersCovered` | the counters of routes and treasuries |
| `TreasuryProofs!RoutesCovered` | `PendingCoversRoutes` |
| `DeskProofs!TypeCorrect`, `BoundariesConsecutive`, `Refinement` | the clock, and `Spec => ImplementsWallClock` |
| `DeskProofs!SealsHold` | batches: `DeskSpec => []ExecutedAsSealed` |
| `DeskProofs!OffersHold` | settlement lanes: `OffersStand` |
| `DeskProofs!WorkDoneOnce`, `TurnsKept` | maintenance: `DoneAtMostOnce` and the action property `ServedInTurn` |
| `DeskProofs!RecordsHonest` | operators: the action property `RegistryHonest` |
| `DeskProofs!NewestPriceFound`, `QuotesFinal` | prices: `LastPublicationWins` and the action property `QuotesSettle` |
| `DeskProofs!InstalmentsAddUp` | repayment schedules: `InstalmentsExact` |
| `DeskProofs!ReportsTruthful` | reports: `ReportsAddUp` |
| `StressProofs!ClientForesees`, `PassedMeansCovered`, `IndexShowsLargest` | `SdkAgreesWithEngine`, `SatisfiedMeansCovered`, `HhiShowsLargestBorrower` |

**Ledger.** `TypeOK`, `HeldWithinBalance` and `LockBinding` are inductive only together.
After a sweep the balance is a subtraction of what the code compared with the hold
only, so its type needs `HeldWithinBalance`; the lock that a settlement releases
exists because of `LockBinding`; and both need typed books. The lemmas on the
operators come first: each pool and position method leaves a typed record, also where
it fails halfway. The action properties follow from the invariant in the state
before the step. A sweep absorbs the whole collateral whatever penalty is configured
(`AbsorbsAll`), so the release of a remainder, which `ExpirePosition` has like the code,
never runs (`ExpireTakesAll`).

**Rates.** Between the steps of the loop the rates are not at the clock. `LoopInv` says
where they are: pools still in `todo` are one epoch behind `accruing`, the others at it,
until a stall. For the checkpoints, `CheckInv` adds that every position is in a live
pool, so that `create_pool` resets no rates under it; then the rates only move on
(`RatesMove`) or one position takes those of its pool as its new checkpoint.

**Debt.** A checkpoint splits the growth of an index into two quotients that both round
down, and loses at most one unit. `AccountInv` counts: the pending interest of a position
is the growth from its opening to its checkpoint, less at most one unit for each lock
after the first (the first checkpoint is the opening itself). It speaks of positions that
took no lock within an epoch of the maturity, where the code drops what has accrued
(`ledger_boundary`). `StepsMoveDebt` sorts the steps: every one leaves the debt of a
position as it is or grows it with the rates, takes a lock, or opens the position; then
`DebtNeverFalls` compares the quotients before and after.

**Sums.** `SumOver(f, S)` is the size of a disjoint union, one set of `f[i]` units for
each `i`. So it is proved without induction that changing one term moves the sum by
the difference (`SumUpdate`), and that terms equal to zero may be left out. Where
induction over a finite set cannot be avoided (bounds term by term, sums by groups, and
that `SumFunctionOnSet` of the community modules is the same sum), `SubsetInduction`
replaces the library's rule, whose parameter is an operator, by one whose parameter is a
set of subsets; it rests on the well-foundedness of inclusion. `LeastNat` gets least
elements in the same way.

**Conservation.** The three balances are inductive only together (`BooksInv`): a
settlement subtracts from the collateral of the pool with saturation, which is exact
because that sum contains the position. Pools that do
not exist yet must be empty, or `create_pool` would lose what is in them. Each call then
moves the terms of one position, one balance and one pool; a call that fails halfway
leaves the regular histories the properties speak of. `AuditHolds` adds `ReserveInv`:
reserves hold what the sweeps took, and at most the collected charges on top, because
the share of a charge that is reserved rounds down and is at most the charge.

**Utilization.** `LimitInv` bounds the utilization of every pool, live or not. It is kept
because utilization is principal over principal and liquidity: of the four methods,
repayment and charge-off lower the principal, a deposit raises the liquidity, and a
borrowing is checked; the check sees the number that is reached, since the narrowing to 32
bits changes none that a pool can reach (`NarrowingExact`).

**Governance.** The invariant adds to the two what the record of an executed operation
says (quorum and times as they were when it ran); that justification survives later
steps because approvals only grow and executed predecessors stay executed. For the
refinement, each call moves the phase of the one operation it names. For
`NeverRegresses`, what a stage waits for (time, quorum, predecessor) is never taken back
once it is there; only an execution at an epoch before the clock's leaves `Expired`, and
the lag of callers bounds by how much.

**Clock.** `crossed` ends with the present epoch because nothing but `NextBoundary`
moves the epoch. The refinement needs that a quotient is unique
(`(c * E + s) \div E = c` for `s < E`) and that giving up happens only beyond the last
epoch.

**Treasury.** The second addition of `TreasuryAccount::receive` cannot overflow after
the first, because `NothingOverdrawn` keeps the pending part below the balance. A
successful `accrue` or `distribute` changes the undistributed part of one route and the
pending part of its treasury by the same amount, so what the routes into a treasury claim
and what it has pending stay equal (`OneRouteMoves`, a lemma on sums), in each direction
until something named in `PendingCoversRoutes` befalls the treasury. A route that has been
overdrawn counts as a claim of zero, which is why its treasury is in `orphaned`.

**The desk.** `DeskMoves` says that a step moves one book by its own action, or the clock,
and leaves the rest; so each book has an invariant of its own. The theorems are about
`DeskSpec`, which the fair specification of the run implies.

- `BatchInv`: from the seal on, or once a transaction is recorded, the instructions are
  those that were sealed, and so is the epoch.
- `LanesInv`: what a route holds was offered, at most paused since, and an offer stays as
  it was made until its operator is paused, although a pause reaches one lane only. The
  cheapest lane is then no worse than any standing offer.
- `QueueInv`: the queue is in order of epoch and push, and every plan is in one place.
  Workers may hand plans back in any state, so that the state of a plan says nothing of
  where it is; the argument is about names.
- `ProfilesInv` bounds the score by its cap; a record of success or failure then moves
  score and failure ratio in the same direction, or neither, in spite of the roundings.
- `FeedsInv`: a feed holds the publications of its asset, each once, so that every one
  supersedes those before it. As two prices of one epoch may be equal, the invariant says
  that there is a sequence of publication numbers beside the feed. What a band still
  admits is inserted behind everything that the search for a settled epoch looks at.
- `ScheduleInv`: unless the product has wrapped, all lines but the last are equal, the
  last takes the rest and falls on the maturity, and every line is at most an epoch early.
  `InDueOrder` sorts by rank and not with the `SortSeq` of the library, which the prover
  has no definition of; the proof shows that the ranks of different epochs are a
  permutation, and that it leaves lines alone which are in order already.
- `ReportsInv`: the total of a report is that of the intakes in `totalled`, its buckets are
  those of the intakes in `bucketed`, one by one. Additions that saturate may be capped
  one after the other or at the end (`CappedAdds`, `CappedGroups`), the buckets divide up all lateness there can be
  (`BucketsDivide`), and a merge that does not fail has capped nothing that it adds up.

**Stress.** The type of the inputs suffices as invariant. Engine and SDK round up by
different formulas, which `StressProofs` reduces to one least number; the checks for
overflow of the engine are then at least those of the SDK, pool by pool, so that only
the size of the input is left for the SDK to refuse. What lets a pool pass is followed
through three ceilings and a floor in exact arithmetic (`RoundingsSafe`). The square of
the largest share is one term of the concentration index, which bounds it from below;
from above it is bounded by the largest share times the sum of all, which is at most
one.

**Model-checked only.** Liveness: `AdvanceReturns`, `EveryOperationEnds`, `CallsReturn`,
`EveryPlanServed`. The prover has no rule for `ENABLED`, on which fairness rests. The six
statements of the documents are counterexamples, which TLC finds.

## 5. What is left

- `PoolState::withdraw_liquidity` and `absorb_collateral`, which the ledger never calls.
- Replicas: two ledgers given the same calls, with pools visited in different orders.
  The safety properties hold for every order (`LeavePool`); that two orders differ when
  an advance fails is visible in `ledger_ratelag`.
- The safety half of the liveness properties: variants that the loops of `advance_epochs`
  and of the clock count down, from which their end would follow by hand.

## 6. Not modelled

- Formatting, text validation, hashing and serialization: `codec`, `events`, `error`,
  text parsing in `amount` and `ids`, subjects of maintenance plans, labels and memos.
- The HTTP client of the SDK, `scenario` (fixtures), tests and scripts.
- The metric series and windows of `analytics` and the list of findings of `audit`:
  they store samples and messages that nothing reads back.
- Conversions that are pure functions of their arguments and whose result nothing
  stores: prices applied to amounts (`oracle`), minimum received (`routes`), hints
  and summaries (`batch`).
