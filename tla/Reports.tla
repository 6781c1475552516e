------------------------------ MODULE Reports ------------------------------
(***************************************************************************)
(* The reports of src/portfolio and src/analytics.  A portfolio report     *)
(* adds up the views of positions by account and by pool; an analytics     *)
(* report takes portfolios in, sorts late principal into buckets of        *)
(* lateness, and can be merged with another one.                           *)
(***************************************************************************)
EXTENDS EpochClock, Amounts

CONSTANTS
    ReportIds,
    Buckets,      \* the four ranges of lateness of AnalyticsReport::new
    ViewOptions,  \* views that a position may have
    MaxViews, MaxReportCalls   \* bounds of a run

\* PortfolioView
View == [account : STRING, pool : STRING, state : STRING, maturity : Nat,
         principal : Amount, pending_interest : Amount, pending_penalty : Amount]
Bucket == [first : Nat, last : Nat]

\* The ranges do not overlap, and reach from one epoch to the last of a u64.
ASSUME ReportsAssumption ==
    /\ ViewOptions \subseteq View
    /\ Buckets \subseteq Bucket /\ IsFiniteSet(Buckets)
    /\ \A b, c \in Buckets : b = c \/ b.last < c.first \/ c.last < b.first
    /\ \A n \in 1 .. LastEpoch : \E b \in Buckets : b.first <= n /\ n <= b.last
    /\ MaxViews \in Nat /\ MaxReportCalls \in Nat

VARIABLES
    views,     \* the positions viewed, by number
    reports,   \* analytics reports
    calls,     \* bound: calls on reports; also tells them apart in the history
    \* history: what a report took in, see Intake
    totalled,  \* what its totals stand for
    bucketed   \* what its buckets stand for

reportsVars == <<views, reports, calls, totalled, bucketed>>

\* AnalyticsReport::new
NewReport(e) ==
    [generated |-> e, principal |-> 0, charges |-> 0,
     late |-> [b \in Buckets |-> [principal |-> 0, positions |-> 0]]]

ReportsInit ==
    /\ views = << >>
    /\ reports = [r \in ReportIds |-> NewReport(GenesisEpoch)]
    /\ calls = 0
    /\ totalled = [r \in ReportIds |-> {}]
    /\ bucketed = [r \in ReportIds |-> {}]

\* The views with numbers in S, taken in by a report of epoch e in call n.  A
\* view that is taken in twice counts twice.
Intake(S, e, n) == S \X {e} \X {n}

---------------------------------------------------------------------------
\* PortfolioReport::from_views, for the views with numbers in S

Open(v) == v.state \notin {"Closed", "Cancelled"}
OpenIn(S) == {i \in S : Open(views[i])}
IsLateAt(v, e) == e > v.maturity /\ Open(v)

\* The `+` and `sum` of Amount saturate.
Capped(x) == IF Fits(x) THEN x ELSE MaxAmount
PrincipalOf(S) == Capped(SumOver([i \in S |-> views[i].principal], S))
InterestOf(S) == Capped(SumOver([i \in S |-> views[i].pending_interest], S))
PenaltyOf(S) == Capped(SumOver([i \in S |-> views[i].pending_penalty], S))

\* AccountExposure and PoolExposureRollup
OfAccount(S, a) == {i \in OpenIn(S) : views[i].account = a}
OfPool(S, p) == {i \in OpenIn(S) : views[i].pool = p}
AccountsIn(S) == {views[i].account : i \in OpenIn(S)}
PoolsIn(S) == {views[i].pool : i \in OpenIn(S)}
AccountExposure(S, a, e) ==
    [principal |-> PrincipalOf(OfAccount(S, a)),
     open_positions |-> Cardinality(OfAccount(S, a)),
     late_positions |-> Cardinality({i \in OfAccount(S, a) : IsLateAt(views[i], e)})]
PoolRollup(S, p) ==
    [principal |-> PrincipalOf(OfPool(S, p)),
     pending |-> InterestOf(OfPool(S, p)) + PenaltyOf(OfPool(S, p))]

\* PortfolioReport::total_principal
TotalPrincipal(S) ==
    Capped(SumOver([p \in PoolsIn(S) |-> PoolRollup(S, p).principal], PoolsIn(S)))
\* the pending charges, with checked additions
TotalPending(S) ==
    SumOver([p \in PoolsIn(S) |-> PoolRollup(S, p).pending], PoolsIn(S))

---------------------------------------------------------------------------

AddView(v) ==
    /\ Len(views) < MaxViews
    /\ views' = Append(views, v)
    /\ UNCHANGED <<reports, calls, totalled, bucketed>>

CreateReport(r) ==
    /\ calls < MaxReportCalls
    /\ reports' = [reports EXCEPT ![r] = NewReport(current_epoch)]
    /\ totalled' = [totalled EXCEPT ![r] = {}]
    /\ bucketed' = [bucketed EXCEPT ![r] = {}]
    /\ calls' = calls + 1
    /\ UNCHANGED views

\* Mutant: the day after the last bucket bound falls between two buckets.
InBucket_gap(b, late_by) == b.first < late_by /\ late_by <= b.last

\* DelinquencyBucket::accepts
InBucket(b, late_by) == b.first <= late_by /\ late_by <= b.last

LateIn(S, b, e) ==
    {i \in S : IsLateAt(views[i], e) /\ InBucket(b, SaturatingSub(e, views[i].maturity))}

\* ingest_portfolio: the totals are replaced, the buckets added to.  When the
\* charges overflow, it fails with the principal replaced already.
Ingested(report, S) ==
    [report EXCEPT
        !.principal = TotalPrincipal(S), !.charges = TotalPending(S),
        !.late = [b \in Buckets |->
            LET late == LateIn(S, b, report.generated)
            IN  [principal |-> Capped(@[b].principal + PrincipalOf(late)),
                 positions |-> @[b].positions + Cardinality(late)]]]
Ingest(r, S) ==
    LET intake == Intake(S, reports[r].generated, calls)
    IN  /\ calls < MaxReportCalls
        /\ \/ /\ Fits(TotalPending(S))
              /\ reports' = [reports EXCEPT ![r] = Ingested(@, S)]
              /\ bucketed' = [bucketed EXCEPT ![r] = @ \cup intake]
           \/ /\ ~Fits(TotalPending(S))
              /\ reports' = [reports EXCEPT ![r].principal = TotalPrincipal(S)]
              /\ UNCHANGED bucketed
        /\ totalled' = [totalled EXCEPT ![r] = intake]
        /\ calls' = calls + 1
        /\ UNCHANGED views

\* AnalyticsReport::merge, with checked additions.  It consumes both reports,
\* and a failure loses them.
MergeFits(x, y) ==
    /\ Fits(x.principal + y.principal) /\ Fits(x.charges + y.charges)
    /\ \A b \in Buckets : Fits(x.late[b].principal + y.late[b].principal)
Merged(x, y) ==
    [x EXCEPT !.principal = @ + y.principal, !.charges = @ + y.charges,
              !.late = [b \in Buckets |->
                 [principal |-> x.late[b].principal + y.late[b].principal,
                  positions |-> x.late[b].positions + y.late[b].positions]]]
Merge(r, q) ==
    /\ r # q /\ calls < MaxReportCalls
    /\ \/ /\ MergeFits(reports[r], reports[q])
          /\ reports' = [reports EXCEPT ![r] = Merged(@, reports[q]),
                                        ![q] = NewReport(GenesisEpoch)]
          /\ totalled' = [totalled EXCEPT ![r] = @ \cup totalled[q], ![q] = {}]
          /\ bucketed' = [bucketed EXCEPT ![r] = @ \cup bucketed[q], ![q] = {}]
       \/ /\ ~MergeFits(reports[r], reports[q])
          /\ reports' = [reports EXCEPT ![r] = NewReport(GenesisEpoch),
                                        ![q] = NewReport(GenesisEpoch)]
          /\ totalled' = [totalled EXCEPT ![r] = {}, ![q] = {}]
          /\ bucketed' = [bucketed EXCEPT ![r] = {}, ![q] = {}]
    /\ calls' = calls + 1
    /\ UNCHANGED views

ReportsNext ==
    /\ Idle
    /\ \/ \E v \in ViewOptions : AddView(v)
       \/ \E r \in ReportIds :
            \/ CreateReport(r)
            \/ \E S \in SUBSET DOMAIN views : Ingest(r, S)
            \/ \E q \in ReportIds : Merge(r, q)

---------------------------------------------------------------------------
\* Properties

\* AnalyticsReport::principal_at_risk
AtRisk(report) ==
    Capped(SumOver([b \in Buckets |-> report.late[b].principal], Buckets))
LatePositions(report) == SumOver([b \in Buckets |-> report.late[b].positions], Buckets)

\* The intakes in C that are late, and what intakes add up to.
LateOf(C) == {c \in C : IsLateAt(views[c[1]], c[2])}
PrincipalOver(C) == Capped(SumOver([c \in C |-> views[c[1]].principal], C))

\* What a report tells, whatever portfolios it takes in, in whatever order
\* reports are merged, saturated or not, and after calls that fail halfway.
\* Its principal is that of the open positions in the last portfolio taken in,
\* merged reports added; but its buckets tell of all the portfolios taken in,
\* every late position of each of them in exactly one bucket.  So what is at
\* risk never exceeds the total as long as no second portfolio replaced the
\* totals of a first; after that it may, as the buckets keep the first one.
\* By account a portfolio adds up to the same as by pool.
ReportsAddUp ==
    /\ \A r \in ReportIds :
         /\ reports[r].principal = PrincipalOver({c \in totalled[r] : Open(views[c[1]])})
         /\ AtRisk(reports[r]) = PrincipalOver(LateOf(bucketed[r]))
         /\ LatePositions(reports[r]) = Cardinality(LateOf(bucketed[r]))
         /\ bucketed[r] \subseteq totalled[r] => AtRisk(reports[r]) <= reports[r].principal
    /\ LET all == DOMAIN views
           by(a) == AccountExposure(all, a, current_epoch)
       IN  /\ Capped(SumOver([a \in AccountsIn(all) |-> by(a).principal], AccountsIn(all)))
                = TotalPrincipal(all)
           /\ SumOver([a \in AccountsIn(all) |-> by(a).late_positions], AccountsIn(all))
                = LatePositions(Ingested(NewReport(current_epoch), all))
=============================================================================
