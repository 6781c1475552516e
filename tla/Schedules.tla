----------------------------- MODULE Schedules -----------------------------
(***************************************************************************)
(* Repayment schedules of src/schedule: a builder divides a loan into      *)
(* instalments, which are then marked paid by epoch, in any order.         *)
(***************************************************************************)
EXTENDS Amounts, Sequences, Functions

CONSTANTS
    U64,                     \* 2^64: the product of epochs is not checked
    Loans, InstalmentCounts  \* inputs of a run

\* ScheduleBuilder
Loan == [start : Nat, maturity : Nat, principal : Amount, interest : Amount]

ASSUME ScheduleAssumption ==
    U64 \in Nat \ {0} /\ Loans \subseteq Loan /\ InstalmentCounts \subseteq Nat

VARIABLES
    loan,      \* the builder that the schedule was made by
    lines,     \* RepaymentSchedule::lines
    paidOn     \* history: the epochs that have been marked paid

scheduleVars == <<loan, lines, paidOn>>

Line == [due : Nat, principal : Amount, interest : Amount, status : {"Planned", "Paid"}]

\* Epoch::distance_to
Span(terms) == SaturatingSub(terms.maturity, terms.start)

\* ScheduleBuilder::bullet
Bullet(terms) ==
    <<[due |-> terms.maturity, principal |-> terms.principal,
       interest |-> terms.interest, status |-> "Planned"]>>

\* The epoch of instalment k of n: a product of two u64 that wraps (with
\* overflow checks the builder panics instead and there is no schedule).
DueEpoch(terms, k, n) == terms.start + ((Span(terms) * k) % U64) \div n

\* Mutant: the last instalment is like the others.
PrincipalDue_even(terms, k, n) == terms.principal \div n

\* The last instalment takes what the divisions have left over.
PrincipalDue(terms, k, n) ==
    IF k < n THEN terms.principal \div n
    ELSE SaturatingSub(terms.principal, (terms.principal \div n) * (n - 1))

\* ScheduleBuilder::equal_principal.  `push` refuses a second line for an
\* epoch, and keeps the lines in the order of their epochs.
EqualPrincipal(terms, n) ==
    [k \in 1 .. n |-> [due |-> DueEpoch(terms, k, n),
                       principal |-> PrincipalDue(terms, k, n),
                       interest |-> terms.interest \div n, status |-> "Planned"]]

\* `sort_by_key` by epochs that differ: the line of rank i comes i-th.
InDueOrder(s) ==
    [i \in DOMAIN s |-> s[CHOOSE k \in DOMAIN s :
        Cardinality({j \in DOMAIN s : s[j].due <= s[k].due}) = i]]

EqualPrincipalAccepted(terms, n) ==
    /\ n > 0 /\ Span(terms) >= n
    /\ \A j, k \in 1 .. n : j < k => DueEpoch(terms, j, n) # DueEpoch(terms, k, n)

NoLoan == [start |-> 0, maturity |-> 0, principal |-> 0, interest |-> 0]

ScheduleInit ==
    /\ loan = NoLoan
    /\ lines = << >> /\ paidOn = {}

BuildBullet(terms) ==
    /\ lines = << >>
    /\ lines' = Bullet(terms) /\ loan' = terms
    /\ UNCHANGED paidOn
BuildEqualPrincipal(terms, n) ==
    /\ lines = << >>
    /\ EqualPrincipalAccepted(terms, n)
    /\ lines' = InDueOrder(EqualPrincipal(terms, n))
    /\ loan' = terms
    /\ UNCHANGED paidOn

\* RepaymentSchedule::mark_paid: the line with that epoch, paid or not.
MarkPaid(e) ==
    /\ \E i \in DOMAIN lines : lines[i].due = e
    /\ lines' = [i \in DOMAIN lines |->
                   IF lines[i].due = e THEN [lines[i] EXCEPT !.status = "Paid"]
                   ELSE lines[i]]
    /\ paidOn' = paidOn \cup {e}
    /\ UNCHANGED loan

ScheduleNext ==
    \/ \E terms \in Loans : BuildBullet(terms)
    \/ \E terms \in Loans, n \in InstalmentCounts : BuildEqualPrincipal(terms, n)
    \/ \E i \in DOMAIN lines : MarkPaid(lines[i].due)

---------------------------------------------------------------------------
\* Properties

Principal(S) == SumFunction([i \in S |-> lines[i].principal])
RemainingPrincipal == Principal({i \in DOMAIN lines : lines[i].status # "Paid"})
ExpectedInterest == SumFunction([i \in DOMAIN lines |-> lines[i].interest])
DueUpTo(e) == {i \in DOMAIN lines : lines[i].due <= e}

\* The instalments are the loan: their principal adds up to it, whatever has
\* been paid, in whichever order and how often, remains to be paid by the
\* rest; the last one falls on the maturity and none before the second epoch;
\* what is due never runs more than an epoch ahead of an even repayment.  Of
\* the interest, less than one unit per instalment is lost (in the code it is
\* not carried over to the last line).  All of it as long as the product of
\* span and instalments fits in a u64.
InstalmentsExact ==
    LET n     == Len(lines)
        total == loan.principal
    IN  n > 0 /\ Span(loan) * n < U64 =>
          /\ Principal(DOMAIN lines) = total
          /\ RemainingPrincipal
               = total - Principal({i \in DOMAIN lines : lines[i].due \in paidOn})
          /\ lines[n].due = loan.maturity
          /\ \A i \in 1 .. n - 1 : loan.start < lines[i].due /\ lines[i].due < lines[i + 1].due
          /\ \A e \in loan.start .. loan.maturity :
               Principal(DueUpTo(e)) * Span(loan) <= total * (e - loan.start + 1)
          /\ ExpectedInterest <= loan.interest /\ loan.interest < ExpectedInterest + n
=============================================================================
