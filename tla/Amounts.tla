------------------------------ MODULE Amounts ------------------------------
(***************************************************************************)
(* Fixed-point arithmetic of src/amount: amounts and accrual indices are   *)
(* u128 with checked operations, rates are basis points.  A checked        *)
(* operation is modelled by its exact integer result together with a       *)
(* ...Fits predicate that says whether the code returns it or an error.    *)
(***************************************************************************)
EXTENDS Integers, FiniteSets

CONSTANTS
    BPS_DENOMINATOR,   \* 10_000 in the code
    MAX_BPS,           \* largest Bps that Bps::new accepts, 100_000
    INDEX_SCALE,       \* index value "one", 10^12
    MaxAmount,         \* u128::MAX
    U32                \* 2^32, the modulus of the `as u32` conversion

ASSUME AmountsAssumption ==
    /\ BPS_DENOMINATOR \in Nat \ {0}
    /\ MAX_BPS \in Nat /\ BPS_DENOMINATOR <= MAX_BPS
    /\ U32 \in Nat /\ MAX_BPS < U32
    /\ INDEX_SCALE \in Nat \ {0}
    /\ MaxAmount \in Nat /\ INDEX_SCALE <= MaxAmount

Amount == 0 .. MaxAmount

\* Mutant: unchecked arithmetic.
Fits_unchecked(x) == TRUE

\* What checked_add and checked_mul test on the exact result.
Fits(x) == x <= MaxAmount

SaturatingSub(x, y) == IF x <= y THEN 0 ELSE x - y

\* A Rust `as u32` conversion keeps the low 32 bits.
AsU32(x) == x % U32

\* Amount::mul_bps: the product is checked, the quotient rounds down.
MulBps(x, bps) == (x * bps) \div BPS_DENOMINATOR
MulBpsFits(x, bps) == Fits(x * bps)

\* AccrualIndex::compound_bps
CompoundBps(index, bps) == index + (index * bps) \div BPS_DENOMINATOR
CompoundFits(index, bps) == Fits(index * bps) /\ Fits(CompoundBps(index, bps))

\* AccrualIndex::amount_delta: nothing accrues unless the index has grown.
AmountDelta(index, principal, previous) ==
    (principal * SaturatingSub(index, previous)) \div INDEX_SCALE
AmountDeltaFits(index, principal, previous) ==
    Fits(principal * SaturatingSub(index, previous))

(***************************************************************************)
(* The sum of f[i] over i \in S, as the size of a disjoint union: f[i]     *)
(* tagged units for every i.  (A fold would do for TLC; this form can also *)
(* be reasoned about with the theorems on finite sets.)                    *)
(***************************************************************************)
Units(f, S) == UNION { {i} \X (1 .. f[i]) : i \in S }
SumOver(f, S) == Cardinality(Units(f, S))

\* IdAllocator: ids are handed out in order; the next one of a book.
NextId(book, absent) ==
    { i \in DOMAIN book : /\ book[i] = absent
                          /\ \A j \in DOMAIN book : j < i => book[j] # absent }
=============================================================================
