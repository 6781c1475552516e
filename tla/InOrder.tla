------------------------------ MODULE InOrder ------------------------------
(***************************************************************************)
(* Insertion into an ordered sequence.  The queue of src/maintenance looks *)
(* for the first entry that comes later and inserts before it; the price   *)
(* feeds and service windows of src/oracle and src/operators push at the   *)
(* end and sort, which, the sort being stable, comes to the same.          *)
(***************************************************************************)
EXTENDS SequencesExt

\* Before the first of the places in `later`, or at the end.
Before(s, later) ==
    IF later = {} THEN Len(s) + 1
    ELSE CHOOSE i \in later : \A j \in later : i <= j
InsertBefore(s, later, e) == InsertAt(s, Before(s, later), e)
=============================================================================
