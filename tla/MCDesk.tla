------------------------------- MODULE MCDesk -------------------------------
(***************************************************************************)
(* Instances of the desk for TLC: five epochs of four seconds, the last of *)
(* which is the last that a u64 can count, and for each book inputs that   *)
(* meet its corners (see the README).                                      *)
(***************************************************************************)
EXTENDS Desk

\* A narrow band, and a wide one that is satisfied with older prices.
MCBands == {[lower |-> 1, upper |-> 1, staleness |-> 0],
            [lower |-> 1, upper |-> 2, staleness |-> 1]}

\* A loan over seven epochs that no number of instalments divides, with a
\* product of epochs that wraps at 16 for three instalments and more, a loan
\* over as many epochs as it has instalments, and one that is mature already.
MCLoans ==
    [start : {0}, maturity : {7}, principal : {1, 7, 10}, interest : {0, 5}]
      \cup {[start |-> 1, maturity |-> 4, principal |-> 10, interest |-> 5],
            [start |-> 3, maturity |-> 3, principal |-> 10, interest |-> 5]}

Offer(operator, most, fee, from, until) ==
    [operator |-> operator, max_notional |-> most, fee_bps |-> fee,
     status |-> "Active", valid_from |-> from, valid_until |-> until]

\* Fees of 10 %, 20 %, nothing, and more than the amount; two lanes of one
\* operator; one that only drains.
MCLaneOffers ==
    {Offer("ann", 10, 1, 2, 6), Offer("ben", 40, 2, 2, 4), Offer("ann", 40, 0, 4, 5),
     Offer("cid", 40, 30, 3, 6),
     [Offer("ben", 40, 0, 2, 6) EXCEPT !.status = "DrainOnly"]}

MCServiceWindows ==
    {[pool |-> 1, start |-> 2, end |-> 3, max_notional |-> 10],
     [pool |-> 2, start |-> 4, end |-> 6, max_notional |-> 40]}

MCBuckets == {[first |-> 1, last |-> 1], [first |-> 2, last |-> 3],
              [first |-> 4, last |-> 7], [first |-> 8, last |-> 1000]}

ViewOf(account, pool, state, maturity, principal, interest, penalty) ==
    [account |-> account, pool |-> pool, state |-> state, maturity |-> maturity,
     principal |-> principal, pending_interest |-> interest, pending_penalty |-> penalty]

\* Late by up to five epochs in the course of the run; two of the positions
\* together exceed the largest amount.
MCViews ==
    {ViewOf("bo", "p1", "Active", 1, 20, 0, 12), ViewOf("bo", "p2", "Locked", 5, 15, 14, 0),
     ViewOf("cy", "p1", "Closed", 2, 7, 1, 1)}
=============================================================================
