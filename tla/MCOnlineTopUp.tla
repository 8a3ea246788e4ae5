---------------------------- MODULE MCOnlineTopUp ----------------------------
(***************************************************************************)
(* Small instances of OnlineTopUp.                                         *)
(***************************************************************************)
EXTENDS OnlineTopUp, TLC

CONSTANTS i1, i2, e1, r1, r2

Callback(e, i, status, r, webhook) ==
    [event |-> e, order |-> i, status |-> status, matches |-> TRUE,
     webhook |-> webhook, ref |-> r]

(* One event, first unpaid, then paid, and a browser return whose          *)
(* authority is not the stored one.                                        *)
UnpaidThenPaid ==
    {Callback(e1, i1, "unpaid", r1, TRUE), Callback(e1, i1, "paid", r1, TRUE),
     [Callback(e1, i1, "paid", r2, FALSE) EXCEPT !.matches = FALSE]}

(* One event id for a webhook of one order and a browser return of another.*)
TwoOrders ==
    {Callback(e1, i1, "paid", r1, TRUE), Callback(e1, i2, "paid", r2, FALSE)}

(* Calls are interchangeable.                                              *)
Symmetry == Permutations(Starters) \cup Permutations(Handlers)

===============================================================================
