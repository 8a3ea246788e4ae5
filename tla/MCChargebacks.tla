----------------------------- MODULE MCChargebacks -----------------------------
(***************************************************************************)
(* A small instance of Chargebacks: two top-ups of one wallet, with one    *)
(* provider reference between them; two events for the first, one of which *)
(* names it by its order and the other by the reference, where only the    *)
(* amount tells it from the second; and the second event is sent again     *)
(* with another content, an authority and an amount that do not agree.     *)
(***************************************************************************)
EXTENDS Chargebacks

CONSTANTS c1, c2, w1, e1, e2, o1, o2, r1, a1, a2

MCTopUp ==
    [c \in Credits |->
        IF c = c1 THEN [wallet |-> w1, amount |-> 2, order |-> o1, ref |-> r1,
                        authority |-> a1]
        ELSE [wallet |-> w1, amount |-> 1, order |-> o2, ref |-> r1,
              authority |-> a2]]

Notice(e, order, ref, authority, amount) ==
    [event |-> e, raw |-> [order |-> order, ref |-> ref,
                           authority |-> authority, amount |-> amount]]

MCDeliveries ==
    {Notice(e1, o1, r1, None, 2), Notice(e2, None, r1, None, 2),
     Notice(e2, None, None, a1, 1)}
===============================================================================
