---------------------------- MODULE MCWalletLedger ----------------------------
(* A small wallet: commands chosen so that keys collide across wallets     *)
(* (k1) and across operations (k2, k3), so that holds, payments and        *)
(* reversals compete for the same money, and so that one row can be        *)
(* reversed under two keys.  The row that is released or reversed is named *)
(* by its id, so the ids are not interchangeable.                          *)
EXTENDS WalletLedger

CONSTANTS w1, w2, k1, k2, k3, r1

Command(op, w, type, amount, key, target, versioned) ==
    [op |-> op, wallet |-> w, type |-> type, amount |-> amount, key |-> key,
     ref |-> r1, target |-> target, versioned |-> versioned]

MCRequests ==
    LET t == CHOOSE id \in TxIds : TRUE
    IN  {Command("credit", w1, "topup", 2, k1, None, FALSE),
         Command("credit", w2, "topup", 2, k1, None, FALSE),
         Command("debit", w1, "payment", 1, k2, None, TRUE),
         Command("reserve", w1, "reservation", 2, k3, None, FALSE),
         Command("release", w1, "reservation", 0, k3, t, FALSE),
         Command("reverse", w1, "reversal", 0, k2, t, FALSE),
         Command("reverse", w1, "reversal", 0, k3, t, FALSE)}
===============================================================================
