------------------------------ MODULE MCRefunds ------------------------------
(***************************************************************************)
(* Small instances of Refunds.  Amounts are chosen so that any two refunds *)
(* of an invoice fit into what was paid and three do not, and so that the  *)
(* threshold separates them.                                               *)
(***************************************************************************)
EXTENDS Refunds, TLC

CONSTANTS r1, r2, r3, i1, i2

Term4(i, amount, destination, origin) ==
    [invoice |-> i, amount |-> amount, destination |-> destination,
     origin |-> origin]

(* Staff refunds of one invoice, to the wallet and to the bank, beside the *)
(* debt of an order that ended without a contract.                         *)
StaffTerms == (r1 :> Term4(i1, 2, "wallet", "staff"))
           @@ (r2 :> Term4(i1, 1, "wallet", "order"))
           @@ (r3 :> Term4(i1, 2, "external_bank", "staff"))

(* A cancelled contract with a bank and a wallet obligation; the invoice   *)
(* of the second is the target of a staff refund to the bank as well.      *)
ContractTerms == (r1 :> Term4(i1, 1, "external_bank", "contract"))
              @@ (r2 :> Term4(i2, 1, "wallet", "contract"))
              @@ (r3 :> Term4(i2, 2, "external_bank", "staff"))

PaidThree == [i \in Invoices |-> 3]

PaidOneAndThree == (i1 :> 1) @@ (i2 :> 3)

FirstPartlyFunded == {i2}

AllFunded == Invoices

Symmetry == Permutations(Staff)

===============================================================================
