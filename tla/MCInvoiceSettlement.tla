------------------------ MODULE MCInvoiceSettlement ------------------------
(***************************************************************************)
(* A small instance of InvoiceSettlement: an invoice of three, an invoice  *)
(* receipt of two that pays part of it, and a wallet receipt of three that *)
(* pays all of it, exceeds what is left of it, or goes to its replacement. *)
(* Both reach the threshold of two when it is in force.                    *)
(***************************************************************************)
EXTENDS InvoiceSettlement, TLC

CONSTANTS r1, r2, i1, i2

Sent(kind, i, amount) == [kind |-> kind, invoice |-> i, amount |-> amount]

MCTerms == (r1 :> Sent("invoice", i1, 2)) @@ (r2 :> Sent("wallet", None, 3))

Symmetry == Permutations(Staff)

MCTotal == [i \in Invoices |-> 3]

===============================================================================
