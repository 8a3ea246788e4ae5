----------------------------- MODULE RefundBudget -----------------------------
(***************************************************************************)
(* What refunds promise to the invoices they are paid from, without staff, *)
(* approvals, jobs, attempts or transfers: a refund claims its amount once *)
(* and while there is room for it; the claim is then paid, which moves the *)
(* amount from what is reserved to what is returned in one step, or it is  *)
(* dropped, which frees it; and either way that is the end of the refund.  *)
(***************************************************************************)
EXTENDS Integers

CONSTANTS Refunds, Invoices, Terms, Paid

VARIABLES
    claimed,    \* refunds that may still be paid
    dropped,    \* refunds that never will be
    paid,       \* refunds that were
    reserved,   \* what the claimed refunds of an invoice may still take
    returned    \* what the paid ones took

budgetVars == <<claimed, dropped, paid, reserved, returned>>

Init ==
    /\ claimed = {} /\ dropped = {} /\ paid = {}
    /\ reserved = [i \in Invoices |-> 0]
    /\ returned = [i \in Invoices |-> 0]

Claim(r) ==
    LET i == Terms[r].invoice
    IN  /\ r \notin claimed \cup dropped \cup paid
        /\ returned[i] + reserved[i] + Terms[r].amount <= Paid[i]
        /\ claimed' = claimed \cup {r}
        /\ reserved' = [reserved EXCEPT ![i] = @ + Terms[r].amount]
        /\ UNCHANGED <<dropped, paid, returned>>

Drop(r) ==
    /\ r \in claimed
    /\ claimed' = claimed \ {r}
    /\ dropped' = dropped \cup {r}
    /\ reserved' = [reserved EXCEPT ![Terms[r].invoice] = @ - Terms[r].amount]
    /\ UNCHANGED <<paid, returned>>

Pay(r) ==
    /\ r \in claimed
    /\ claimed' = claimed \ {r}
    /\ paid' = paid \cup {r}
    /\ reserved' = [reserved EXCEPT ![Terms[r].invoice] = @ - Terms[r].amount]
    /\ returned' = [returned EXCEPT ![Terms[r].invoice] = @ + Terms[r].amount]
    /\ UNCHANGED dropped

Next == \E r \in Refunds : Claim(r) \/ Drop(r) \/ Pay(r)

Spec == Init /\ [][Next]_budgetVars
===============================================================================
