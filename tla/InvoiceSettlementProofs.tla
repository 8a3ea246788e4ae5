---------------------- MODULE InvoiceSettlementProofs ----------------------
(***************************************************************************)
(* Proofs about InvoiceSettlement, for any number of members, invoices,    *)
(* receipts and keys and any amounts and thresholds.                       *)
(*                                                                         *)
(* An invoice's state agrees with its amount only because a receipt's      *)
(* allocation is bounded by what remains, and what remains is never        *)
(* negative only because the state agrees: types and agreement are proved  *)
(* together.  The rule of two members needs one more fact, that the        *)
(* request of a receipt that is still open was never overridden.           *)
(*                                                                         *)
(* That no money is made or lost is proved by what each step does to the   *)
(* sums over receipts and payments (FiniteSums).                           *)
(***************************************************************************)
EXTENDS InvoiceSettlement, FiniteSums

(* An override settles its receipt at once.                                *)
OpenIsNotOverridden ==
    \A r \in Receipts :
        Exists(r) /\ ~Settled(r) /\ Request(r) # None => ~Request(r).override

IInv ==
    /\ TypeOK
    /\ InvoiceAgrees
    /\ ArchivedIsFrozen
    /\ OpenIsNotOverridden

-------------------------------------------------------------------------------
(* Amounts                                                                 *)

(* What a receipt leaves on its invoice and in the wallet: neither part is *)
(* negative, and the invoice takes no more than remains of it.             *)
LEMMA AllocationIsBounded ==
    ASSUME TypeOK, InvoiceAgrees, NEW r \in Receipts,
           NEW target \in Invoices \cup {None},
           target # None => invoice[target] # None
    PROVE  LET facts == CurrentFacts(r, target)
               a == Allocation(r, facts)
           IN  /\ a \in 0..Terms[r].amount
               /\ target = None => a = 0
               /\ a # 0 => /\ target \in Invoices
                           /\ invoice[target] \in InvoiceRow
                           /\ invoice[target].paid + a <= Total[target]
<1> DEFINE facts == CurrentFacts(r, target)
<1>0. /\ Terms[r].amount \in Nat \ {0}
      /\ None \notin Invoices
    BY SettlementAssumption DEF Term
<1>1. CASE target = None
    <2>1. facts.target = None
        BY <1>1 DEF CurrentFacts
    <2>2. Allocation(r, facts) = 0
        BY <2>1 DEF Allocation
    <2> QED
        BY <1>0, <1>1, <2>2
<1>2. CASE target # None
    <2>1. target \in Invoices /\ invoice[target] \in InvoiceRow
        BY <1>2 DEF TypeOK
    <2>2. /\ facts.target = target
          /\ facts.invoice = invoice[target]
        BY <1>2 DEF CurrentFacts
    <2>3. Allocation(r, facts) = Least(Terms[r].amount, Remaining(target, invoice[target]))
        BY <1>0, <2>1, <2>2 DEF Allocation
    <2>4. /\ invoice[target].paid \in Nat
          /\ Total[target] \in Nat
          /\ invoice[target].paid <= Total[target]
        BY <1>2, <2>1, SettlementAssumption DEF InvoiceRow, InvoiceAgrees, StateAgrees
    <2>5. Remaining(target, invoice[target]) \in 0..(Total[target] - invoice[target].paid)
        BY <2>4 DEF Remaining
    <2> QED
        BY <1>0, <1>2, <2>1, <2>3, <2>4, <2>5 DEF Least
<1> QED
    BY <1>1, <1>2

(* What is settled leaves its invoice with a state that says what was paid. *)
LEMMA SettledInvoiceAgrees ==
    ASSUME NEW i \in Invoices, NEW row \in InvoiceRow, NEW a \in Nat \ {0},
           row.paid + a <= Total[i]
    PROVE  LET after == InvoiceRowAfter(i, row, a)
           IN  /\ after \in InvoiceRow
               /\ after.paid = row.paid + a
               /\ after.state = IF after.paid = Total[i] THEN "Paid"
                                                         ELSE "PartiallyFunded"
<1>1. /\ row.paid \in Nat
      /\ Total[i] \in Nat
    BY SettlementAssumption DEF InvoiceRow
<1> QED
    BY <1>1 DEF InvoiceRowAfter, InvoiceRow, InvoiceStates

-------------------------------------------------------------------------------
(* Every operation preserves the invariant                                 *)

LEMMA InitIInv == Init => IInv
<1> SUFFICES ASSUME Init
             PROVE  IInv
    OBVIOUS
<1>1. TypeOK
    <2>1. invoice \in [Invoices -> InvoiceRow \cup {None}]
        BY DEF Init, NewInvoice, InvoiceRow, InvoiceStates
    <2>2. /\ receipt \in [Receipts -> ReceiptRow \cup {None}]
          /\ payment \in [Keys -> PaymentRow \cup {None}]
          /\ screen \in [Staff -> Screen \cup {None}]
        BY DEF Init
    <2>3. posted \in Int /\ changes \in 0..MaxChanges
        BY SettlementAssumption DEF Init
    <2>4. /\ scan \subseteq Invoices /\ threshold \in Thresholds
          /\ finance \subseteq Staff /\ archived \in BOOLEAN
        BY DEF Init
    <2> QED
        BY <2>1, <2>2, <2>3, <2>4 DEF TypeOK
<1>2. InvoiceAgrees
    BY SettlementAssumption DEF Init, InvoiceAgrees, StateAgrees, NewInvoice
<1>3. ArchivedIsFrozen /\ OpenIsNotOverridden
    BY DEF Init, ArchivedIsFrozen, OpenIsNotOverridden, Exists
<1> QED
    BY <1>1, <1>2, <1>3 DEF IInv

(* A receipt is sent to a profile that is not archived.                    *)
LEMMA SubmitReceiptStep ==
    ASSUME IInv, NEW r \in Receipts, SubmitReceipt(r)
    PROVE  IInv'
<1> USE DEF IInv, SubmitReceipt, environment
<1>1. TypeOK'
    BY SettlementAssumption DEF TypeOK, NewReceipt, ReceiptRow, OpenStates, SettledStates
<1>2. InvoiceAgrees'
    BY DEF InvoiceAgrees, StateAgrees
<1>3. ArchivedIsFrozen'
    BY DEF ArchivedIsFrozen
<1>4. OpenIsNotOverridden'
    BY DEF OpenIsNotOverridden, TypeOK, Exists, Settled, Request, NewReceipt
<1> QED
    BY <1>1, <1>2, <1>3, <1>4

(* The facts on a screen are of their type.                                *)
LEMMA FactsTyped ==
    ASSUME TypeOK, NEW r \in Receipts, Open(r), NEW target \in Invoices \cup {None}
    PROVE  CurrentFacts(r, target) \in Facts
<1>1. receipt[r] \in ReceiptRow /\ receipt[r].state \in OpenStates
    BY DEF TypeOK, Open
<1>2. Request(r) # None => Request(r).status \in RequestStates
    BY <1>1 DEF ReceiptRow, Request, RequestRow
<1>3. threshold \in Nat /\ posted \in Int
    BY SettlementAssumption DEF TypeOK
<1>4. target # None => invoice[target] \in InvoiceRow \cup {None}
    BY DEF TypeOK
<1>5. "Pending" \in OpenStates
    BY DEF OpenStates
<1>6. /\ (RequiresDual(r) \/ Request(r) # None) \in BOOLEAN
      /\ (RequiresDual(r) \/ HasRequest(r, "pending")) \in BOOLEAN
    OBVIOUS
<1> QED
    BY <1>1, <1>2, <1>3, <1>4, <1>5, <1>6 DEF CurrentFacts, Facts

(* A review changes nothing but the screen.                                *)
LEMMA ReviewStep ==
    ASSUME IInv, NEW s \in Staff, NEW r \in Receipts,
           NEW target \in Invoices \cup {None}, NEW override \in BOOLEAN,
           Review(s, r, target, override)
    PROVE  IInv'
<1> USE DEF IInv, Review, environment
<1>1. CurrentFacts(r, target) \in Facts
    BY FactsTyped
<1>2. TypeOK'
    BY <1>1 DEF TypeOK, Screen
<1>3. InvoiceAgrees' /\ ArchivedIsFrozen' /\ OpenIsNotOverridden'
    BY DEF InvoiceAgrees, StateAgrees, ArchivedIsFrozen, OpenIsNotOverridden,
           Exists, Settled, Request
<1> QED
    BY <1>2, <1>3

(* A receipt whose state and request change stays a receipt.               *)
LEMMA RowChanges ==
    ASSUME NEW row \in ReceiptRow,
           NEW state \in OpenStates \cup SettledStates \cup {"Rejected"},
           NEW q \in RequestRow \cup {None}
    PROVE  /\ Moved(row, state, q) \in ReceiptRow
           /\ Moved(row, state, q).state = state
           /\ Moved(row, state, q).request = q
BY DEF ReceiptRow, Moved

(* A receipt that was parked keeps a request that was not overridden.      *)
LEMMA ParkStep ==
    ASSUME IInv, NEW s \in Staff, NEW r \in Receipts, ParkForDualApproval(s, r)
    PROVE  IInv'
<1> USE DEF IInv, ParkForDualApproval, Committing, environment
<1> DEFINE q == [status |-> "pending", initiator |-> s, reviewer |-> None,
                 override |-> FALSE,
                 facts |-> IF Terms[r].kind = "wallet" THEN screen[s].facts ELSE None]
<1>0. /\ receipt[r] \in ReceiptRow /\ receipt[r].state \in OpenStates
      /\ screen[s] \in Screen
    BY DEF TypeOK, Open
<1>1. q \in RequestRow
    BY <1>0 DEF RequestRow, RequestStates, Screen
<1> DEFINE state == IF receipt[r].state = "Submitted" THEN "UnderReview"
                                                  ELSE receipt[r].state
           row == Moved(receipt[r], state, q)
<1>2. receipt' = [receipt EXCEPT ![r] = row]
    OBVIOUS
<1>s. state \in OpenStates
    BY <1>0 DEF OpenStates
<1> HIDE DEF q, state
<1>3. row \in ReceiptRow /\ row.request = q
    BY <1>0, <1>1, <1>s, RowChanges
<1> HIDE DEF row
<1>4. receipt' \in [Receipts -> ReceiptRow \cup {None}]
    BY <1>2, <1>3 DEF TypeOK
<1>5. TypeOK'
    BY <1>4 DEF TypeOK
<1>6. InvoiceAgrees' /\ ArchivedIsFrozen'
    BY DEF InvoiceAgrees, StateAgrees, ArchivedIsFrozen
<1>7. OpenIsNotOverridden'
    BY <1>2, <1>3 DEF OpenIsNotOverridden, TypeOK, Exists, Settled, Request, q
<1> QED
    BY <1>5, <1>6, <1>7

(* A rejection that reached the register closes the receipt.               *)
LEMMA SynchronizeStep ==
    ASSUME IInv, NEW s \in Staff, NEW r \in Receipts, SynchronizeRejected(s, r)
    PROVE  IInv'
<1> USE DEF IInv, SynchronizeRejected, Committing, environment
<1>0. /\ receipt[r] \in ReceiptRow
      /\ Request(r) \in RequestRow \cup {None}
    BY DEF TypeOK, Open, Request, ReceiptRow
<1> DEFINE row == Moved(receipt[r], "Rejected", Request(r))
<1>c. row \in ReceiptRow /\ row.request = receipt[r].request
    <2>1. row \in ReceiptRow /\ row.request = Request(r)
        <3> DEFINE q == Request(r)
        <3>1. q \in RequestRow \cup {None}
            BY <1>0
        <3> HIDE DEF q
        <3>2. Moved(receipt[r], "Rejected", q) \in ReceiptRow
              /\ Moved(receipt[r], "Rejected", q).request = q
            BY <1>0, <3>1, RowChanges
        <3> QED
            BY <3>2 DEF q
    <2> QED
        BY <2>1 DEF Request
<1>e. receipt' = [receipt EXCEPT ![r] = row]
    OBVIOUS
<1> HIDE DEF row
<1>1. receipt' \in [Receipts -> ReceiptRow \cup {None}]
    BY <1>c, <1>e DEF TypeOK
<1>2. TypeOK'
    BY <1>1 DEF TypeOK
<1>3. InvoiceAgrees' /\ ArchivedIsFrozen'
    BY DEF InvoiceAgrees, StateAgrees, ArchivedIsFrozen
<1>4. OpenIsNotOverridden'
    BY <1>c, <1>e DEF OpenIsNotOverridden, TypeOK, Exists, Settled, Request, Open,
                OpenStates, SettledStates
<1> QED
    BY <1>2, <1>3, <1>4

(* What a confirmation settles: the allocation is bounded, the request is  *)
(* typed, and the receipt ends settled.                                    *)
LEMMA ConfirmStep ==
    ASSUME IInv, NEW s \in Staff, NEW r \in Receipts, NEW override \in BOOLEAN,
           ConfirmReceipt(s, r, override)
    PROVE  IInv'
<1> USE DEF IInv, ConfirmReceipt, Committing, environment
<1>t. PICK target \in Invoices \cup {None} : target = screen[s].facts.target
    BY DEF Targets
<1> DEFINE a == Allocation(r, CurrentFacts(r, target))
<1>0. /\ receipt[r] \in ReceiptRow
      /\ target # None => invoice[target] # None
    BY <1>t DEF TypeOK, Open, Targets
<1>1. PICK q \in {None, Request(r)} \cup (IF Request(r) = None THEN {}
                     ELSE {Approved(Request(r), s, override)}) :
            ApplySettlement(r, target, a, q)
    BY <1>t
<1>2. q \in RequestRow \cup {None}
    BY <1>0 DEF Request, ReceiptRow, Approved, Resolved, RequestRow, RequestStates
<1>3. /\ a \in 0..Terms[r].amount
      /\ a # 0 => /\ target \in Invoices
                  /\ invoice[target] \in InvoiceRow
                  /\ invoice[target].paid + a <= Total[target]
    BY <1>0, AllocationIsBounded
<1>4. Terms[r].amount \in Nat
    BY SettlementAssumption DEF Term
<1> HIDE DEF a
<1> DEFINE closed == [state     |-> IF Terms[r].kind = "invoice" THEN "Confirmed" ELSE "Released",
                      request   |-> q, target |-> target,
                      allocated |-> a, credited |-> Terms[r].amount - a]
<1>5. closed \in ReceiptRow /\ closed.state \in SettledStates
    BY <1>0, <1>2, <1>3, <1>4 DEF ReceiptRow, SettledStates
<1>6. receipt' = [receipt EXCEPT ![r] = closed]
    BY <1>1 DEF ApplySettlement
<1> HIDE DEF closed
<1>7. a # 0 => LET after == InvoiceRowAfter(target, invoice[target], a)
               IN  /\ after \in InvoiceRow
                   /\ after.paid = invoice[target].paid + a
                   /\ after.state = IF after.paid = Total[target] THEN "Paid"
                                                                  ELSE "PartiallyFunded"
    BY <1>3, <1>4, SettledInvoiceAgrees
<1>8. a # 0 => invoice' = [invoice EXCEPT ![target] =
                              InvoiceRowAfter(target, invoice[target], a)]
    BY <1>1 DEF ApplySettlement
<1>9. a = 0 => invoice' = invoice
    BY <1>1 DEF ApplySettlement
<1>10. TypeOK'
    <2>1. invoice' \in [Invoices -> InvoiceRow \cup {None}]
        BY <1>3, <1>7, <1>8, <1>9 DEF TypeOK
    <2>2. receipt' \in [Receipts -> ReceiptRow \cup {None}]
        BY <1>5, <1>6 DEF TypeOK
    <2>3. posted' \in Int
        BY <1>1, <1>3, <1>4 DEF TypeOK, ApplySettlement
    <2> QED
        BY <2>1, <2>2, <2>3 DEF TypeOK
<1>11. InvoiceAgrees'
    <2>1. CASE a = 0
        BY <2>1, <1>9 DEF InvoiceAgrees, StateAgrees
    <2>2. CASE a # 0
        <3>1. /\ target \in Invoices
              /\ invoice[target].paid \in Nat /\ Total[target] \in Nat
            BY <2>2, <1>3, SettlementAssumption DEF InvoiceRow
        <3>2. StateAgrees(target)'
            BY <2>2, <3>1, <1>3, <1>4, <1>7, <1>8 DEF TypeOK, StateAgrees
        <3>3. \A i \in Invoices \ {target} : invoice'[i] = invoice[i]
            BY <2>2, <1>8 DEF TypeOK
        <3> QED
            BY <3>2, <3>3 DEF InvoiceAgrees, StateAgrees
    <2> QED
        BY <2>1, <2>2
<1>12. ArchivedIsFrozen'
    BY DEF ArchivedIsFrozen
<1>13. OpenIsNotOverridden'
    BY <1>5, <1>6 DEF OpenIsNotOverridden, TypeOK, Exists, Settled, Request
<1> QED
    BY <1>10, <1>11, <1>12, <1>13

(* A request that is resolved keeps its type and its override mark.        *)
LEMMA ResolvedTyped ==
    ASSUME NEW q \in RequestRow, NEW s \in Staff, NEW decision \in RequestStates
    PROVE  /\ Resolved(q, s, decision) \in RequestRow
           /\ Resolved(q, s, decision).override = q.override
BY DEF Resolved, RequestRow

(* A receipt is rejected, with the request that was pending.               *)
LEMMA RejectStep ==
    ASSUME IInv, NEW s \in Staff, NEW r \in Receipts, RejectReceipt(s, r)
    PROVE  IInv'
<1> USE DEF IInv, RejectReceipt, environment
<1> DEFINE q == IF HasRequest(r, "pending") THEN Resolved(Request(r), s, "rejected")
                                            ELSE Request(r)
           row == Moved(receipt[r], "Rejected", q)
<1>0. /\ receipt[r] \in ReceiptRow /\ receipt[r].state \in OpenStates
      /\ receipt[r].request \in RequestRow \cup {None}
    BY DEF TypeOK, Open, ReceiptRow
<1>1. /\ q \in RequestRow \cup {None}
      /\ q # None => receipt[r].request # None /\ q.override = receipt[r].request.override
    BY <1>0, ResolvedTyped DEF HasRequest, Request, RequestStates
<1>2. receipt' = [receipt EXCEPT ![r] = row]
    OBVIOUS
<1> HIDE DEF q
<1>3. row \in ReceiptRow /\ row.request = q /\ row.state = "Rejected"
    BY <1>0, <1>1, RowChanges
<1> HIDE DEF row
<1>4. TypeOK'
    BY <1>2, <1>3 DEF TypeOK
<1>5. InvoiceAgrees' /\ ArchivedIsFrozen'
    BY <1>2, <1>3 DEF InvoiceAgrees, StateAgrees, ArchivedIsFrozen, TypeOK, Exists
<1>6. ~Settled(r)
    BY <1>0 DEF Settled, OpenStates, SettledStates
<1>7. OpenIsNotOverridden'
    BY <1>1, <1>2, <1>3, <1>6, NoneIsNoRow
        DEF OpenIsNotOverridden, TypeOK, Exists, Settled, Request, Open
<1> QED
    BY <1>4, <1>5, <1>7

(* The register decides a request and leaves the receipt where it was.     *)
LEMMA ResolveStep ==
    ASSUME IInv, NEW s \in Staff, NEW r \in Receipts,
           NEW decision \in {"approved", "rejected"}, ResolveRequest(s, r, decision)
    PROVE  IInv'
<1> USE DEF IInv, ResolveRequest, environment
<1> DEFINE q == Resolved(Request(r), s, decision)
           row == Moved(receipt[r], receipt[r].state, q)
<1>0. /\ receipt[r] \in ReceiptRow
      /\ receipt[r].request \in RequestRow
    BY DEF TypeOK, Exists, HasRequest, Request, ReceiptRow
<1>1. /\ q \in RequestRow
      /\ q.override = receipt[r].request.override
    BY <1>0, ResolvedTyped DEF Request, RequestStates
<1>2. receipt' = [receipt EXCEPT ![r] = row]
    OBVIOUS
<1> HIDE DEF q
<1>3. row \in ReceiptRow /\ row.request = q /\ row.state = receipt[r].state
    <2>1. receipt[r].state \in OpenStates \cup SettledStates \cup {"Rejected"}
        BY <1>0 DEF ReceiptRow
    <2> QED
        BY <1>0, <1>1, <2>1, RowChanges
<1> HIDE DEF row
<1>4. TypeOK'
    BY <1>2, <1>3 DEF TypeOK
<1>5. InvoiceAgrees' /\ ArchivedIsFrozen'
    BY <1>2, <1>3 DEF InvoiceAgrees, StateAgrees, ArchivedIsFrozen, TypeOK, Exists
<1>7. OpenIsNotOverridden'
    BY <1>0, <1>1, <1>2, <1>3, NoneIsNoRow
        DEF OpenIsNotOverridden, TypeOK, Exists, Settled, Request
<1> QED
    BY <1>4, <1>5, <1>7

(* What a step on one invoice owes the rest.                               *)
LEMMA OneInvoice ==
    ASSUME IInv, NEW i \in Invoices, NEW row \in InvoiceRow,
           invoice' = [invoice EXCEPT ![i] = row],
           /\ row.paid <= Total[i]
           /\ row.state # "PaymentUnderReview"
           /\ row.state = "Paid" <=> row.paid = Total[i]
           /\ row.state \in {"Unpaid", "Cancelled"} => row.paid = 0
           /\ row.state = "PartiallyFunded" => row.paid > 0
    PROVE  /\ invoice' \in [Invoices -> InvoiceRow \cup {None}]
           /\ InvoiceAgrees'
<1>1. invoice' \in [Invoices -> InvoiceRow \cup {None}]
    BY DEF IInv, TypeOK
<1>2. invoice'[i] = row /\ \A j \in Invoices \ {i} : invoice'[j] = invoice[j]
    BY DEF IInv, TypeOK
<1> QED
    BY <1>1, <1>2 DEF IInv, InvoiceAgrees, StateAgrees

(* A wallet payment pays exactly what remains.                             *)
LEMMA PayStep ==
    ASSUME IInv, NEW i \in Invoices, NEW k \in Keys, PayInvoiceWithWallet(i, k)
    PROVE  IInv'
<1> USE DEF PayInvoiceWithWallet, debitExactRemaining, environment
<1> DEFINE left == WalletRemaining(i, invoice[i])
           row == [state |-> "Paid", paid |-> invoice[i].paid + left]
<1>0. /\ invoice[i] \in InvoiceRow
      /\ invoice[i].paid \in Nat /\ Total[i] \in Nat /\ Total[i] # 0
    BY SettlementAssumption DEF IInv, TypeOK, InvoiceRow
<1>1. left \in Nat /\ invoice[i].paid + left = Total[i]
    BY <1>0 DEF IInv, InvoiceAgrees, StateAgrees, WalletRemaining
<1>2. row \in InvoiceRow
    BY <1>0, <1>1 DEF InvoiceRow, InvoiceStates
<1>3. invoice' = [invoice EXCEPT ![i] = row]
    OBVIOUS
<1>s. /\ row.paid = Total[i]
      /\ row.state = "Paid"
    BY <1>1
<1> HIDE DEF row, left
<1>m. /\ row.paid <= Total[i]
      /\ row.state # "PaymentUnderReview"
      /\ row.state = "Paid" <=> row.paid = Total[i]
      /\ row.state \in {"Unpaid", "Cancelled"} => row.paid = 0
      /\ row.state = "PartiallyFunded" => row.paid > 0
    BY <1>0, <1>s
<1>4. /\ invoice' \in [Invoices -> InvoiceRow \cup {None}]
      /\ InvoiceAgrees'
    BY <1>2, <1>3, <1>m, OneInvoice
<1>5. TypeOK'
    <2>1. payment' \in [Keys -> PaymentRow \cup {None}]
        BY <1>0, <1>1 DEF IInv, TypeOK, PaymentRow, left
    <2>2. posted' \in Int
        BY <1>1 DEF IInv, TypeOK, left
    <2> QED
        BY <1>4, <2>1, <2>2 DEF IInv, TypeOK
<1>6. ArchivedIsFrozen'
    BY DEF ArchivedIsFrozen
<1>7. OpenIsNotOverridden'
    BY DEF IInv, OpenIsNotOverridden, Exists, Settled, Request
<1> QED
    BY <1>4, <1>5, <1>6, <1>7 DEF IInv

(* An unpaid invoice is cancelled, and perhaps replaced.                   *)
LEMMA CancelAndReplaceStep ==
    ASSUME IInv, NEW i \in Invoices, NEW j \in Invoices, CancelAndReplaceInvoice(i, j)
    PROVE  IInv'
<1> USE DEF CancelAndReplaceInvoice, Replaceable, environment
<1>0. /\ invoice[i] \in InvoiceRow
      /\ i # j
      /\ Total[i] \in Nat \ {0} /\ Total[j] \in Nat \ {0}
    BY SettlementAssumption DEF IInv, TypeOK
<1>1. invoice' = [invoice EXCEPT ![i] = [state |-> "Cancelled", paid |-> 0],
                                 ![j] = [state |-> "Unpaid", paid |-> 0]]
    BY DEF InState, NewInvoice
<1>2. TypeOK'
    <2>1. invoice' \in [Invoices -> InvoiceRow \cup {None}]
        BY <1>0, <1>1 DEF IInv, TypeOK, InvoiceRow, InvoiceStates
    <2>2. changes' \in 0..MaxChanges
        BY SettlementAssumption DEF IInv, TypeOK
    <2> QED
        BY <2>1, <2>2 DEF IInv, TypeOK
<1>3. InvoiceAgrees'
    BY <1>0, <1>1 DEF IInv, TypeOK, InvoiceAgrees, StateAgrees
<1>4. ~archived'
    BY DEF IInv, ArchivedIsFrozen
<1>5. OpenIsNotOverridden'
    BY DEF IInv, OpenIsNotOverridden, Exists, Settled, Request
<1> QED
    BY <1>2, <1>3, <1>4, <1>5 DEF IInv, ArchivedIsFrozen

LEMMA CancelStep ==
    ASSUME IInv, NEW i \in Invoices, CancelInvoice(i)
    PROVE  IInv'
<1> USE DEF CancelInvoice, Replaceable, environment
<1> DEFINE row == [state |-> "Cancelled", paid |-> 0]
<1>0. /\ invoice[i] \in InvoiceRow
      /\ Total[i] \in Nat \ {0}
    BY SettlementAssumption DEF IInv, TypeOK
<1>1. row \in InvoiceRow
    BY DEF InvoiceRow, InvoiceStates
<1>2. invoice' = [invoice EXCEPT ![i] = row]
    BY DEF InState
<1>s. row.paid = 0 /\ row.state = "Cancelled"
    OBVIOUS
<1> HIDE DEF row
<1>m. /\ row.paid <= Total[i]
      /\ row.state # "PaymentUnderReview"
      /\ row.state = "Paid" <=> row.paid = Total[i]
      /\ row.state \in {"Unpaid", "Cancelled"} => row.paid = 0
      /\ row.state = "PartiallyFunded" => row.paid > 0
    BY <1>0, <1>s
<1>3. /\ invoice' \in [Invoices -> InvoiceRow \cup {None}]
      /\ InvoiceAgrees'
    BY <1>1, <1>2, <1>m, OneInvoice
<1>4. TypeOK'
    <2>1. changes' \in 0..MaxChanges
        BY SettlementAssumption DEF IInv, TypeOK
    <2> QED
        BY <1>3, <2>1 DEF IInv, TypeOK
<1>5. ~archived'
    BY DEF IInv, ArchivedIsFrozen
<1>6. OpenIsNotOverridden'
    BY DEF IInv, OpenIsNotOverridden, Exists, Settled, Request
<1> QED
    BY <1>3, <1>4, <1>5, <1>6 DEF IInv, ArchivedIsFrozen

(* The scanner marks an invoice that is still eligible, or skips it.       *)
LEMMA MarkStep ==
    ASSUME IInv, NEW i \in Invoices, MarkOneOverdue(i)
    PROVE  IInv'
<1> USE DEF MarkOneOverdue, environment
<1>0. scan' \subseteq Invoices
    BY DEF IInv, TypeOK
<1>1. CASE invoice' = invoice
    BY <1>0, <1>1 DEF IInv, TypeOK, InvoiceAgrees, StateAgrees, ArchivedIsFrozen,
                      OpenIsNotOverridden, Exists, Settled, Request
<1>2. CASE /\ invoice[i] # None
           /\ invoice[i].state \in OVERDUE_ELIGIBLE_STATES
           /\ invoice' = [invoice EXCEPT ![i] = InState(i, "Overdue")]
    <2> DEFINE row == [state |-> "Overdue", paid |-> invoice[i].paid]
    <2>0. /\ invoice[i] \in InvoiceRow
          /\ invoice[i].paid \in Nat /\ Total[i] \in Nat
        BY <1>2, SettlementAssumption DEF IInv, TypeOK, InvoiceRow
    <2>1. row \in InvoiceRow
        BY <2>0 DEF InvoiceRow, InvoiceStates
    <2>2. invoice' = [invoice EXCEPT ![i] = row]
        BY <1>2 DEF InState
    <2>3. /\ invoice[i].paid <= Total[i]
          /\ invoice[i].paid # Total[i]
        BY <1>2, <2>0 DEF IInv, InvoiceAgrees, StateAgrees, OVERDUE_ELIGIBLE_STATES
    <2>4. /\ invoice' \in [Invoices -> InvoiceRow \cup {None}]
          /\ InvoiceAgrees'
        BY <2>0, <2>1, <2>2, <2>3, OneInvoice
    <2>5. TypeOK'
        BY <1>0, <2>4 DEF IInv, TypeOK
    <2>6. ~archived'
        BY <1>2 DEF IInv, ArchivedIsFrozen, OVERDUE_ELIGIBLE_STATES
    <2>7. OpenIsNotOverridden'
        BY DEF IInv, OpenIsNotOverridden, Exists, Settled, Request
    <2> QED
        BY <2>4, <2>5, <2>6, <2>7 DEF IInv, ArchivedIsFrozen
<1> QED
    BY <1>1, <1>2

(* The scan's choice, the policy, permissions and archival.                *)
LEMMA EnvironmentStep ==
    ASSUME IInv,
           \/ StartOverdueScan
           \/ \E n \in Thresholds : SetThreshold(n)
           \/ \E s \in Staff : ChangePermission(s)
           \/ ArchiveProfile
    PROVE  IInv'
<1>1. CASE StartOverdueScan
    <2>1. TypeOK'
        BY <1>1 DEF IInv, TypeOK, StartOverdueScan, environment
    <2> QED
        BY <1>1, <2>1 DEF IInv, StartOverdueScan, environment, InvoiceAgrees, StateAgrees,
               ArchivedIsFrozen, OpenIsNotOverridden, Exists, Settled, Request
<1>2. CASE \E n \in Thresholds : SetThreshold(n)
    <2>1. TypeOK'
        BY <1>2, SettlementAssumption DEF IInv, TypeOK, SetThreshold
    <2> QED
        BY <1>2, <2>1 DEF IInv, SetThreshold, InvoiceAgrees, StateAgrees,
               ArchivedIsFrozen, OpenIsNotOverridden, Exists, Settled, Request
<1>3. CASE \E s \in Staff : ChangePermission(s)
    <2>1. TypeOK'
        BY <1>3, SettlementAssumption DEF IInv, TypeOK, ChangePermission
    <2> QED
        BY <1>3, <2>1 DEF IInv, ChangePermission, InvoiceAgrees, StateAgrees,
               ArchivedIsFrozen, OpenIsNotOverridden, Exists, Settled, Request
<1>4. CASE ArchiveProfile
    <2>1. TypeOK'
        BY <1>4 DEF IInv, TypeOK, ArchiveProfile
    <2> QED
        BY <1>4, <2>1 DEF IInv, ArchiveProfile, InvoiceAgrees, StateAgrees,
               ArchivedIsFrozen, OpenIsNotOverridden, Exists, Settled, Request
<1> QED
    BY <1>1, <1>2, <1>3, <1>4

LEMMA StepIInv == IInv /\ [Next]_vars => IInv'
<1> SUFFICES ASSUME IInv, [Next]_vars
             PROVE  IInv'
    OBVIOUS
<1>1. CASE UNCHANGED vars
    <2>1. TypeOK'
        BY <1>1 DEF IInv, vars, environment, TypeOK
    <2> QED
        BY <1>1, <2>1 DEF IInv, vars, environment, InvoiceAgrees, StateAgrees,
               ArchivedIsFrozen, OpenIsNotOverridden, Exists, Settled, Request
<1>2. CASE \E r \in Receipts : SubmitReceipt(r)
    BY <1>2, SubmitReceiptStep
<1>3. CASE \E s \in Staff, r \in Receipts :
              \E target \in Invoices \cup {None}, override \in BOOLEAN :
                  Review(s, r, target, override)
    BY <1>3, ReviewStep
<1>4. CASE \E s \in Staff, r \in Receipts : Confirmation(s, r)
    BY <1>4, ParkStep, SynchronizeStep, ConfirmStep DEF Confirmation
<1>5. CASE \E s \in Staff, r \in Receipts : RejectReceipt(s, r)
    BY <1>5, RejectStep
<1>6. CASE \E s \in Staff, r \in Receipts :
              \E decision \in {"approved", "rejected"} : ResolveRequest(s, r, decision)
    BY <1>6, ResolveStep
<1>7. CASE \E i \in Invoices, k \in Keys : PayInvoiceWithWallet(i, k)
    BY <1>7, PayStep
<1>8. CASE \E i, j \in Invoices : CancelAndReplaceInvoice(i, j)
    BY <1>8, CancelAndReplaceStep
<1>9. CASE \E i \in Invoices : CancelInvoice(i) \/ MarkOneOverdue(i)
    BY <1>9, CancelStep, MarkStep
<1> QED
    BY <1>1, <1>2, <1>3, <1>4, <1>5, <1>6, <1>7, <1>8, <1>9, EnvironmentStep DEF Next

LEMMA Invariance == Spec => []IInv
BY InitIInv, StepIInv, PTL DEF Spec

(* Every variable keeps its type: no receipt's allocation or credit is     *)
(* ever negative.                                                          *)
THEOREM TypeCorrect == Spec => []TypeOK
BY Invariance, PTL DEF IInv

(* Whatever touched an invoice last, its state agrees with its amount.     *)
THEOREM InvoicesAgree == Spec => []InvoiceAgrees
BY Invariance, PTL DEF IInv

(* Nothing is brought back to an archived profile.                         *)
THEOREM ArchivedStaysFrozen == Spec => []ArchivedIsFrozen
BY Invariance, PTL DEF IInv

-------------------------------------------------------------------------------
(* Money                                                                   *)
(*                                                                         *)
(* A step moves money in one of three ways: not at all, by the settlement  *)
(* of one receipt, or by one debit.  Each changes one term of one sum for  *)
(* the wallet and one for an invoice, by the same amount.                  *)

PaidOn(i) == IF invoice[i] = None THEN 0 ELSE invoice[i].paid

ReceiptsOf(i) == {r \in SettledReceipts : receipt[r].target = i}

DebitsOf(i) == {k \in Debits : payment[k].invoice = i}

UsedUp ==
    \A r \in Receipts : Exists(r) =>
        receipt[r].allocated + receipt[r].credited
            = IF Settled(r) THEN Terms[r].amount ELSE 0

(* The constants may be infinite; what a behaviour has settled and debited *)
(* is not.                                                                 *)
MoneyInv ==
    /\ IsFiniteSet(SettledReceipts)
    /\ IsFiniteSet(Debits)
    /\ \A i \in Invoices : PaidOn(i) = Allocated(ReceiptsOf(i)) + Debited(DebitsOf(i))
    /\ posted = Credited(SettledReceipts) - Debited(Debits)
    /\ posted >= 0
    /\ UsedUp

KeepsReceipts ==
    /\ SettledReceipts' = SettledReceipts
    /\ \A r \in SettledReceipts :
          /\ receipt'[r].target = receipt[r].target
          /\ receipt'[r].allocated = receipt[r].allocated
          /\ receipt'[r].credited = receipt[r].credited

KeepsMoney ==
    /\ KeepsReceipts
    /\ payment' = payment
    /\ posted' = posted
    /\ \A i \in Invoices : PaidOn(i)' = PaidOn(i)

SettlesOne(r, target, a, n) ==
    /\ r \in Receipts \ SettledReceipts
    /\ SettledReceipts' = SettledReceipts \cup {r}
    /\ \A p \in SettledReceipts : receipt'[p] = receipt[p]
    /\ receipt'[r].target = target
    /\ receipt'[r].allocated = a
    /\ receipt'[r].credited = n
    /\ payment' = payment
    /\ posted' = posted + n
    /\ \A i \in Invoices : PaidOn(i)' = PaidOn(i) + (IF i = target THEN a ELSE 0)

DebitsOne(k, i, n) ==
    /\ k \in Keys \ Debits
    /\ Debits' = Debits \cup {k}
    /\ \A l \in Debits : payment'[l] = payment[l]
    /\ payment'[k].invoice = i
    /\ payment'[k].amount = n
    /\ KeepsReceipts
    /\ posted' = posted - n
    /\ n <= posted
    /\ \A j \in Invoices : PaidOn(j)' = PaidOn(j) + (IF j = i THEN n ELSE 0)

(* The terms of the sums are natural numbers.                              *)
LEMMA TermsTyped ==
    ASSUME TypeOK
    PROVE  /\ \A r \in SettledReceipts : /\ receipt[r].allocated \in Nat
                                         /\ receipt[r].credited \in Nat
           /\ \A k \in Debits : payment[k].amount \in Nat
<1>1. \A r \in SettledReceipts : receipt[r] \in ReceiptRow
    BY DEF TypeOK, SettledReceipts, Settled
<1>2. \A k \in Debits : payment[k] \in PaymentRow
    BY DEF TypeOK, Debits
<1> QED
    BY <1>1, <1>2 DEF ReceiptRow, PaymentRow

(* The sums are integers.                                                  *)
LEMMA SumsTyped ==
    ASSUME TypeOK, MoneyInv
    PROVE  /\ Credited(SettledReceipts) \in Int
           /\ Debited(Debits) \in Int
           /\ \A i \in Invoices : /\ Allocated(ReceiptsOf(i)) \in Int
                                  /\ Debited(DebitsOf(i)) \in Int
<1>1. /\ IsFiniteSet(SettledReceipts) /\ IsFiniteSet(Debits)
    BY DEF MoneyInv
<1>2. \A i \in Invoices : /\ IsFiniteSet(ReceiptsOf(i)) /\ IsFiniteSet(DebitsOf(i))
                          /\ ReceiptsOf(i) \subseteq SettledReceipts
                          /\ DebitsOf(i) \subseteq Debits
    BY <1>1, FS_Subset DEF ReceiptsOf, DebitsOf
<1>3. Credited(SettledReceipts) \in Int
    BY <1>1, TermsTyped, SumInt DEF Credited
<1>4. Debited(Debits) \in Int
    BY <1>1, TermsTyped, SumInt DEF Debited
<1>5. ASSUME NEW i \in Invoices
      PROVE  Allocated(ReceiptsOf(i)) \in Int
    <2> DEFINE S == ReceiptsOf(i)
               f == [r \in S |-> receipt[r].allocated]
    <2>1. IsFiniteSet(S) /\ \A x \in S : f[x] \in Int
        BY <1>2, TermsTyped
    <2> HIDE DEF S, f
    <2>2. SumFunctionOnSet(f, S) \in Int
        BY <2>1, SumInt
    <2> QED
        BY <2>2 DEF Allocated, f, S
<1>6. ASSUME NEW i \in Invoices
      PROVE  Debited(DebitsOf(i)) \in Int
    <2> DEFINE S == DebitsOf(i)
               f == [k \in S |-> payment[k].amount]
    <2>1. IsFiniteSet(S) /\ \A x \in S : f[x] \in Int
        BY <1>2, TermsTyped
    <2> HIDE DEF S, f
    <2>2. SumFunctionOnSet(f, S) \in Int
        BY <2>1, SumInt
    <2> QED
        BY <2>2 DEF Debited, f, S
<1> QED
    BY <1>3, <1>4, <1>5, <1>6

(* What stays settled as it was leaves the sums over receipts as they were. *)
LEMMA ReceiptSumsStay ==
    ASSUME TypeOK, MoneyInv, KeepsReceipts
    PROVE  /\ IsFiniteSet(SettledReceipts')
           /\ Credited(SettledReceipts)' = Credited(SettledReceipts)
           /\ \A i \in Invoices : Allocated(ReceiptsOf(i))' = Allocated(ReceiptsOf(i))
<1>1. IsFiniteSet(SettledReceipts) /\ SettledReceipts' = SettledReceipts
    BY DEF MoneyInv, KeepsReceipts
<1>2. Credited(SettledReceipts)' = Credited(SettledReceipts)
    <2> DEFINE S == SettledReceipts
               f == [r \in S |-> receipt[r].credited]
               g == [r \in S |-> receipt'[r].credited]
    <2>1. \A x \in S : f[x] = g[x]
        BY DEF KeepsReceipts
    <2>2. IsFiniteSet(S) /\ SettledReceipts' = S
        BY <1>1
    <2> HIDE DEF S, f, g
    <2>3. SumFunctionOnSet(f, S) = SumFunctionOnSet(g, S)
        BY <2>1, <2>2, SumSame
    <2> QED
        BY <2>2, <2>3 DEF Credited, f, g, S
<1>3. ASSUME NEW i \in Invoices
      PROVE  Allocated(ReceiptsOf(i))' = Allocated(ReceiptsOf(i))
    <2> DEFINE S == ReceiptsOf(i)
               f == [r \in S |-> receipt[r].allocated]
               g == [r \in S |-> receipt'[r].allocated]
    <2>1. S \subseteq SettledReceipts /\ ReceiptsOf(i)' = S
        BY DEF KeepsReceipts, ReceiptsOf
    <2>2. \A x \in S : f[x] = g[x]
        BY <2>1 DEF KeepsReceipts
    <2>3. IsFiniteSet(S)
        BY <1>1, <2>1, FS_Subset
    <2> HIDE DEF S, f, g
    <2>4. SumFunctionOnSet(f, S) = SumFunctionOnSet(g, S)
        BY <2>2, <2>3, SumSame
    <2> QED
        BY <2>1, <2>4 DEF Allocated, f, g, S
<1> QED
    BY <1>1, <1>2, <1>3

(* Nor do payments that stay.                                              *)
LEMMA DebitSumsStay ==
    ASSUME payment' = payment
    PROVE  /\ Debits' = Debits
           /\ Debited(Debits)' = Debited(Debits)
           /\ \A i \in Invoices : Debited(DebitsOf(i))' = Debited(DebitsOf(i))
BY DEF Debits, Debited, DebitsOf

LEMMA MoneyKept ==
    ASSUME TypeOK, MoneyInv, KeepsMoney, UsedUp'
    PROVE  MoneyInv'
BY ReceiptSumsStay, DebitSumsStay DEF MoneyInv, KeepsMoney

(* A settlement adds its receipt to the sums of the wallet and its target. *)
LEMMA MoneySettled ==
    ASSUME TypeOK, MoneyInv, UsedUp', NEW r, NEW target, NEW a \in Nat, NEW n \in Nat,
           SettlesOne(r, target, a, n)
    PROVE  MoneyInv'
<1>0. /\ IsFiniteSet(SettledReceipts) /\ IsFiniteSet(Debits)
      /\ r \notin SettledReceipts
      /\ SettledReceipts' = SettledReceipts \cup {r}
    BY DEF MoneyInv, SettlesOne
<1>1. IsFiniteSet(SettledReceipts')
    BY <1>0, FS_AddElement
<1>2. Credited(SettledReceipts)' = Credited(SettledReceipts) + n
    <2> DEFINE S == SettledReceipts
               T == S \cup {r}
               f == [x \in S |-> receipt[x].credited]
               g == [x \in T |-> receipt'[x].credited]
    <2>1. IsFiniteSet(S) /\ IsFiniteSet(T) /\ r \notin S /\ r \in T /\ S \ {r} = T \ {r}
        BY <1>0, FS_AddElement
    <2>2. \A x \in S : f[x] \in Int
        BY TermsTyped
    <2>3. g[r] = n /\ \A x \in S \ {r} : f[x] = g[x]
        BY DEF SettlesOne
    <2>4. \A x \in T : g[x] \in Int
        BY <2>2, <2>3
    <2>5. Credited(S) = SumFunctionOnSet(f, S) /\ Credited(SettledReceipts)' = SumFunctionOnSet(g, T)
        BY <1>0 DEF Credited
    <2> HIDE DEF S, T, f, g
    <2>6. SumFunctionOnSet(g, T) =
              SumFunctionOnSet(f, S) - (IF r \in S THEN f[r] ELSE 0)
                                     + (IF r \in T THEN g[r] ELSE 0)
        BY <2>1, <2>2, <2>3, <2>4, SumChange
    <2>7. SumFunctionOnSet(f, S) \in Int
        BY <2>1, <2>2, SumInt
    <2>8. SumFunctionOnSet(g, T) = SumFunctionOnSet(f, S) + n
        BY <2>1, <2>3, <2>6, <2>7
    <2> QED
        BY <2>5, <2>8 DEF S
<1>3. ASSUME NEW i \in Invoices
      PROVE  Allocated(ReceiptsOf(i))' = Allocated(ReceiptsOf(i)) + (IF i = target THEN a ELSE 0)
    <2> DEFINE S == ReceiptsOf(i)
               T == ReceiptsOf(i)'
               f == [x \in S |-> receipt[x].allocated]
               g == [x \in T |-> receipt'[x].allocated]
    <2>1. /\ T = IF i = target THEN S \cup {r} ELSE S
          /\ S \subseteq SettledReceipts
          /\ r \notin S
        BY <1>0 DEF ReceiptsOf, SettlesOne
    <2>2. IsFiniteSet(S) /\ IsFiniteSet(T)
        BY <1>0, <2>1, FS_Subset, FS_AddElement
    <2>3. \A x \in S : f[x] \in Int
        BY <2>1, TermsTyped
    <2>4. S \ {r} = T \ {r} /\ \A x \in S \ {r} : f[x] = g[x]
        BY <2>1 DEF SettlesOne
    <2>5. r \in T => i = target /\ g[r] = a
        BY <2>1 DEF SettlesOne
    <2>6. \A x \in T : g[x] \in Int
        <3> HIDE DEF S, T, f, g
        <3> QED
            BY <2>3, <2>4, <2>5
    <2>7. i = target => r \in T
        BY <2>1
    <2>8. Allocated(S) = SumFunctionOnSet(f, S) /\ Allocated(ReceiptsOf(i))' = SumFunctionOnSet(g, T)
        BY DEF Allocated
    <2>9. r \notin S
        BY <2>1
    <2> HIDE DEF S, T, f, g
    <2>10. SumFunctionOnSet(g, T) =
              SumFunctionOnSet(f, S) - (IF r \in S THEN f[r] ELSE 0)
                                     + (IF r \in T THEN g[r] ELSE 0)
        BY <2>2, <2>3, <2>4, <2>6, SumChange
    <2>11. SumFunctionOnSet(f, S) \in Int
        BY <2>2, <2>3, SumInt
    <2>12. SumFunctionOnSet(g, T) = SumFunctionOnSet(f, S) + (IF i = target THEN a ELSE 0)
        BY <2>5, <2>7, <2>9, <2>10, <2>11
    <2> QED
        BY <2>8, <2>12 DEF S
<1>4. /\ Debits' = Debits
      /\ Debited(Debits)' = Debited(Debits)
      /\ \A i \in Invoices : Debited(DebitsOf(i))' = Debited(DebitsOf(i))
    BY DebitSumsStay DEF SettlesOne
<1>5. \A i \in Invoices :
          PaidOn(i)' = Allocated(ReceiptsOf(i))' + Debited(DebitsOf(i))'
    <2> TAKE i \in Invoices
    <2>1. PaidOn(i)' = PaidOn(i) + (IF i = target THEN a ELSE 0)
        BY DEF SettlesOne
    <2>2. PaidOn(i) = Allocated(ReceiptsOf(i)) + Debited(DebitsOf(i))
        BY DEF MoneyInv
    <2>3. Allocated(ReceiptsOf(i)) \in Int /\ Debited(DebitsOf(i)) \in Int
        BY SumsTyped
    <2> QED
        BY <1>3, <1>4, <2>1, <2>2, <2>3
<1>6. posted' = Credited(SettledReceipts)' - Debited(Debits)' /\ posted' >= 0
    <2>1. Credited(SettledReceipts) \in Int /\ Debited(Debits) \in Int
        BY SumsTyped
    <2>2. posted' = posted + n /\ posted = Credited(SettledReceipts) - Debited(Debits)
          /\ posted >= 0
        BY DEF MoneyInv, SettlesOne
    <2> QED
        BY <1>2, <1>4, <2>1, <2>2
<1> QED
    BY <1>0, <1>1, <1>4, <1>5, <1>6 DEF MoneyInv

(* A debit adds its payment to the sums of the wallet and its invoice.     *)
LEMMA MoneyDebited ==
    ASSUME TypeOK, MoneyInv, UsedUp', NEW k, NEW i \in Invoices, NEW n \in Nat,
           DebitsOne(k, i, n)
    PROVE  MoneyInv'
<1>0. /\ IsFiniteSet(SettledReceipts) /\ IsFiniteSet(Debits)
      /\ k \notin Debits
      /\ Debits' = Debits \cup {k}
      /\ KeepsReceipts
    BY DEF MoneyInv, DebitsOne
<1>1. IsFiniteSet(Debits')
    BY <1>0, FS_AddElement
<1>2. Debited(Debits)' = Debited(Debits) + n
    <2> DEFINE S == Debits
               T == S \cup {k}
               f == [x \in S |-> payment[x].amount]
               g == [x \in T |-> payment'[x].amount]
    <2>1. IsFiniteSet(S) /\ IsFiniteSet(T) /\ k \notin S /\ k \in T /\ S \ {k} = T \ {k}
        BY <1>0, FS_AddElement
    <2>2. \A x \in S : f[x] \in Int
        BY TermsTyped
    <2>3. g[k] = n /\ \A x \in S \ {k} : f[x] = g[x]
        BY DEF DebitsOne
    <2>4. \A x \in T : g[x] \in Int
        BY <2>2, <2>3
    <2>5. Debited(S) = SumFunctionOnSet(f, S) /\ Debited(Debits)' = SumFunctionOnSet(g, T)
        BY <1>0 DEF Debited
    <2> HIDE DEF S, T, f, g
    <2>6. SumFunctionOnSet(g, T) =
              SumFunctionOnSet(f, S) - (IF k \in S THEN f[k] ELSE 0)
                                     + (IF k \in T THEN g[k] ELSE 0)
        BY <2>1, <2>2, <2>3, <2>4, SumChange
    <2>7. SumFunctionOnSet(f, S) \in Int
        BY <2>1, <2>2, SumInt
    <2>8. SumFunctionOnSet(g, T) = SumFunctionOnSet(f, S) + n
        BY <2>1, <2>3, <2>6, <2>7
    <2> QED
        BY <2>5, <2>8 DEF S
<1>3. ASSUME NEW j \in Invoices
      PROVE  Debited(DebitsOf(j))' = Debited(DebitsOf(j)) + (IF j = i THEN n ELSE 0)
    <2> DEFINE S == DebitsOf(j)
               T == DebitsOf(j)'
               f == [x \in S |-> payment[x].amount]
               g == [x \in T |-> payment'[x].amount]
    <2>1. /\ T = IF j = i THEN S \cup {k} ELSE S
          /\ S \subseteq Debits
          /\ k \notin S
        BY <1>0 DEF DebitsOf, DebitsOne
    <2>2. IsFiniteSet(S) /\ IsFiniteSet(T)
        BY <1>0, <2>1, FS_Subset, FS_AddElement
    <2>3. \A x \in S : f[x] \in Int
        BY <2>1, TermsTyped
    <2>4. S \ {k} = T \ {k} /\ \A x \in S \ {k} : f[x] = g[x]
        BY <2>1 DEF DebitsOne
    <2>5. k \in T => j = i /\ g[k] = n
        BY <2>1 DEF DebitsOne
    <2>6. \A x \in T : g[x] \in Int
        <3> HIDE DEF S, T, f, g
        <3> QED
            BY <2>3, <2>4, <2>5
    <2>7. j = i => k \in T
        BY <2>1
    <2>8. Debited(S) = SumFunctionOnSet(f, S) /\ Debited(DebitsOf(j))' = SumFunctionOnSet(g, T)
        BY DEF Debited
    <2>9. k \notin S
        BY <2>1
    <2> HIDE DEF S, T, f, g
    <2>10. SumFunctionOnSet(g, T) =
              SumFunctionOnSet(f, S) - (IF k \in S THEN f[k] ELSE 0)
                                     + (IF k \in T THEN g[k] ELSE 0)
        BY <2>2, <2>3, <2>4, <2>6, SumChange
    <2>11. SumFunctionOnSet(f, S) \in Int
        BY <2>2, <2>3, SumInt
    <2>12. SumFunctionOnSet(g, T) = SumFunctionOnSet(f, S) + (IF j = i THEN n ELSE 0)
        BY <2>5, <2>7, <2>9, <2>10, <2>11
    <2> QED
        BY <2>8, <2>12 DEF S
<1>4. /\ IsFiniteSet(SettledReceipts')
      /\ Credited(SettledReceipts)' = Credited(SettledReceipts)
      /\ \A j \in Invoices : Allocated(ReceiptsOf(j))' = Allocated(ReceiptsOf(j))
    BY <1>0, ReceiptSumsStay
<1>5. \A j \in Invoices :
          PaidOn(j)' = Allocated(ReceiptsOf(j))' + Debited(DebitsOf(j))'
    <2> TAKE j \in Invoices
    <2>1. PaidOn(j)' = PaidOn(j) + (IF j = i THEN n ELSE 0)
        BY DEF DebitsOne
    <2>2. PaidOn(j) = Allocated(ReceiptsOf(j)) + Debited(DebitsOf(j))
        BY DEF MoneyInv
    <2>3. Allocated(ReceiptsOf(j)) \in Int /\ Debited(DebitsOf(j)) \in Int
        BY SumsTyped
    <2> QED
        BY <1>3, <1>4, <2>1, <2>2, <2>3
<1>6. posted' = Credited(SettledReceipts)' - Debited(Debits)' /\ posted' >= 0
    <2>1. Credited(SettledReceipts) \in Int /\ Debited(Debits) \in Int /\ posted \in Int
        BY SumsTyped DEF TypeOK
    <2>2. /\ posted' = posted - n /\ n <= posted
          /\ posted = Credited(SettledReceipts) - Debited(Debits)
        BY DEF MoneyInv, DebitsOne
    <2> QED
        BY <1>2, <1>4, <2>1, <2>2
<1> QED
    BY <1>1, <1>4, <1>5, <1>6 DEF MoneyInv

(* Nothing is settled or paid at first.                                    *)
LEMMA MoneyInit == Init => MoneyInv
<1> SUFFICES ASSUME Init
             PROVE  MoneyInv
    OBVIOUS
<1>1. SettledReceipts = {} /\ Debits = {}
    BY DEF Init, SettledReceipts, Settled, Debits
<1>2. IsFiniteSet({})
    BY FS_EmptySet
<1>3. \A f : SumFunctionOnSet(f, {}) = 0
    BY <1>2, SumEquation
<1>4. Credited({}) = 0 /\ Debited({}) = 0 /\ Allocated({}) = 0
    BY <1>3 DEF Credited, Debited, Allocated
<1>5. \A i \in Invoices : ReceiptsOf(i) = {} /\ DebitsOf(i) = {} /\ PaidOn(i) = 0
    BY <1>1 DEF ReceiptsOf, DebitsOf, PaidOn, Init, NewInvoice
<1>6. UsedUp /\ posted = 0
    BY DEF Init, UsedUp, Exists
<1> QED
    BY <1>1, <1>2, <1>4, <1>5, <1>6 DEF MoneyInv

LEMMA ReceiptsStay ==
    ASSUME MoneyInv, receipt' = receipt
    PROVE  KeepsReceipts /\ UsedUp'
BY DEF MoneyInv, KeepsReceipts, SettledReceipts, Settled, UsedUp, Exists

LEMMA InvoicesStay ==
    ASSUME invoice' = invoice
    PROVE  \A i \in Invoices : PaidOn(i)' = PaidOn(i)
BY DEF PaidOn

(* A receipt that is sent holds no money yet.                              *)
LEMMA MoneySubmit ==
    ASSUME IInv, MoneyInv, NEW r \in Receipts, SubmitReceipt(r)
    PROVE  MoneyInv'
<1>0. /\ receipt \in [Receipts -> ReceiptRow \cup {None}]
      /\ receipt[r] = None
    BY DEF IInv, TypeOK, SubmitReceipt, Exists
<1>1. PICK state \in OpenStates : receipt' = [receipt EXCEPT ![r] = NewReceipt(state)]
    BY DEF SubmitReceipt, OpenStates
<1>2. /\ receipt'[r] = NewReceipt(state)
      /\ \A p \in Receipts \ {r} : receipt'[p] = receipt[p]
    BY <1>0, <1>1
<1>3. /\ NewReceipt(state).allocated = 0 /\ NewReceipt(state).credited = 0
      /\ NewReceipt(state).state \notin SettledStates
    BY DEF NewReceipt, OpenStates, SettledStates
<1>4. ~Settled(r) /\ ~Settled(r)' /\ \A p \in Receipts \ {r} : Settled(p)' <=> Settled(p)
    BY <1>0, <1>2, <1>3 DEF Settled
<1>5. KeepsReceipts
    <2>1. SettledReceipts' = SettledReceipts
        BY <1>4 DEF SettledReceipts
    <2>2. \A p \in SettledReceipts : receipt'[p] = receipt[p]
        BY <1>2, <1>4 DEF SettledReceipts
    <2> QED
        BY <2>1, <2>2 DEF KeepsReceipts
<1>6. UsedUp'
    BY <1>2, <1>3, <1>4 DEF UsedUp, MoneyInv, Exists
<1>7. KeepsMoney
    BY <1>5, InvoicesStay DEF KeepsMoney, SubmitReceipt
<1> QED
    BY <1>6, <1>7, MoneyKept DEF IInv

(* A decision short of settlement leaves the amounts of its receipt alone. *)
LEMMA MoneyMoved ==
    ASSUME IInv, MoneyInv, NEW r \in Receipts, receipt[r] # None,
           NEW state \in OpenStates \cup SettledStates \cup {"Rejected"},
           NEW q \in RequestRow \cup {None},
           receipt' = [receipt EXCEPT ![r] = Moved(receipt[r], state, q)],
           state \in SettledStates <=> receipt[r].state \in SettledStates,
           invoice' = invoice, payment' = payment, posted' = posted
    PROVE  MoneyInv'
<1> DEFINE row == Moved(receipt[r], state, q)
<1>0. receipt \in [Receipts -> ReceiptRow \cup {None}] /\ receipt[r] \in ReceiptRow
    BY DEF IInv, TypeOK
<1>1. /\ row.state = state
      /\ row.target = receipt[r].target
      /\ row.allocated = receipt[r].allocated
      /\ row.credited = receipt[r].credited
    BY <1>0 DEF Moved, ReceiptRow
<1>2. receipt'[r] = row /\ \A p \in Receipts \ {r} : receipt'[p] = receipt[p]
    BY <1>0
<1>3. row # None
    BY <1>0, RowChanges, NoneIsNoRow
<1> HIDE DEF row
<1>4. \A p \in Receipts : Settled(p)' <=> Settled(p)
    BY <1>0, <1>1, <1>2, <1>3 DEF Settled
<1>5. \A p \in Receipts : Exists(p)' <=> Exists(p)
    BY <1>2, <1>3 DEF Exists
<1>6. \A p \in Receipts : Exists(p) =>
          /\ receipt'[p].target = receipt[p].target
          /\ receipt'[p].allocated = receipt[p].allocated
          /\ receipt'[p].credited = receipt[p].credited
    BY <1>1, <1>2
<1>7. KeepsReceipts
    BY <1>4, <1>6 DEF KeepsReceipts, SettledReceipts, Settled, Exists
<1>8. UsedUp'
    BY <1>4, <1>5, <1>6 DEF UsedUp, MoneyInv
<1>9. KeepsMoney
    BY <1>7, InvoicesStay DEF KeepsMoney
<1> QED
    BY <1>8, <1>9, MoneyKept DEF IInv

(* Parking, carrying over, rejecting and resolving are such decisions.     *)
LEMMA MoneyDecided ==
    ASSUME IInv, MoneyInv, NEW s \in Staff, NEW r \in Receipts,
           \/ ParkForDualApproval(s, r)
           \/ SynchronizeRejected(s, r)
           \/ RejectReceipt(s, r)
           \/ \E decision \in {"approved", "rejected"} : ResolveRequest(s, r, decision)
    PROVE  MoneyInv'
<1>0. /\ receipt[r] # None
      /\ receipt[r].state \in OpenStates \cup SettledStates \cup {"Rejected"}
      /\ Request(r) \in RequestRow \cup {None}
    BY DEF ParkForDualApproval, SynchronizeRejected, Committing, RejectReceipt, Open,
           ResolveRequest, Exists, IInv, TypeOK, ReceiptRow, Request
<1>r. /\ "Rejected" \in OpenStates \cup SettledStates \cup {"Rejected"}
      /\ "UnderReview" \in OpenStates
      /\ "Rejected" \notin SettledStates
      /\ OpenStates \cap SettledStates = {}
    BY DEF OpenStates, SettledStates
<1>1. CASE ParkForDualApproval(s, r)
    <2>1. /\ receipt[r].state \in OpenStates
          /\ screen[s] \in Screen
        BY <1>1 DEF ParkForDualApproval, Committing, Open, IInv, TypeOK
    <2> DEFINE state == IF receipt[r].state = "Submitted" THEN "UnderReview"
                                                          ELSE receipt[r].state
               q == [status |-> "pending", initiator |-> s, reviewer |-> None,
                     override |-> FALSE,
                     facts |-> IF Terms[r].kind = "wallet" THEN screen[s].facts
                                                           ELSE None]
    <2>2. q \in RequestRow
        BY <2>1 DEF RequestRow, RequestStates, Screen
    <2>3. state \in OpenStates
        BY <1>r, <2>1
    <2>4. /\ receipt' = [receipt EXCEPT ![r] = Moved(receipt[r], state, q)]
          /\ invoice' = invoice /\ payment' = payment /\ posted' = posted
        BY <1>1 DEF ParkForDualApproval
    <2> HIDE DEF state, q
    <2> QED
        BY <1>0, <1>r, <2>1, <2>2, <2>3, <2>4, MoneyMoved
<1>2. CASE SynchronizeRejected(s, r)
    <2>1. receipt[r].state \in OpenStates
        BY <1>2 DEF SynchronizeRejected, Committing, Open
    <2> QED
        BY <1>0, <1>r, <1>2, <2>1, MoneyMoved DEF SynchronizeRejected
<1>3. CASE RejectReceipt(s, r)
    <2> DEFINE q == IF HasRequest(r, "pending") THEN Resolved(Request(r), s, "rejected")
                                                ELSE Request(r)
    <2>1. receipt[r].state \in OpenStates
        BY <1>3 DEF RejectReceipt, Open
    <2>2. q \in RequestRow \cup {None}
        BY <1>0, ResolvedTyped DEF HasRequest, RequestStates
    <2>3. /\ receipt' = [receipt EXCEPT ![r] = Moved(receipt[r], "Rejected", q)]
          /\ invoice' = invoice /\ payment' = payment /\ posted' = posted
        BY <1>3 DEF RejectReceipt
    <2> HIDE DEF q
    <2> QED
        BY <1>0, <1>r, <2>1, <2>2, <2>3, MoneyMoved
<1>4. CASE \E decision \in {"approved", "rejected"} : ResolveRequest(s, r, decision)
    <2>1. PICK decision \in {"approved", "rejected"} : ResolveRequest(s, r, decision)
        BY <1>4
    <2> DEFINE q == Resolved(Request(r), s, decision)
    <2>2. q \in RequestRow
        BY <1>0, <2>1, ResolvedTyped DEF ResolveRequest, HasRequest, RequestStates
    <2>3. /\ receipt' = [receipt EXCEPT ![r] = Moved(receipt[r], receipt[r].state, q)]
          /\ invoice' = invoice /\ payment' = payment /\ posted' = posted
        BY <2>1 DEF ResolveRequest
    <2> HIDE DEF q
    <2> QED
        BY <1>0, <2>2, <2>3, MoneyMoved
<1> QED
    BY <1>1, <1>2, <1>3, <1>4

(* A confirmation splits the whole receipt between invoice and wallet.     *)
LEMMA MoneyConfirm ==
    ASSUME IInv, MoneyInv, NEW s \in Staff, NEW r \in Receipts, NEW override \in BOOLEAN,
           ConfirmReceipt(s, r, override)
    PROVE  MoneyInv'
<1> USE DEF ConfirmReceipt, Committing
<1>t. PICK target \in Invoices \cup {None} : target = screen[s].facts.target
    BY DEF Targets
<1> DEFINE a == Allocation(r, CurrentFacts(r, target))
           n == Terms[r].amount - a
<1>0. /\ receipt \in [Receipts -> ReceiptRow \cup {None}]
      /\ invoice \in [Invoices -> InvoiceRow \cup {None}]
      /\ ~Settled(r)
      /\ target # None => invoice[target] # None
    BY <1>t DEF IInv, TypeOK, Open, Targets, Settled, OpenStates, SettledStates
<1>1. PICK q \in {None, Request(r)} \cup (IF Request(r) = None THEN {}
                     ELSE {Approved(Request(r), s, override)}) :
            ApplySettlement(r, target, a, q)
    BY <1>t
<1>2. /\ a \in 0..Terms[r].amount
      /\ target = None => a = 0
      /\ a # 0 => /\ target \in Invoices
                  /\ invoice[target] \in InvoiceRow
                  /\ invoice[target].paid + a <= Total[target]
    BY <1>0, AllocationIsBounded DEF IInv
<1>3. Terms[r].amount \in Nat
    BY SettlementAssumption DEF Term
<1>4. a \in Nat /\ n \in Nat /\ a + n = Terms[r].amount
    BY <1>2, <1>3
<1>5. posted' = posted + n /\ payment' = payment
    BY <1>1 DEF ApplySettlement
<1> DEFINE closed == [state     |-> IF Terms[r].kind = "invoice" THEN "Confirmed" ELSE "Released",
                      request   |-> q, target |-> target,
                      allocated |-> a, credited |-> n]
<1>6. receipt'[r] = closed /\ \A p \in Receipts \ {r} : receipt'[p] = receipt[p]
    BY <1>0, <1>1 DEF ApplySettlement
<1>7. closed # None
    <2>1. receipt[r] \in ReceiptRow
        BY <1>0 DEF Open
    <2>2. q \in RequestRow \cup {None}
        BY <2>1 DEF Request, ReceiptRow, Approved, Resolved, RequestRow, RequestStates
    <2>3. closed \in ReceiptRow
        BY <1>4, <2>2 DEF ReceiptRow, SettledStates
    <2> QED
        BY <2>3, NoneIsNoRow
<1>8. closed.state \in SettledStates /\ closed.allocated = a /\ closed.credited = n
      /\ closed.target = target
    BY DEF SettledStates
<1>9. ASSUME NEW i \in Invoices
      PROVE  PaidOn(i)' = PaidOn(i) + (IF i = target THEN a ELSE 0)
    <2>1. PaidOn(i) \in Nat
        BY <1>0 DEF PaidOn, InvoiceRow
    <2>2. CASE a = 0
        <3>1. invoice' = invoice
            BY <1>1, <2>2 DEF ApplySettlement
        <3> QED
            BY <2>1, <2>2, <3>1 DEF PaidOn
    <2>3. CASE a # 0
        <3> DEFINE after == InvoiceRowAfter(target, invoice[target], a)
        <3>1. invoice' = [invoice EXCEPT ![target] = after]
            BY <1>1, <2>3 DEF ApplySettlement
        <3>2. after \in InvoiceRow /\ after.paid = invoice[target].paid + a
            BY <1>2, <1>4, <2>3, SettledInvoiceAgrees
        <3>3. after # None
            BY <3>2, NoneIsNoRow
        <3> HIDE DEF after
        <3>4. CASE i = target
            <4>1. invoice'[i] = after /\ invoice[i] # None
                BY <1>0, <1>2, <2>3, <3>1, <3>4, NoneIsNoRow
            <4> QED
                BY <3>2, <3>3, <3>4, <4>1 DEF PaidOn
        <3>5. CASE i # target
            <4>1. invoice'[i] = invoice[i]
                BY <1>0, <3>1, <3>5
            <4> QED
                BY <2>1, <3>5, <4>1 DEF PaidOn
        <3> QED
            BY <3>4, <3>5
    <2> QED
        BY <2>2, <2>3
<1> HIDE DEF closed, a, n
<1>10. SettledReceipts' = SettledReceipts \cup {r}
    BY <1>6, <1>7, <1>8 DEF SettledReceipts, Settled
<1>11. SettlesOne(r, target, a, n)
    BY <1>0, <1>5, <1>6, <1>8, <1>9, <1>10 DEF SettlesOne, SettledReceipts
<1>12. UsedUp'
    <2>1. \A p \in Receipts \ {r} : Settled(p)' <=> Settled(p)
        BY <1>6 DEF Settled
    <2>2. \A p \in Receipts \ {r} : Exists(p)' =>
              receipt'[p].allocated + receipt'[p].credited
                  = IF Settled(p)' THEN Terms[p].amount ELSE 0
        BY <1>6, <2>1 DEF MoneyInv, UsedUp, Exists
    <2>3. Settled(r)' /\ receipt'[r].allocated + receipt'[r].credited = Terms[r].amount
        BY <1>4, <1>6, <1>7, <1>8 DEF Settled
    <2> QED
        BY <2>2, <2>3 DEF UsedUp
<1> QED
    BY <1>4, <1>11, <1>12, MoneySettled DEF IInv

(* A payment from the wallet debits what it adds to the invoice.           *)
LEMMA MoneyPay ==
    ASSUME IInv, MoneyInv, NEW i \in Invoices, NEW k \in Keys, PayInvoiceWithWallet(i, k)
    PROVE  MoneyInv'
<1> USE DEF PayInvoiceWithWallet, debitExactRemaining, environment
<1> DEFINE n == WalletRemaining(i, invoice[i])
           row == [state |-> "Paid", paid |-> invoice[i].paid + n]
           debit == [invoice |-> i, amount |-> n]
<1>0. /\ invoice \in [Invoices -> InvoiceRow \cup {None}]
      /\ payment \in [Keys -> PaymentRow \cup {None}]
      /\ invoice[i] \in InvoiceRow
      /\ invoice[i].paid \in Nat /\ Total[i] \in Nat /\ Total[i] # 0
    BY SettlementAssumption DEF IInv, TypeOK, InvoiceRow
<1>1. n \in Nat /\ n <= posted /\ posted' = posted - n
    BY <1>0 DEF IInv, InvoiceAgrees, StateAgrees, WalletRemaining
<1>2. row \in InvoiceRow /\ row.paid = invoice[i].paid + n
    BY <1>0, <1>1 DEF InvoiceRow, InvoiceStates
<1>3. debit \in PaymentRow /\ debit.invoice = i /\ debit.amount = n
    BY <1>1 DEF PaymentRow
<1>4. /\ invoice' = [invoice EXCEPT ![i] = row]
      /\ payment' = [payment EXCEPT ![k] = debit]
      /\ payment[k] = None
      /\ receipt' = receipt
    OBVIOUS
<1>5. row # None /\ debit # None
    BY <1>2, <1>3, NoneIsNoRow
<1> HIDE DEF n, row, debit
<1>6. payment'[k] = debit /\ \A l \in Keys \ {k} : payment'[l] = payment[l]
    BY <1>0, <1>4
<1>7. /\ k \in Keys \ Debits
      /\ Debits' = Debits \cup {k}
      /\ \A l \in Debits : payment'[l] = payment[l]
    BY <1>4, <1>5, <1>6 DEF Debits
<1>8. ASSUME NEW j \in Invoices
      PROVE  PaidOn(j)' = PaidOn(j) + (IF j = i THEN n ELSE 0)
    <2>1. PaidOn(j) \in Nat
        BY <1>0 DEF PaidOn, InvoiceRow
    <2>2. CASE j = i
        <3>1. invoice'[j] = row /\ invoice[j] # None
            BY <1>0, <1>4, <2>2
        <3> QED
            BY <1>2, <1>5, <2>2, <3>1 DEF PaidOn
    <2>3. CASE j # i
        <3>1. invoice'[j] = invoice[j]
            BY <1>0, <1>4, <2>3
        <3> QED
            BY <2>1, <2>3, <3>1 DEF PaidOn
    <2> QED
        BY <2>2, <2>3
<1>9. KeepsReceipts /\ UsedUp'
    BY <1>4, ReceiptsStay
<1>10. DebitsOne(k, i, n)
    BY <1>1, <1>3, <1>6, <1>7, <1>8, <1>9 DEF DebitsOne
<1> QED
    BY <1>1, <1>9, <1>10, MoneyDebited DEF IInv

(* What changes invoices without money leaves every paid_amount alone: a   *)
(* replacement starts at nothing and what it replaces had nothing.         *)
LEMMA MoneyInvoices ==
    ASSUME IInv, MoneyInv, NEW i \in Invoices,
           \/ \E j \in Invoices : CancelAndReplaceInvoice(i, j)
           \/ CancelInvoice(i)
           \/ MarkOneOverdue(i)
    PROVE  MoneyInv'
<1>0. invoice \in [Invoices -> InvoiceRow \cup {None}]
    BY DEF IInv, TypeOK
<1>1. /\ receipt' = receipt /\ payment' = payment /\ posted' = posted
    BY DEF CancelAndReplaceInvoice, CancelInvoice, MarkOneOverdue
<1>2. ASSUME NEW state \in InvoiceStates, invoice[i] # None
      PROVE  /\ InState(i, state) # None
             /\ InState(i, state).paid = invoice[i].paid
    <2>1. InState(i, state) \in InvoiceRow
        BY <1>0, <1>2 DEF InState, InvoiceRow
    <2> QED
        BY <2>1, NoneIsNoRow DEF InState
<1>3. NewInvoice # None /\ NewInvoice.paid = 0
    <2>1. NewInvoice \in InvoiceRow
        BY DEF NewInvoice, InvoiceRow, InvoiceStates
    <2> QED
        BY <2>1, NoneIsNoRow DEF NewInvoice
<1>4. "Cancelled" \in InvoiceStates /\ "Overdue" \in InvoiceStates
    BY DEF InvoiceStates
<1>5. \A j \in Invoices : PaidOn(j)' = PaidOn(j)
    <2>1. CASE \E j \in Invoices : CancelAndReplaceInvoice(i, j)
        <3>1. PICK j \in Invoices : CancelAndReplaceInvoice(i, j)
            BY <2>1
        <3>2. /\ invoice[i] # None /\ invoice[j] = None /\ i # j
              /\ invoice' = [invoice EXCEPT ![i] = InState(i, "Cancelled"), ![j] = NewInvoice]
            BY <3>1 DEF CancelAndReplaceInvoice, Replaceable
        <3>3. /\ invoice'[i] = InState(i, "Cancelled")
              /\ invoice'[j] = NewInvoice
              /\ \A l \in Invoices \ {i, j} : invoice'[l] = invoice[l]
            BY <1>0, <3>2
        <3>4. InState(i, "Cancelled") # None
              /\ InState(i, "Cancelled").paid = invoice[i].paid
            BY <1>2, <1>4, <3>2
        <3>5. PaidOn(i)' = PaidOn(i)
            BY <3>2, <3>3, <3>4 DEF PaidOn
        <3>6. PaidOn(j)' = PaidOn(j)
            BY <1>3, <3>2, <3>3 DEF PaidOn
        <3>7. \A l \in Invoices \ {i, j} : PaidOn(l)' = PaidOn(l)
            BY <3>3 DEF PaidOn
        <3> QED
            BY <3>5, <3>6, <3>7
    <2>2. CASE CancelInvoice(i)
        <3>1. /\ invoice[i] # None
              /\ invoice'[i] = InState(i, "Cancelled")
              /\ \A l \in Invoices \ {i} : invoice'[l] = invoice[l]
            BY <1>0, <2>2 DEF CancelInvoice, Replaceable
        <3> QED
            BY <1>2, <1>4, <3>1 DEF PaidOn
    <2>3. CASE MarkOneOverdue(i)
        <3>1. CASE invoice' = invoice
            BY <3>1, InvoicesStay
        <3>2. CASE /\ invoice[i] # None
                   /\ invoice' = [invoice EXCEPT ![i] = InState(i, "Overdue")]
            <4>1. /\ invoice'[i] = InState(i, "Overdue")
                  /\ \A l \in Invoices \ {i} : invoice'[l] = invoice[l]
                BY <1>0, <3>2
            <4> QED
                BY <1>2, <1>4, <3>2, <4>1 DEF PaidOn
        <3> QED
            BY <2>3, <3>1, <3>2 DEF MarkOneOverdue
    <2> QED
        BY <2>1, <2>2, <2>3
<1>6. KeepsReceipts /\ UsedUp'
    BY <1>1, ReceiptsStay
<1>7. KeepsMoney
    BY <1>1, <1>5, <1>6 DEF KeepsMoney
<1> QED
    BY <1>6, <1>7, MoneyKept DEF IInv

(* Every step keeps the accounts.                                          *)
LEMMA MoneyStep == IInv /\ MoneyInv /\ [Next]_vars => MoneyInv'
<1> SUFFICES ASSUME IInv, MoneyInv, [Next]_vars
             PROVE  MoneyInv'
    OBVIOUS
<1>1. ASSUME receipt' = receipt, invoice' = invoice, payment' = payment, posted' = posted
      PROVE  MoneyInv'
    <2>1. KeepsReceipts /\ UsedUp'
        BY <1>1, ReceiptsStay
    <2>2. KeepsMoney
        BY <1>1, <2>1, InvoicesStay DEF KeepsMoney
    <2> QED
        BY <2>1, <2>2, MoneyKept DEF IInv
<1>2. CASE UNCHANGED vars
    BY <1>1, <1>2 DEF vars
<1>3. CASE \E r \in Receipts : SubmitReceipt(r)
    BY <1>3, MoneySubmit
<1>4. CASE \E s \in Staff, r \in Receipts :
              \E target \in Invoices \cup {None}, override \in BOOLEAN :
                  Review(s, r, target, override)
    BY <1>1, <1>4 DEF Review
<1>5. CASE \E s \in Staff, r \in Receipts : Confirmation(s, r)
    BY <1>5, MoneyDecided, MoneyConfirm DEF Confirmation
<1>6. CASE \E s \in Staff, r \in Receipts :
              \/ RejectReceipt(s, r)
              \/ \E decision \in {"approved", "rejected"} : ResolveRequest(s, r, decision)
    BY <1>6, MoneyDecided
<1>7. CASE \E i \in Invoices, k \in Keys : PayInvoiceWithWallet(i, k)
    BY <1>7, MoneyPay
<1>8. CASE \/ \E i, j \in Invoices : CancelAndReplaceInvoice(i, j)
           \/ \E i \in Invoices : CancelInvoice(i) \/ MarkOneOverdue(i)
    BY <1>8, MoneyInvoices
<1>9. CASE \/ StartOverdueScan
           \/ \E n \in Thresholds : SetThreshold(n)
           \/ \E s \in Staff : ChangePermission(s)
           \/ ArchiveProfile
    BY <1>1, <1>9 DEF StartOverdueScan, SetThreshold, ChangePermission, ArchiveProfile
<1> QED
    BY <1>2, <1>3, <1>4, <1>5, <1>6, <1>7, <1>8, <1>9 DEF Next

(* Receipts, invoices and wallet agree to the last rial, for any number of *)
(* receipts, payments and invoices: what was settled went once and whole   *)
(* to an invoice and the wallet, and what an invoice holds came from them. *)
THEOREM MoneyAddsUp == Spec => []MoneyIsAccounted
<1>1. MoneyInv => MoneyIsAccounted
    BY DEF MoneyInv, MoneyIsAccounted, PaidOn, ReceiptsOf, DebitsOf, UsedUp
<1> QED
    BY <1>1, InitIInv, StepIInv, MoneyInit, MoneyStep, PTL DEF Spec

-------------------------------------------------------------------------------
(* Settlement                                                              *)

(* Only a confirmation settles a receipt.                                  *)
LEMMA OnlyConfirmationSettles ==
    ASSUME IInv, [Next]_vars, NEW r \in Receipts, Settles(r)
    PROVE  \E s \in Staff, override \in BOOLEAN : ConfirmReceipt(s, r, override)
<1> USE DEF Settles, Settled
<1>0. /\ receipt \in [Receipts -> ReceiptRow \cup {None}]
      /\ receipt' # receipt
    BY DEF IInv, TypeOK
<1>1. ASSUME NEW q \in Receipts, SubmitReceipt(q)
      PROVE  FALSE
    BY <1>0, <1>1 DEF SubmitReceipt, NewReceipt, SettledStates
<1>2. ASSUME NEW s \in Staff, NEW q \in Receipts,
             \/ ParkForDualApproval(s, q)
             \/ SynchronizeRejected(s, q)
             \/ RejectReceipt(s, q)
             \/ \E decision \in {"approved", "rejected"} : ResolveRequest(s, q, decision)
      PROVE  FALSE
    <2>0. receipt[q] # None /\ receipt[q] \in ReceiptRow
        BY <1>0, <1>2 DEF ParkForDualApproval, SynchronizeRejected, Committing,
            RejectReceipt, Open, ResolveRequest, Exists
    <2>1. ASSUME NEW state, NEW request,
                 receipt' = [receipt EXCEPT ![q] = Moved(receipt[q], state, request)],
                 state = receipt[q].state \/ state \notin SettledStates
          PROVE  FALSE
        <3>1. Moved(receipt[q], state, request).state = state
            BY <2>0 DEF Moved, ReceiptRow
        <3>2. receipt'[q].state = state /\ \A p \in Receipts \ {q} : receipt'[p] = receipt[p]
            BY <1>0, <2>1, <3>1
        <3> QED
            BY <2>0, <2>1, <3>2
    <2>2. CASE ParkForDualApproval(s, q)
        <3>1. (IF receipt[q].state = "Submitted" THEN "UnderReview" ELSE receipt[q].state)
                  \in {"UnderReview", receipt[q].state}
            OBVIOUS
        <3> QED
            BY <2>1, <2>2, <3>1 DEF ParkForDualApproval, SettledStates
    <2>3. CASE SynchronizeRejected(s, q)
        BY <2>1, <2>3 DEF SynchronizeRejected, SettledStates
    <2>4. CASE RejectReceipt(s, q)
        BY <2>1, <2>4 DEF RejectReceipt, SettledStates
    <2>5. CASE \E decision \in {"approved", "rejected"} : ResolveRequest(s, q, decision)
        BY <2>1, <2>5 DEF ResolveRequest
    <2> QED
        BY <1>2, <2>2, <2>3, <2>4, <2>5
<1>3. ASSUME NEW s \in Staff, NEW q \in Receipts, NEW override \in BOOLEAN,
             ConfirmReceipt(s, q, override)
      PROVE  q = r
    BY <1>0, <1>3 DEF ConfirmReceipt, ApplySettlement
<1>4. \E s \in Staff, q \in Receipts : Confirmation(s, q)
    BY <1>0, <1>1, <1>2 DEF Next, vars, environment, Review, PayInvoiceWithWallet,
        CancelAndReplaceInvoice, CancelInvoice, MarkOneOverdue, StartOverdueScan,
        SetThreshold, ChangePermission, ArchiveProfile
<1> QED
    BY <1>2, <1>3, <1>4 DEF Confirmation

(* An approved request names who approved it.                              *)
LEMMA ApprovedTyped ==
    ASSUME NEW q \in RequestRow, NEW s \in Staff, NEW override \in BOOLEAN
    PROVE  LET approved == Approved(q, s, override)
           IN  /\ approved \in RequestRow
               /\ approved.status = "approved"
               /\ approved.initiator = q.initiator
               /\ approved.reviewer = s
               /\ approved.override = override
BY DEF Approved, Resolved, RequestRow, RequestStates

(* The step of a confirmation, with what it was decided on.                *)
LEMMA ConfirmedByTwo ==
    ASSUME IInv, NEW s \in Staff, NEW r \in Receipts, NEW override \in BOOLEAN,
           ConfirmReceipt(s, r, override)
    PROVE  LET q == receipt'[r].request
           IN  IF q = None THEN ~RequiresDual(r)
               ELSE /\ q.status = "approved"
                    /\ IF q.override THEN q.reviewer \in Overriders
                       ELSE /\ q.initiator # q.reviewer
                            /\ {q.initiator, q.reviewer} \subseteq finance
<1>1. PICK q :
        /\ Gate(s, r, override, q)
        /\ ApplySettlement(r, screen[s].facts.target,
                Allocation(r, CurrentFacts(r, screen[s].facts.target)), q)
    BY DEF ConfirmReceipt
<1>2. receipt \in [Receipts -> ReceiptRow \cup {None}] /\ receipt[r] \in ReceiptRow
    BY DEF ConfirmReceipt, Committing, Open, IInv, TypeOK
<1>3. receipt'[r].request = q
    BY <1>1, <1>2 DEF ApplySettlement
<1>4. Request(r) # None => /\ Request(r) \in RequestRow
                          /\ ~Request(r).override
    BY <1>2 DEF IInv, OpenIsNotOverridden, ConfirmReceipt, Committing, Open, Exists,
           Settled, OpenStates, SettledStates, Request, ReceiptRow
<1>n. None \notin RequestRow
    BY NoneIsNoRow
<1>5. CASE ~override /\ Request(r) = None /\ ~RequiresDual(r) /\ q = None
    BY <1>3, <1>5
<1>6. CASE /\ override /\ HasRequest(r, "pending") /\ s \in Overriders
           /\ q = Approved(Request(r), s, TRUE)
    <2>1. q # None /\ q.status = "approved" /\ q.reviewer = s /\ q.override = TRUE
        BY <1>4, <1>6, <1>n, ApprovedTyped DEF HasRequest
    <2> QED
        BY <1>3, <1>6, <2>1
<1>7. CASE /\ ~override /\ HasRequest(r, "pending") /\ Authority(Request(r))
           /\ s \in finance \ {Request(r).initiator}
           /\ q = Approved(Request(r), s, FALSE)
    <2>1. q # None /\ q.status = "approved" /\ q.initiator = Request(r).initiator
          /\ q.reviewer = s /\ q.override = FALSE
        BY <1>4, <1>7, <1>n, ApprovedTyped DEF HasRequest
    <2>2. Request(r).initiator \in finance /\ s \in finance /\ s # Request(r).initiator
        BY <1>7 DEF Authority
    <2> QED
        BY <1>3, <2>1, <2>2
<1>8. CASE /\ ~override /\ HasRequest(r, "approved") /\ Authority(Request(r))
           /\ q = Request(r)
    <2>1. q # None /\ q.status = "approved" /\ ~q.override
        BY <1>4, <1>8 DEF HasRequest
    <2>2. q.initiator \in finance /\ q.reviewer \in finance /\ q.reviewer # q.initiator
        BY <1>8, <2>1 DEF Authority
    <2> QED
        BY <1>3, <2>1, <2>2
<1> QED
    BY <1>1, <1>5, <1>6, <1>7, <1>8 DEF Gate

(* confirm: whatever happened to the policy, the permissions and the       *)
(* register in between, a large receipt takes two members who may decide   *)
(* at that moment, or an override.                                         *)
THEOREM TwoMembersSettleReceipts == Spec => TwoMembersSettle
<1>1. ASSUME IInv, [Next]_vars
      PROVE  [\A r \in Receipts : Settles(r) =>
                LET q == receipt'[r].request
                IN  IF q = None THEN ~RequiresDual(r)
                    ELSE /\ q.status = "approved"
                         /\ IF q.override THEN q.reviewer \in Overriders
                            ELSE /\ q.initiator # q.reviewer
                                 /\ {q.initiator, q.reviewer} \subseteq finance]_vars
    BY <1>1, OnlyConfirmationSettles, ConfirmedByTwo
<1> QED
    BY <1>1, Invariance, PTL DEF Spec, TwoMembersSettle

(* A confirmation settles what its member's screen showed.                 *)
LEMMA ConfirmedAsShown ==
    ASSUME IInv, NEW s \in Staff, NEW r \in Receipts, NEW override \in BOOLEAN,
           ConfirmReceipt(s, r, override)
    PROVE  /\ screen[s] # None /\ screen[s].receipt = r
           /\ SettledAsShown(s, r)
<1> DEFINE facts == screen[s].facts
           a == Allocation(r, CurrentFacts(r, facts.target))
<1>1. PICK q : ApplySettlement(r, facts.target, a, q)
    BY DEF ConfirmReceipt
<1>2. /\ screen[s] # None /\ screen[s].receipt = r
      /\ facts = CurrentFacts(r, facts.target)
      /\ Binding(s, r, facts)
    BY DEF ConfirmReceipt, Committing
<1>3. facts.balance = posted
    BY <1>2 DEF CurrentFacts
<1>4. a = Allocation(r, facts)
    BY <1>2
<1> HIDE DEF facts, a
<1>5. /\ receipt'[r].target = facts.target
      /\ receipt'[r].allocated = a
      /\ receipt'[r].credited = Terms[r].amount - a
      /\ posted' = posted + (Terms[r].amount - a)
    BY <1>1 DEF ApplySettlement, IInv, TypeOK
<1> QED
    BY <1>2, <1>3, <1>4, <1>5 DEF SettledAsShown, Binding, facts

(* Review hash and fingerprint: what settles is what was shown, however    *)
(* many stale screens are open.                                            *)
THEOREM ShownIsWhatSettles == Spec => ShownIsSettled
<1>1. ASSUME IInv, [Next]_vars
      PROVE  [\A r \in Receipts : Settles(r) =>
                 \E s \in Staff : /\ screen[s] # None /\ screen[s].receipt = r
                                  /\ SettledAsShown(s, r)]_vars
    BY <1>1, OnlyConfirmationSettles, ConfirmedAsShown
<1> QED
    BY <1>1, Invariance, PTL DEF Spec, ShownIsSettled
-------------------------------------------------------------------------------
(* Final states                                                            *)

(* One invoice that is not at its end gains money or keeps what it has.    *)
LEMMA OneFills ==
    ASSUME IInv, NEW i \in Invoices, NEW row \in InvoiceRow,
           invoice' = [invoice EXCEPT ![i] = row],
           row.paid >= invoice[i].paid,
           invoice[i].state \notin {"Paid", "Cancelled"}
    PROVE  \A j \in Invoices : OnlyFills(j)
<1> SUFFICES ASSUME NEW j \in Invoices, invoice[j] # None
             PROVE  /\ invoice'[j] # None
                    /\ invoice'[j].paid >= invoice[j].paid
                    /\ invoice[j].state \in {"Paid", "Cancelled"} =>
                          invoice'[j] = invoice[j]
    BY DEF OnlyFills
<1>1. /\ invoice \in [Invoices -> InvoiceRow \cup {None}]
      /\ row # None
    BY NoneIsNoRow DEF IInv, TypeOK
<1>2. CASE j = i
    BY <1>1, <1>2
<1>3. CASE j # i
    <2>1. invoice'[j] = invoice[j] /\ invoice[j].paid \in Nat
        BY <1>1, <1>3 DEF InvoiceRow
    <2> QED
        BY <2>1
<1> QED
    BY <1>2, <1>3

LEMMA StayedFull ==
    ASSUME IInv, invoice' = invoice
    PROVE  \A i \in Invoices : OnlyFills(i)
<1>1. \A i \in Invoices : invoice[i] # None => invoice[i].paid \in Nat
    BY DEF IInv, TypeOK, InvoiceRow
<1> QED
    BY <1>1 DEF OnlyFills

(* A receipt leaves nothing on an invoice that is paid, and does not go to *)
(* one that is cancelled.                                                  *)
LEMMA ConfirmFills ==
    ASSUME IInv, NEW s \in Staff, NEW r \in Receipts, NEW override \in BOOLEAN,
           ConfirmReceipt(s, r, override)
    PROVE  \A i \in Invoices : OnlyFills(i)
<1>1. PICK target \in Invoices \cup {None} : target = screen[s].facts.target
    BY DEF ConfirmReceipt, Committing, Targets
<1> DEFINE a == Allocation(r, CurrentFacts(r, target))
<1>2. /\ \E q : ApplySettlement(r, target, a, q)
      /\ target # None => /\ invoice[target] # None
                          /\ invoice[target].state \in LinkAllowedStates
    BY <1>1 DEF ConfirmReceipt, Committing, Targets
<1>3. /\ a \in 0..Terms[r].amount
      /\ a # 0 => /\ target \in Invoices
                  /\ invoice[target] \in InvoiceRow
                  /\ invoice[target].paid + a <= Total[target]
    BY <1>2, AllocationIsBounded DEF IInv
<1>4. a # 0 => invoice[target].state \notin {"Paid", "Cancelled"}
    <2> SUFFICES ASSUME a # 0
                 PROVE  invoice[target].state \notin {"Paid", "Cancelled"}
        OBVIOUS
    <2>1. target \in Invoices /\ target # None /\ Terms[r].amount \in Nat
        BY <1>3, SettlementAssumption DEF Term
    <2>2. a = Least(Terms[r].amount, Remaining(target, invoice[target]))
        BY <2>1 DEF Allocation, CurrentFacts
    <2>3. invoice[target].state # "Paid"
        BY <2>1, <2>2 DEF Least, Remaining, SETTLEABLE_STATES
    <2>4. invoice[target].state # "Cancelled"
        BY <1>2, <2>1 DEF LinkAllowedStates, SETTLEABLE_STATES
    <2> QED
        BY <2>3, <2>4
<1>5. a \in Nat
    BY <1>3, SettlementAssumption DEF Term
<1> HIDE DEF a
<1>6. CASE a = 0
    BY <1>2, <1>6, StayedFull DEF ApplySettlement
<1>7. CASE a # 0
    <2> DEFINE row == InvoiceRowAfter(target, invoice[target], a)
    <2>1. invoice' = [invoice EXCEPT ![target] = row]
        BY <1>2, <1>7 DEF ApplySettlement
    <2>2. row \in InvoiceRow /\ row.paid = invoice[target].paid + a
        BY <1>3, <1>5, <1>7, SettledInvoiceAgrees
    <2>3. invoice[target].paid \in Nat
        BY <1>3, <1>7 DEF InvoiceRow
    <2> HIDE DEF row
    <2>4. row.paid >= invoice[target].paid
        BY <1>5, <2>2, <2>3
    <2> QED
        BY <1>3, <1>4, <1>7, <2>1, <2>2, <2>4, OneFills
<1> QED
    BY <1>6, <1>7

(* Payment, cancellation and the scan take an invoice that is still open.  *)
LEMMA InvoiceStepsFill ==
    ASSUME IInv, NEW i \in Invoices,
           \/ \E k \in Keys : PayInvoiceWithWallet(i, k)
           \/ \E j \in Invoices : CancelAndReplaceInvoice(i, j)
           \/ CancelInvoice(i)
           \/ MarkOneOverdue(i)
    PROVE  \A j \in Invoices : OnlyFills(j)
<1>1. /\ invoice \in [Invoices -> InvoiceRow \cup {None}]
      /\ Total[i] \in Nat \ {0}
      /\ invoice[i] # None => invoice[i] \in InvoiceRow /\ invoice[i].paid \in Nat
    BY SettlementAssumption DEF IInv, TypeOK, InvoiceRow
<1>2. ASSUME NEW state \in InvoiceStates, invoice[i] # None,
             invoice[i].state \notin {"Paid", "Cancelled"},
             invoice' = [invoice EXCEPT ![i] = InState(i, state)]
      PROVE  \A j \in Invoices : OnlyFills(j)
    <2> DEFINE row == InState(i, state)
    <2>1. row \in InvoiceRow /\ row.paid = invoice[i].paid
        BY <1>1, <1>2 DEF InState, InvoiceRow
    <2>2. invoice' = [invoice EXCEPT ![i] = row]
        BY <1>2
    <2> HIDE DEF row
    <2>3. row.paid >= invoice[i].paid
        BY <1>1, <1>2, <2>1
    <2> QED
        BY <1>2, <2>1, <2>2, <2>3, OneFills
<1>3. ASSUME NEW k \in Keys, PayInvoiceWithWallet(i, k)
      PROVE  \A j \in Invoices : OnlyFills(j)
    <2> DEFINE left == WalletRemaining(i, invoice[i])
               row == [state |-> "Paid", paid |-> invoice[i].paid + left]
    <2>1. /\ invoice[i] # None /\ left > 0
          /\ invoice' = [invoice EXCEPT ![i] = row]
        BY <1>3 DEF PayInvoiceWithWallet
    <2>2. invoice[i].state \notin {"Paid", "Cancelled"}
        BY <2>1 DEF WalletRemaining, PayableStates
    <2>3. left \in Int
        BY <1>1, <2>1 DEF WalletRemaining
    <2> HIDE DEF left
    <2>4. row \in InvoiceRow /\ row.paid = invoice[i].paid + left
        BY <1>1, <2>1, <2>3 DEF InvoiceRow, InvoiceStates
    <2> HIDE DEF row
    <2>5. row.paid >= invoice[i].paid
        BY <1>1, <2>1, <2>3, <2>4
    <2> QED
        BY <2>1, <2>2, <2>4, <2>5, OneFills
<1>4. ASSUME NEW j \in Invoices, CancelAndReplaceInvoice(i, j)
      PROVE  \A l \in Invoices : OnlyFills(l)
    <2>1. /\ invoice[i] # None /\ invoice[j] = None
          /\ invoice[i].state \notin {"Paid", "Cancelled"}
          /\ invoice' = [invoice EXCEPT ![i] = InState(i, "Cancelled"), ![j] = NewInvoice]
        BY <1>4 DEF CancelAndReplaceInvoice, Replaceable
    <2>2. /\ \A l \in Invoices : l # i /\ l # j => invoice'[l] = invoice[l]
          /\ invoice'[i] = InState(i, "Cancelled")
        BY <1>1, <2>1
    <2>3. InState(i, "Cancelled") # None /\ InState(i, "Cancelled").paid = invoice[i].paid
        <3>1. InState(i, "Cancelled") \in InvoiceRow
            BY <1>1, <2>1 DEF InState, InvoiceRow, InvoiceStates
        <3> QED
            BY <3>1, NoneIsNoRow DEF InState
    <2>4. \A l \in Invoices : invoice[l] # None => invoice[l].paid \in Nat
        BY <1>1 DEF InvoiceRow
    <2> QED
        BY <1>1, <2>1, <2>2, <2>3, <2>4 DEF OnlyFills
<1>5. CASE CancelInvoice(i)
    BY <1>2, <1>5 DEF CancelInvoice, Replaceable, InvoiceStates
<1>6. CASE MarkOneOverdue(i)
    BY <1>2, <1>6, StayedFull DEF MarkOneOverdue, InvoiceStates, OVERDUE_ELIGIBLE_STATES
<1> QED
    BY <1>3, <1>4, <1>5, <1>6

(* The invoice's own state machine holds through every way to settle it:   *)
(* money on an invoice stays there, and Paid and Cancelled are final.      *)
THEOREM MoneyStaysOnInvoices == Spec => InvoicesOnlyFill
<1>1. ASSUME IInv, [Next]_vars
      PROVE  \A i \in Invoices : OnlyFills(i)
    <2>1. CASE invoice' = invoice
        BY <1>1, <2>1, StayedFull
    <2>2. CASE \E s \in Staff, r \in Receipts, override \in BOOLEAN :
                  ConfirmReceipt(s, r, override)
        BY <1>1, <2>2, ConfirmFills
    <2>3. CASE \E i \in Invoices :
                  \/ \E k \in Keys : PayInvoiceWithWallet(i, k)
                  \/ \E j \in Invoices : CancelAndReplaceInvoice(i, j)
                  \/ CancelInvoice(i)
                  \/ MarkOneOverdue(i)
        BY <1>1, <2>3, InvoiceStepsFill
    <2> QED
        BY <1>1, <2>1, <2>2, <2>3
        DEF Next, vars, environment, SubmitReceipt, Review, Confirmation,
            ParkForDualApproval, SynchronizeRejected, RejectReceipt, ResolveRequest,
            StartOverdueScan, SetThreshold, ChangePermission, ArchiveProfile
<1> QED
    BY <1>1, Invariance, PTL DEF Spec, InvoicesOnlyFill

===============================================================================
