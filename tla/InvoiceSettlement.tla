------------------------- MODULE InvoiceSettlement -------------------------
(***************************************************************************)
(* How the invoices of one profile are settled: bank receipts sent for an  *)
(* invoice (invoice-bank-receipt-upload and -confirmation.service.ts),     *)
(* bank receipts sent for the wallet, which staff may direct to an invoice *)
(* (wallet/bank-receipt-topup and -confirmation.service.ts), payment from  *)
(* the wallet (pay-invoice-with-wallet.service.ts), cancellation with and  *)
(* without a replacement and the overdue scanner, beside a changing        *)
(* dual-approval policy, changing permissions and the archival of the      *)
(* profile.                                                                *)
(*                                                                         *)
(* Every operation is one transaction under the profile, wallet, invoice   *)
(* and receipt locks, hence one action.  What interleaves are the          *)
(* operations: a member reads a review (its facts go into a hash), others  *)
(* act, and the member confirms what the screen still shows.               *)
(***************************************************************************)
EXTENDS Integers, FiniteSetsExt

CONSTANTS
    Staff,        \* members who may confirm and reject receipts
    Overriders,   \* those with admin:financial:emergency-override
    Invoices,     \* invoice ids
    Issued,       \* the invoices that exist at the start
    Total,        \* [Invoices -> amount]
    Receipts,     \* receipts the customer may send
    Terms,        \* [Receipts -> Term]
    Keys,         \* idempotency keys of wallet payments
    Thresholds,   \* values of dual_approval_threshold_irr; 0 switches it off
    MaxChanges,   \* bound on policy and permission changes and cancellations
    None

Term == [kind : {"invoice", "wallet"}, invoice : Invoices \cup {None},
         amount : Nat \ {0}]

ASSUME SettlementAssumption ==
    /\ Issued \subseteq Invoices
    /\ Overriders \subseteq Staff
    /\ Thresholds \subseteq Nat
    /\ MaxChanges \in Nat
    /\ Total \in [Invoices -> Nat \ {0}]
    /\ Terms \in [Receipts -> Term]
    /\ \A r \in Receipts : Terms[r].kind = "invoice" <=> Terms[r].invoice # None
    /\ None \notin Invoices /\ None \notin Staff /\ None \notin Receipts

VARIABLES
    invoice,      \* [Invoices -> None or an invoices row]
    receipt,      \* [Receipts -> None or a bank_receipts / wallet_transactions row]
    payment,      \* [Keys -> None or the ledger debit posted under the key]
    posted,       \* posted balance of the wallet
    screen,       \* [Staff -> None or the review the member was shown]
    scan,         \* candidates the overdue scan has still to visit
    threshold,
    finance,      \* members who hold admin:financial:edit now
    archived,     \* the profile is archived
    changes

vars == <<invoice, receipt, payment, posted, screen, scan,
          threshold, finance, archived, changes>>

environment == <<threshold, finance, archived, changes>>

-------------------------------------------------------------------------------
(* Records                                                                 *)

InvoiceStates == {"Unpaid", "PaymentUnderReview", "PartiallyFunded", "Paid",
                  "Overdue", "Cancelled"}

InvoiceRow == [state : InvoiceStates, paid : Nat]

OpenStates == {"Submitted", "UnderReview", "Pending"}

SettledStates == {"Confirmed", "Released"}

RequestStates == {"pending", "approved", "rejected"}

(* What a review shows and hashes: the target invoice, the balance, the    *)
(* policy, and for an invoice receipt its own state and request as well.   *)
Facts == [target : Invoices \cup {None},
          invoice : InvoiceRow \cup {None}, balance : Int, threshold : Nat,
          required : BOOLEAN, status : OpenStates, request : RequestStates \cup {None}]

RequestRow == [status : RequestStates,
               initiator : Staff, reviewer : Staff \cup {None},
               override : BOOLEAN, facts : Facts \cup {None}]

ReceiptRow == [state : OpenStates \cup SettledStates \cup {"Rejected"},
               request : RequestRow \cup {None},
               target : Invoices \cup {None}, allocated : Nat, credited : Nat]

Screen == [receipt : Receipts, override : BOOLEAN, facts : Facts]

PaymentRow == [invoice : Invoices, amount : Nat]

ASSUME NoneIsNoRow == /\ None \notin RequestRow /\ None \notin InvoiceRow
                      /\ None \notin ReceiptRow /\ None \notin PaymentRow

Exists(r) == receipt[r] # None

Open(r) == receipt[r] # None /\ receipt[r].state \in OpenStates

Settled(r) == receipt[r] # None /\ receipt[r].state \in SettledStates

Request(r) == receipt[r].request

HasRequest(r, status) == Request(r) # None /\ Request(r).status = status

-------------------------------------------------------------------------------
(* The invoice state machine                                               *)

ALLOWED_TRANSITIONS ==
    [Unpaid             |-> {"PaymentUnderReview", "Paid", "Overdue", "Cancelled"},
     PaymentUnderReview |-> {"Unpaid", "PartiallyFunded", "Paid"},
     PartiallyFunded    |-> {"PaymentUnderReview", "Paid", "Overdue"},
     Paid               |-> {},
     Overdue            |-> {"PaymentUnderReview", "Paid", "Cancelled"},
     Cancelled          |-> {}]

(* validateTransition: the table, and the amounts the target asks for.     *)
validateTransition(i, from, to, paid) ==
    /\ to \in ALLOWED_TRANSITIONS[from]
    /\ to = "Paid" => paid >= Total[i]
    /\ to = "PartiallyFunded" => 0 < paid /\ paid < Total[i]

SETTLEABLE_STATES == {"Unpaid", "PaymentUnderReview", "PartiallyFunded", "Overdue"}

(* isBankReceiptInvoiceLinkAllowedState: a Paid invoice takes a receipt    *)
(* too, whole as overpayment.                                              *)
LinkAllowedStates == SETTLEABLE_STATES \cup {"Paid"}

Remaining(i, row) ==
    IF row.state \in SETTLEABLE_STATES THEN Total[i] - row.paid ELSE 0

Least(m, n) == IF m <= n THEN m ELSE n

(* allocateReceiptAgainstInvoice: what of the receipt the invoice takes;   *)
(* the rest goes to the wallet.                                            *)
Allocation(r, facts) ==
    IF facts.target = None THEN 0
    ELSE Least(Terms[r].amount, Remaining(facts.target, facts.invoice))

InvoiceRowAfter(i, row, allocation) ==
    [state |-> IF row.paid + allocation >= Total[i] THEN "Paid" ELSE "PartiallyFunded",
     paid  |-> row.paid + allocation]

-------------------------------------------------------------------------------
(* Sending a receipt                                                       *)

NewReceipt(state) ==
    [state |-> state, request |-> None, target |-> None,
     allocated |-> 0, credited |-> 0]

(* The columns a decision short of settlement changes.                     *)
Moved(row, state, request) == [row EXCEPT !.state = state, !.request = request]

(* A second submission of the same receipt returns the first; its document *)
(* is claimed for good and can not be sent again for the other purpose.    *)
SubmitReceipt(r) ==
    /\ ~archived
    /\ ~Exists(r)
    /\ \/ /\ Terms[r].kind = "invoice"
          /\ invoice[Terms[r].invoice] # None
          /\ invoice[Terms[r].invoice].state \in SETTLEABLE_STATES
          /\ receipt' = [receipt EXCEPT ![r] = NewReceipt("Submitted")]
       \/ /\ Terms[r].kind = "wallet"
          /\ receipt' = [receipt EXCEPT ![r] = NewReceipt("Pending")]
    /\ UNCHANGED <<invoice, payment, posted, screen, scan, environment>>

-------------------------------------------------------------------------------
(* Review                                                                  *)

RequiresDual(r) == threshold > 0 /\ Terms[r].amount >= threshold

CurrentFacts(r, target) ==
    LET own == Terms[r].kind = "invoice"
    IN  [target    |-> target,
         invoice   |-> IF target = None THEN None ELSE invoice[target],
         balance   |-> posted,
         threshold |-> threshold,
         required  |-> RequiresDual(r) \/ (IF own THEN HasRequest(r, "pending")
                                                  ELSE Request(r) # None),
         status    |-> IF own THEN receipt[r].state ELSE "Pending",
         request   |-> IF own /\ Request(r) # None THEN Request(r).status
                                                   ELSE None]

(* The invoices a receipt can be confirmed against.                        *)
Targets(r) ==
    {i \in Invoices \cup {None} :
        /\ Terms[r].kind = "invoice" => i = Terms[r].invoice
        /\ i # None => invoice[i] # None /\ invoice[i].state \in LinkAllowedStates}

(* review: the facts on the screen of a member.  Only the review of an     *)
(* invoice receipt says whether an override is asked for.                  *)
Review(s, r, target, override) ==
    /\ ~archived
    /\ Open(r)
    /\ target \in Targets(r)
    /\ override => Terms[r].kind = "invoice" /\ HasRequest(r, "pending")
    /\ screen' = [screen EXCEPT ![s] =
            [receipt |-> r, override |-> override,
             facts |-> CurrentFacts(r, target)]]
    /\ UNCHANGED <<invoice, receipt, payment, posted, scan, environment>>

-------------------------------------------------------------------------------
(* Confirmation                                                            *)

(* requireCurrentFinancePermission of who decided before.                  *)
Authority(q) ==
    /\ q.initiator \in finance
    /\ q.status = "approved" => q.reviewer \in finance \ {q.initiator}

Resolved(q, s, decision) == [q EXCEPT !.status = decision, !.reviewer = s]

Approved(q, s, override) ==
    [Resolved(q, s, "approved") EXCEPT !.override = override]

(* Mutant: an approval once given needs no current permission.             *)
GateForgetsPermission(s, r, override, q) ==
    \/ /\ ~override /\ Request(r) = None /\ ~RequiresDual(r) /\ q = None
    \/ /\ override /\ HasRequest(r, "pending") /\ s \in Overriders
       /\ q = Approved(Request(r), s, TRUE)
    \/ /\ ~override /\ HasRequest(r, "pending") /\ Authority(Request(r))
       /\ s \in finance \ {Request(r).initiator}
       /\ q = Approved(Request(r), s, FALSE)
    \/ /\ ~override /\ HasRequest(r, "approved")
       /\ q = Request(r)

(* The ways a receipt gets past dual approval, with the request as it is   *)
(* then: none asked for, an emergency override, the second member, or an   *)
(* approval already given in the register.                                 *)
Gate(s, r, override, q) ==
    \/ /\ ~override /\ Request(r) = None /\ ~RequiresDual(r) /\ q = None
    \/ /\ override /\ HasRequest(r, "pending") /\ s \in Overriders
       /\ q = Approved(Request(r), s, TRUE)
    \/ /\ ~override /\ HasRequest(r, "pending") /\ Authority(Request(r))
       /\ s \in finance \ {Request(r).initiator}
       /\ q = Approved(Request(r), s, FALSE)
    \/ /\ ~override /\ HasRequest(r, "approved") /\ Authority(Request(r))
       /\ q = Request(r)

(* Mutant: the saved fingerprint of a wallet receipt is not compared.      *)
BindingUnchecked(s, r, facts) ==
    Terms[r].kind = "wallet" /\ Request(r) # None => s \in finance

(* gateWalletReceiptApproval: the request of a wallet receipt binds the    *)
(* facts its initiator confirmed; assertApprovalBinding compares only the  *)
(* evidence of an invoice receipt, which never changes.                    *)
Binding(s, r, facts) ==
    Terms[r].kind = "wallet" /\ Request(r) # None =>
        s \in finance /\ Request(r).facts = facts

(* Mutant: confirm does not look at the profile.                           *)
CommittingArchived(s, r) ==
    /\ screen[s] # None /\ screen[s].receipt = r
    /\ Open(r)
    /\ screen[s].facts.target \in Targets(r)
    /\ screen[s].facts = CurrentFacts(r, screen[s].facts.target)

(* What every confirmation checks first: the profile is writable, the      *)
(* receipt is open, its invoice accepts it, and the facts hash to what the *)
(* member was shown.                                                       *)
Committing(s, r) ==
    /\ ~archived
    /\ screen[s] # None /\ screen[s].receipt = r
    /\ Open(r)
    /\ screen[s].facts.target \in Targets(r)
    /\ screen[s].facts = CurrentFacts(r, screen[s].facts.target)

(* The first member of a receipt that needs two: it is parked.             *)
ParkForDualApproval(s, r) ==
    /\ Committing(s, r)
    /\ Request(r) = None /\ RequiresDual(r) /\ ~screen[s].override
    /\ Terms[r].kind = "wallet" => s \in finance
    /\ receipt' = [receipt EXCEPT ![r] = Moved(receipt[r],
            IF receipt[r].state = "Submitted" THEN "UnderReview" ELSE receipt[r].state,
            [status |-> "pending", initiator |-> s, reviewer |-> None,
             override |-> FALSE,
             facts |-> IF Terms[r].kind = "wallet" THEN screen[s].facts ELSE None])]
    /\ screen' = [screen EXCEPT ![s] = None]
    /\ UNCHANGED <<invoice, payment, posted, scan, environment>>

(* A register rejection is carried over to the invoice receipt.            *)
SynchronizeRejected(s, r) ==
    /\ Committing(s, r)
    /\ Terms[r].kind = "invoice" /\ HasRequest(r, "rejected")
    /\ receipt' = [receipt EXCEPT ![r] = Moved(receipt[r], "Rejected", Request(r))]
    /\ screen' = [screen EXCEPT ![s] = None]
    /\ UNCHANGED <<invoice, payment, posted, scan, environment>>

(* The invoice takes its allocation through PaymentUnderReview, the wallet *)
(* the rest, and the receipt is closed, in one transaction.                *)
ApplySettlement(r, target, allocation, q) ==
    /\ receipt' = [receipt EXCEPT ![r] =
            [state     |-> IF Terms[r].kind = "invoice" THEN "Confirmed" ELSE "Released",
             request   |-> q, target |-> target,
             allocated |-> allocation, credited |-> Terms[r].amount - allocation]]
    /\ posted' = posted + (Terms[r].amount - allocation)
    /\ IF allocation = 0 THEN invoice' = invoice
       ELSE LET row == invoice[target]
                after == InvoiceRowAfter(target, row, allocation)
            IN  /\ row.state # "PaymentUnderReview" =>
                      validateTransition(target, row.state, "PaymentUnderReview", after.paid)
                /\ validateTransition(target, "PaymentUnderReview", after.state, after.paid)
                /\ invoice' = [invoice EXCEPT ![target] = after]

(* A wallet receipt names its override when it is confirmed, an invoice    *)
(* receipt already in its review.                                          *)
ConfirmReceipt(s, r, override) ==
    /\ Committing(s, r)
    /\ Terms[r].kind = "invoice" => override = screen[s].override
    /\ Binding(s, r, screen[s].facts)
    /\ \E q \in {None, Request(r)} \cup (IF Request(r) = None THEN {}
                    ELSE {Approved(Request(r), s, override)}) :
          /\ Gate(s, r, override, q)
          /\ ApplySettlement(r, screen[s].facts.target,
                             Allocation(r, CurrentFacts(r, screen[s].facts.target)), q)
    /\ screen' = [screen EXCEPT ![s] = None]
    /\ UNCHANGED <<payment, scan, environment>>

(* Rejection needs no review and no writable profile.  A pending request   *)
(* is rejected with the receipt, by another member; an approved one keeps  *)
(* a wallet receipt from being rejected.                                   *)
RejectReceipt(s, r) ==
    /\ Open(r)
    /\ HasRequest(r, "pending") => s # Request(r).initiator
    /\ Terms[r].kind = "wallet" => /\ ~HasRequest(r, "approved")
                                   /\ HasRequest(r, "pending") => s \in finance
    /\ receipt' = [receipt EXCEPT ![r] = Moved(receipt[r], "Rejected",
            IF HasRequest(r, "pending") THEN Resolved(Request(r), s, "rejected")
                                        ELSE Request(r))]
    /\ UNCHANGED <<invoice, payment, posted, screen, scan, environment>>

(* The approvals register resolves a request and leaves the receipt alone. *)
ResolveRequest(s, r, decision) ==
    /\ Exists(r)
    /\ HasRequest(r, "pending")
    /\ s \in finance \ {Request(r).initiator}
    /\ receipt' = [receipt EXCEPT ![r] =
            Moved(receipt[r], receipt[r].state, Resolved(Request(r), s, decision))]
    /\ UNCHANGED <<invoice, payment, posted, screen, scan, environment>>

-------------------------------------------------------------------------------
(* Payment from the wallet                                                 *)

PayableStates == {"Unpaid", "PartiallyFunded", "Overdue"}

WalletRemaining(i, row) ==
    IF row.state \in PayableStates THEN Total[i] - row.paid ELSE 0

(* Mutant: the whole invoice is debited, not what remains of it.           *)
debitWholeInvoice(i) == Total[i]

(* The debit is exactly what remains of the invoice.                       *)
debitExactRemaining(i) == WalletRemaining(i, invoice[i])

(* pay: the whole remaining amount, one debit and one transition under one *)
(* key.  The review hash lets it pass only while the facts are those of    *)
(* the context the customer was shown, which is therefore not kept; a key  *)
(* that was used returns its first reply.                                  *)
PayInvoiceWithWallet(i, k) ==
    LET amount == debitExactRemaining(i)
        paid == invoice[i].paid + WalletRemaining(i, invoice[i])
    IN  /\ ~archived
        /\ payment[k] = None
        /\ invoice[i] # None
        /\ WalletRemaining(i, invoice[i]) > 0
        /\ posted >= amount
        /\ validateTransition(i, invoice[i].state, "Paid", paid)
        /\ posted' = posted - amount
        /\ payment' = [payment EXCEPT ![k] = [invoice |-> i, amount |-> amount]]
        /\ invoice' = [invoice EXCEPT ![i] = [state |-> "Paid", paid |-> paid]]
        /\ UNCHANGED <<receipt, screen, scan, environment>>

-------------------------------------------------------------------------------
(* Cancellation and the overdue scanner                                    *)

NewInvoice == [state |-> "Unpaid", paid |-> 0]

(* The row after a transition that moves no money.                         *)
InState(i, state) == [state |-> state, paid |-> invoice[i].paid]

(* Mutant: only the state is looked at.                                    *)
ReplaceableByState(i) ==
    /\ invoice[i] # None
    /\ invoice[i].state \in {"Unpaid", "Overdue"}

(* assertReplaceable: nothing was paid, which an Overdue invoice does not  *)
(* say by itself.                                                          *)
Replaceable(i) ==
    /\ invoice[i] # None
    /\ invoice[i].paid = 0
    /\ invoice[i].state \in {"Unpaid", "Overdue"}

CancelAndReplaceInvoice(i, j) ==
    /\ changes < MaxChanges
    /\ Replaceable(i)
    /\ invoice[j] = None
    /\ invoice' = [invoice EXCEPT ![i] = InState(i, "Cancelled"), ![j] = NewInvoice]
    /\ changes' = changes + 1
    /\ UNCHANGED <<receipt, payment, posted, screen, scan,
                   threshold, finance, archived>>

(* The invoices of a cancelled contract or a declined consultation.        *)
CancelInvoice(i) ==
    /\ changes < MaxChanges
    /\ Replaceable(i)
    /\ invoice' = [invoice EXCEPT ![i] = InState(i, "Cancelled")]
    /\ changes' = changes + 1
    /\ UNCHANGED <<receipt, payment, posted, screen, scan,
                   threshold, finance, archived>>

OVERDUE_ELIGIBLE_STATES == {"Unpaid", "PartiallyFunded"}

(* FIND_OVERDUE_CANDIDATES_SQL: of the eligible invoices those whose due   *)
(* date has passed, which dates these are is left open.                    *)
StartOverdueScan ==
    /\ scan = {}
    /\ \E candidates \in SUBSET {i \in Invoices :
             invoice[i] # None /\ invoice[i].state \in OVERDUE_ELIGIBLE_STATES} :
          candidates # {} /\ scan' = candidates
    /\ UNCHANGED <<invoice, receipt, payment, posted, screen, environment>>

(* One candidate, locked and looked at again; skipped when another         *)
(* transaction holds it, its due date was moved or its update failed.      *)
MarkOneOverdue(i) ==
    /\ i \in scan
    /\ scan' = scan \ {i}
    /\ \/ invoice' = invoice
       \/ /\ invoice[i] # None
          /\ invoice[i].state \in OVERDUE_ELIGIBLE_STATES
          /\ invoice' = [invoice EXCEPT ![i] = InState(i, "Overdue")]
    /\ UNCHANGED <<receipt, payment, posted, screen, environment>>

-------------------------------------------------------------------------------
(* Policy, permissions, archival                                           *)

SetThreshold(n) ==
    /\ changes < MaxChanges
    /\ n # threshold
    /\ threshold' = n
    /\ changes' = changes + 1
    /\ UNCHANGED <<invoice, receipt, payment, posted, screen, scan,
                   finance, archived>>

ChangePermission(s) ==
    /\ changes < MaxChanges
    /\ finance' = IF s \in finance THEN finance \ {s} ELSE finance \cup {s}
    /\ changes' = changes + 1
    /\ UNCHANGED <<invoice, receipt, payment, posted, screen, scan,
                   threshold, archived>>

(* deleteProfile: no open invoice, no money, no Pending ledger row.  A     *)
(* Submitted bank_receipts row does not stand in its way.                  *)
ArchiveProfile ==
    /\ ~archived
    /\ posted = 0
    /\ \A i \in Invoices : invoice[i] # None => invoice[i].state \in {"Paid", "Cancelled"}
    /\ \A r \in Receipts : ~(Exists(r) /\ receipt[r].state = "Pending")
    /\ archived' = TRUE
    /\ UNCHANGED <<invoice, receipt, payment, posted, screen, scan,
                   threshold, finance, changes>>

-------------------------------------------------------------------------------
Init ==
    /\ invoice = [i \in Invoices |-> IF i \in Issued THEN NewInvoice ELSE None]
    /\ receipt = [r \in Receipts |-> None]
    /\ payment = [k \in Keys |-> None]
    /\ posted = 0
    /\ screen = [s \in Staff |-> None]
    /\ scan = {}
    /\ threshold \in Thresholds
    /\ finance = Staff
    /\ archived = FALSE
    /\ changes = 0

Confirmation(s, r) ==
    \/ ParkForDualApproval(s, r)
    \/ SynchronizeRejected(s, r)
    \/ \E override \in BOOLEAN : ConfirmReceipt(s, r, override)

Next ==
    \/ \E r \in Receipts : SubmitReceipt(r)
    \/ \E s \in Staff, r \in Receipts :
          \/ \E target \in Invoices \cup {None}, override \in BOOLEAN :
                Review(s, r, target, override)
          \/ Confirmation(s, r)
          \/ RejectReceipt(s, r)
          \/ \E decision \in {"approved", "rejected"} : ResolveRequest(s, r, decision)
    \/ \E i \in Invoices, k \in Keys : PayInvoiceWithWallet(i, k)
    \/ \E i, j \in Invoices : CancelAndReplaceInvoice(i, j)
    \/ \E i \in Invoices :
          \/ CancelInvoice(i)
          \/ MarkOneOverdue(i)
    \/ StartOverdueScan
    \/ \E n \in Thresholds : SetThreshold(n)
    \/ \E s \in Staff : ChangePermission(s)
    \/ ArchiveProfile

Spec == Init /\ [][Next]_vars

-------------------------------------------------------------------------------
(* Properties                                                              *)

TypeOK ==
    /\ invoice \in [Invoices -> InvoiceRow \cup {None}]
    /\ receipt \in [Receipts -> ReceiptRow \cup {None}]
    /\ payment \in [Keys -> PaymentRow \cup {None}]
    /\ posted \in Int
    /\ screen \in [Staff -> Screen \cup {None}]
    /\ scan \subseteq Invoices
    /\ threshold \in Thresholds
    /\ finance \subseteq Staff
    /\ archived \in BOOLEAN
    /\ changes \in 0..MaxChanges

SettledReceipts == {r \in Receipts : Settled(r)}

Debits == {k \in Keys : payment[k] # None}

(* What receipts allocated to invoices and credited to the wallet, and     *)
(* what payments debited from it.                                          *)
Allocated(S) == SumFunctionOnSet([r \in S |-> receipt[r].allocated], S)

Credited(S) == SumFunctionOnSet([r \in S |-> receipt[r].credited], S)

Debited(S) == SumFunctionOnSet([k \in S |-> payment[k].amount], S)

(* Money is neither made nor lost between receipts, invoices and wallet:   *)
(* an invoice's paid_amount is what receipts and payments allocated to it, *)
(* the balance is what receipts credited less what was paid from it, and a *)
(* settled receipt was used up to the last rial, once.                     *)
MoneyIsAccounted ==
    /\ \A i \in Invoices : invoice[i] # None =>
          invoice[i].paid = Allocated({r \in SettledReceipts : receipt[r].target = i})
                            + Debited({k \in Debits : payment[k].invoice = i})
    /\ posted = Credited(SettledReceipts) - Debited(Debits)
    /\ posted >= 0
    /\ \A r \in Receipts : Exists(r) =>
          receipt[r].allocated + receipt[r].credited
             = IF Settled(r) THEN Terms[r].amount ELSE 0

(* One invoice's state says what was paid on it.                           *)
StateAgrees(i) ==
    LET row == invoice[i] IN
    /\ row.paid <= Total[i]
    /\ row.state # "PaymentUnderReview"
    /\ row.state = "Paid" <=> row.paid = Total[i]
    /\ row.state \in {"Unpaid", "Cancelled"} => row.paid = 0
    /\ row.state = "PartiallyFunded" => row.paid > 0

(* The state of every invoice agrees with its paid_amount, whichever of    *)
(* receipts, payment, cancellation and overdue scan touched it last: no    *)
(* cancelled invoice holds money, and none is settled and still payable.   *)
InvoiceAgrees == \A i \in Invoices : invoice[i] # None => StateAgrees(i)

(* Nothing moves in an archived profile: neither a receipt left Submitted  *)
(* nor a screen opened before the archival brings money back.              *)
ArchivedIsFrozen ==
    archived =>
        /\ posted = 0
        /\ \A i \in Invoices : invoice[i] # None => invoice[i].state \in {"Paid", "Cancelled"}
        /\ \A r \in Receipts : ~(Exists(r) /\ receipt[r].state = "Pending")

(* The step that settles a receipt.                                        *)
Settles(r) == ~Settled(r) /\ Settled(r)'

(* confirm: a receipt at or over the threshold is settled by two different *)
(* members who hold the permission at that moment, or by an override of    *)
(* one who may; a rejected request never pays, whatever happened to the    *)
(* policy, the permissions and the register in between.                    *)
TwoMembersSettle ==
    [][\A r \in Receipts : Settles(r) =>
          LET q == receipt'[r].request
          IN  IF q = None THEN ~RequiresDual(r)
              ELSE /\ q.status = "approved"
                   /\ IF q.override THEN q.reviewer \in Overriders
                      ELSE /\ q.initiator # q.reviewer
                           /\ {q.initiator, q.reviewer} \subseteq finance]_vars

(* What the screens led to: the amounts settled are the ones shown to the  *)
(* member who confirmed, and on a wallet receipt also to the one who asked *)
(* for the second approval.                                                *)
SettledAsShown(s, r) ==
    LET shown == screen[s].facts
        asked == Request(r)
    IN  /\ receipt'[r].target = shown.target
        /\ receipt'[r].allocated = Allocation(r, shown)
        /\ posted' = shown.balance + receipt'[r].credited
        /\ Terms[r].kind = "wallet" /\ asked # None => asked.facts = shown

(* Review hash and fingerprint: a settlement is the one that was shown,    *)
(* however stale the screens of other members are by then.                 *)
ShownIsSettled ==
    [][\A r \in Receipts : Settles(r) =>
          \E s \in Staff : /\ screen[s] # None /\ screen[s].receipt = r
                           /\ SettledAsShown(s, r)]_vars

(* No step takes money off an invoice or drops its row, and one that is    *)
(* Paid or Cancelled is final: neither a late receipt, a second payment    *)
(* nor a scan that read it earlier touches it (invoice.service.ts).        *)
OnlyFills(i) ==
    invoice[i] # None =>
        /\ invoice'[i] # None
        /\ invoice'[i].paid >= invoice[i].paid
        /\ invoice[i].state \in {"Paid", "Cancelled"} => invoice'[i] = invoice[i]

InvoicesOnlyFill == [][\A i \in Invoices : OnlyFills(i)]_vars

===============================================================================
