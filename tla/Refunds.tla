-------------------------------- MODULE Refunds --------------------------------
(***************************************************************************)
(* Invoice refunds of one customer profile:                                *)
(*                                                                         *)
(*   RefundService.request, decide    staff: request, approve, reject,     *)
(*                                    cancel, process, record-transfer,    *)
(*                                    reconcile                            *)
(*   DualApprovalService              a second member reviews the request  *)
(*   runWalletRefund                  posts the wallet credit; called by   *)
(*                                    process and by the retry worker      *)
(*   contract cancellation, order     create mandatory refunds that        *)
(*   rejection                        nobody may dismiss                   *)
(*                                                                         *)
(* Every operation is one database transaction that holds the invoice row  *)
(* FOR UPDATE, so it is one step here.  Two transactions of different      *)
(* invoices meet in the bank reference of record-transfer, which is two    *)
(* steps: the work, then COMMIT or ROLLBACK.  The credit of WalletLedger   *)
(* is part of the transaction of runWalletRefund.                          *)
(*                                                                         *)
(* A refund is identified with the idempotency key it was requested under. *)
(***************************************************************************)
EXTENDS Integers, FiniteSetsExt

CONSTANTS
    Refunds,        \* refunds.id
    Invoices,       \* invoices.id
    Staff,          \* users who may hold admin:financial:edit
    BankRefs,       \* bank references of external transfers
    Terms,          \* invoice, amount, destination and origin of each refund
    Paid,           \* invoices.paid_amount
    Funded,         \* the invoices whose whole total is paid
    Thresholds,     \* dual-approval thresholds an admin may set (0: disabled)
    MaxAttempts,    \* refund_retry_jobs.max_attempts (5 in the schema)
    MaxChanges,     \* bound: policy, permission and spending steps
    None

(* origin: staff asked for it, or it is the recorded debt of a cancelled   *)
(* contract or of an electricity order that ended without a contract.      *)
Term == [invoice: Invoices, amount: Nat \ {0},
         destination: {"wallet", "external_bank"},
         origin: {"staff", "contract", "order"}]

ASSUME TermsAssumption ==
    /\ Terms \in [Refunds -> Term]
    /\ \A r \in Refunds :
          Terms[r].origin = "order" => Terms[r].destination = "wallet"

ASSUME PaidAssumption ==
    Paid \in [Invoices -> Nat \ {0}] /\ Funded \subseteq Invoices

ASSUME BoundsAssumption ==
    /\ MaxAttempts \in Nat \ {0}
    /\ MaxChanges \in Nat
    /\ Thresholds \subseteq Nat

VARIABLES
    refund,     \* the rows of refunds, with their audit and approval facts
    job,        \* the rows of refund_retry_jobs
    credits,    \* number of wallet credits posted per refund
    invoice,    \* state and refunded_amount of the invoices
    transfer,   \* the open record-transfer transactions
    retry,      \* manual retries authorized and not yet run: <<refund, staff>>
    finance,    \* staff that hold admin:financial:edit now
    threshold,  \* finance.dual_approval_threshold
    wallet,     \* whether the wallet holds money
    archived,   \* the profile is archived
    changes     \* bound counter

vars == <<refund, job, credits, invoice, transfer, retry, finance, threshold,
          wallet, archived, changes>>

environment == <<finance, threshold, wallet, archived, changes>>

-------------------------------------------------------------------------------
(* Rows                                                                    *)

States == {"Requested", "Approved", "Processing", "Completed", "Failed",
           "Rejected", "Cancelled"}

REFUND_TRANSITIONS ==
    [Requested  |-> {"Approved", "Rejected", "Cancelled"},
     Approved   |-> {"Processing", "Rejected", "Cancelled"},
     Processing |-> {"Completed", "Failed"},
     Failed     |-> {"Processing"},
     Completed  |-> {}, Rejected |-> {}, Cancelled |-> {}]

(* staff: who requested it; authority: who committed the obligation;       *)
(* approval: status of the bound approval request, whose initiator is      *)
(* staff; recordedBy, reconciledBy: the audit rows of the bank transfer.   *)
RefundRow ==
    [state: States, staff: Staff \cup {None}, authority: Staff \cup {None},
     approval: {"none", "pending", "approved", "rejected"},
     reviewer: Staff \cup {None}, bank_reference: BankRefs \cup {None},
     recordedBy: Staff \cup {None}, reconciledBy: Staff \cup {None}]

NewRefund(state, staff, authority, approval) ==
    [state |-> state, staff |-> staff, authority |-> authority,
     approval |-> approval, reviewer |-> None, bank_reference |-> None,
     recordedBy |-> None, reconciledBy |-> None]

(* due: next_attempt_at has passed.                                        *)
JobRow == [executor: Staff, attempts: 0 .. MaxAttempts, due: BOOLEAN,
           status: {"active", "exhausted", "completed"}]

NewJob(s) == [executor |-> s, attempts |-> 0, due |-> TRUE, status |-> "active"]

OpenTransfer == [staff: Staff, ref: BankRefs]

ASSUME NoneNotMember ==
    None \notin Staff \cup BankRefs \cup RefundRow \cup JobRow \cup OpenTransfer

InvoiceStates == {"Paid", "PartiallyFunded", "PartiallyRefunded", "Refunded"}

Init ==
    /\ refund = [r \in Refunds |-> None]
    /\ job = [r \in Refunds |-> None]
    /\ credits = [r \in Refunds |-> 0]
    /\ invoice = [i \in Invoices |->
           [state |-> IF i \in Funded THEN "Paid" ELSE "PartiallyFunded",
            refunded |-> 0]]
    /\ transfer = [r \in Refunds |-> None]
    /\ retry = {}
    /\ finance = Staff
    /\ threshold \in Thresholds
    /\ wallet = FALSE
    /\ archived = FALSE
    /\ changes = 0

-------------------------------------------------------------------------------
(* Guards                                                                  *)

Exists(r) == refund[r] # None

IsObligation(r) == Terms[r].origin # "staff"

(* The invoice row is held by no open transaction.                         *)
InvoiceFree(i) == \A r \in Refunds : Terms[r].invoice = i => transfer[r] = None

(* The user holds the permission, and its row can be locked: an actor      *)
(* waits for it, a refund attempt gives up (NOWAIT).                       *)
FinancePermission(s) ==
    /\ s \in finance
    /\ \A r \in Refunds : transfer[r] # None => transfer[r].staff # s

Amount == [r \in Refunds |-> Terms[r].amount]

TotalOf(set) == SumFunctionOnSet(Amount, set)

(* Sum of the amounts that refunds of i in none of the states may still    *)
(* claim.                                                                  *)
AmountOutside(i, states) ==
    TotalOf({r \in Refunds : /\ Exists(r)
                             /\ Terms[r].invoice = i
                             /\ refund[r].state \notin states})

(* Mutant: a failed refund gives up its reservation.                       *)
ReservedWithoutFailed(i) ==
    AmountOutside(i, {"Completed", "Rejected", "Cancelled", "Failed"})

Reserved(i) == AmountOutside(i, {"Completed", "Rejected", "Cancelled"})

AvailableToRefund(i) == Paid[i] - invoice[i].refunded - Reserved(i)

RefundableInvoice(i, obligation) ==
    invoice[i].state \in {"Paid", "PartiallyRefunded"}
                         \cup IF obligation THEN {"PartiallyFunded"} ELSE {}

RequiresApproval(r) == threshold # 0 /\ Terms[r].amount >= threshold

(* requireRefundApproval: a request that has an approval must be approved  *)
(* even when the policy no longer asks for one, and both members must      *)
(* still hold the permission.                                              *)
RefundApproval(r) ==
    \/ IsObligation(r)
    \/ ~RequiresApproval(r) /\ refund[r].approval = "none"
    \/ /\ refund[r].approval = "approved"
       /\ refund[r].reviewer # refund[r].staff
       /\ FinancePermission(refund[r].staff)
       /\ FinancePermission(refund[r].reviewer)

(* RefundService.transaction: staff member s works on the invoice of r.    *)
Transaction(r, s) == InvoiceFree(Terms[r].invoice) /\ FinancePermission(s)

(* Mutant: the state the refund is in is not looked at.                    *)
MoveUnchecked(r, to) == refund' = [refund EXCEPT ![r].state = to]

Move(r, to) ==
    /\ to \in REFUND_TRANSITIONS[refund[r].state]
    /\ refund' = [refund EXCEPT ![r].state = to]

(* The checks of decide before money can move.                             *)
Decidable(r) ==
    /\ ~archived
    /\ RefundableInvoice(Terms[r].invoice, IsObligation(r))

-------------------------------------------------------------------------------
(* Creating refunds                                                        *)

(* request of a new idempotency key.                                       *)
Request(r, s) ==
    /\ Transaction(r, s)
    /\ ~Exists(r) /\ ~IsObligation(r)
    /\ ~archived
    /\ RefundableInvoice(Terms[r].invoice, FALSE)
    /\ Terms[r].amount <= AvailableToRefund(Terms[r].invoice)
    /\ refund' = [refund EXCEPT ![r] =
           NewRefund("Requested", s, None,
                     IF RequiresApproval(r) THEN "pending" ELSE "none")]
    /\ UNCHANGED <<job, credits, invoice, transfer, retry, environment>>

(* request again, with the key and the member of an earlier request: it    *)
(* opens the approval that a policy change has made necessary.             *)
RequestReplay(r, s) ==
    /\ Transaction(r, s)
    /\ Exists(r)
    /\ refund[r].staff = s
    /\ refund[r].state \in {"Requested", "Approved"}
    /\ RequiresApproval(r)
    /\ refund[r].approval = "none"
    /\ ~archived
    /\ refund' = [refund EXCEPT ![r].approval = "pending"]
    /\ UNCHANGED <<job, credits, invoice, transfer, retry, environment>>

(* A contract is cancelled, or an electricity order ends: the refund is    *)
(* inserted, approved and, to the wallet, queued in the same transaction,  *)
(* which holds the profile alone.  An order owes everything that is left;  *)
(* a contract what was decided.  Whoever ends the contract becomes the     *)
(* executor; it need not be a finance member.                              *)
CreateObligation(r, s) ==
    LET i == Terms[r].invoice
        toWallet == Terms[r].destination = "wallet"
    IN  /\ \A q \in Refunds : transfer[q] = None
        /\ ~Exists(r) /\ IsObligation(r)
        /\ ~archived
        /\ Terms[r].amount <= AvailableToRefund(i)
        /\ Terms[r].origin = "order" =>
              Reserved(i) = 0 /\ Terms[r].amount = AvailableToRefund(i)
        /\ refund' = [refund EXCEPT ![r] =
               NewRefund(IF toWallet THEN "Processing" ELSE "Approved",
                         None, s, "none")]
        /\ job' = [job EXCEPT ![r] = IF toWallet THEN NewJob(s) ELSE None]
        /\ UNCHANGED <<credits, invoice, transfer, retry, environment>>

-------------------------------------------------------------------------------
(* Decisions of the staff                                                  *)

ReviewStatus(decision) == IF decision = "approve" THEN "approved" ELSE "rejected"

(* DualApprovalService.resolveRequest: no invoice lock, only the request.  *)
ReviewApproval(r, s, decision) ==
    /\ FinancePermission(s)
    /\ Exists(r)
    /\ refund[r].approval = "pending"
    /\ refund[r].staff # s
    /\ refund' = [refund EXCEPT ![r].approval = ReviewStatus(decision),
                                ![r].reviewer = s]
    /\ UNCHANGED <<job, credits, invoice, transfer, retry, environment>>

Approve(r, s) ==
    /\ Transaction(r, s)
    /\ Exists(r)
    /\ Decidable(r)
    /\ RefundApproval(r)
    /\ Move(r, "Approved")
    /\ UNCHANGED <<job, credits, invoice, transfer, retry, environment>>

(* reject or cancel; a trigger keeps obligations from being dismissed.     *)
Dismiss(r, s, to) ==
    /\ Transaction(r, s)
    /\ Exists(r) /\ ~IsObligation(r)
    /\ Move(r, to)
    /\ UNCHANGED <<job, credits, invoice, transfer, retry, environment>>

(* process: the durable request to pay.  The attempt that follows the      *)
(* COMMIT is RunDue, or RunManual where this call authorized one.          *)
Process(r, s) ==
    /\ Transaction(r, s)
    /\ Exists(r)
    /\ Terms[r].destination = "wallet"
    /\ refund[r].state \in {"Approved", "Processing", "Failed"}
    /\ Decidable(r)
    /\ RefundApproval(r)
    /\ refund' = [refund EXCEPT ![r].state =
           IF @ = "Approved" THEN "Processing" ELSE @]
    /\ job' = [job EXCEPT ![r] = IF @ = None THEN NewJob(s) ELSE @]
    /\ retry' = IF /\ IsObligation(r)
                   /\ refund[r].state = "Failed"
                   /\ job[r] # None /\ job[r].status = "exhausted"
                THEN retry \cup {<<r, s>>} ELSE retry
    /\ UNCHANGED <<credits, invoice, transfer, environment>>

-------------------------------------------------------------------------------
(* External bank transfers                                                 *)

ReferenceTaken(r, ref) ==
    \E q \in Refunds \ {r} : Exists(q) /\ refund[q].bank_reference = ref

ReferenceLocked(ref) ==
    \E q \in Refunds : transfer[q] # None /\ transfer[q].ref = ref

(* Mutant: the duplicate check runs without its lock.                      *)
RecordTransferUnlocked(r, s, ref) ==
    /\ Transaction(r, s)
    /\ Exists(r)
    /\ Terms[r].destination = "external_bank"
    /\ refund[r].state = "Approved"
    /\ Decidable(r)
    /\ RefundApproval(r)
    /\ ~ReferenceTaken(r, ref)
    /\ transfer' = [transfer EXCEPT ![r] = [staff |-> s, ref |-> ref]]
    /\ UNCHANGED <<refund, job, credits, invoice, retry, environment>>

(* record-transfer up to its COMMIT: it holds the invoice, the member and  *)
(* the advisory lock of the reference.                                     *)
RecordTransfer(r, s, ref) ==
    /\ Transaction(r, s)
    /\ Exists(r)
    /\ Terms[r].destination = "external_bank"
    /\ refund[r].state = "Approved"
    /\ Decidable(r)
    /\ RefundApproval(r)
    /\ ~ReferenceLocked(ref)
    /\ ~ReferenceTaken(r, ref)
    /\ transfer' = [transfer EXCEPT ![r] = [staff |-> s, ref |-> ref]]
    /\ UNCHANGED <<refund, job, credits, invoice, retry, environment>>

CommitTransfer(r) ==
    /\ transfer[r] # None
    /\ refund' = [refund EXCEPT ![r].state = "Processing",
                                ![r].bank_reference = transfer[r].ref,
                                ![r].recordedBy = transfer[r].staff]
    /\ transfer' = [transfer EXCEPT ![r] = None]
    /\ UNCHANGED <<job, credits, invoice, retry, environment>>

(* ROLLBACK: the step-up check after the work fails, or the connection     *)
(* is lost.                                                                *)
AbortTransfer(r) ==
    /\ transfer[r] # None
    /\ transfer' = [transfer EXCEPT ![r] = None]
    /\ UNCHANGED <<refund, job, credits, invoice, retry, environment>>

(* Mutant: the state is taken from this refund alone.                      *)
InvoiceAfterAlone(r) ==
    LET i == Terms[r].invoice
    IN  [invoice EXCEPT ![i] =
            [state |-> IF Terms[r].amount = Paid[i] THEN "Refunded"
                                                    ELSE "PartiallyRefunded",
             refunded |-> invoice[i].refunded + Terms[r].amount]]

(* apply_refund_completion_totals, then the state the totals call for.     *)
InvoiceAfter(r) ==
    LET i == Terms[r].invoice
        returned == invoice[i].refunded + Terms[r].amount
    IN  [invoice EXCEPT ![i] =
            [state |-> IF returned = Paid[i] THEN "Refunded"
                                             ELSE "PartiallyRefunded",
             refunded |-> returned]]

(* Mutant: the member who recorded the transfer may confirm it.            *)
ReconcileAlone(r, s, ref) ==
    /\ Transaction(r, s)
    /\ Exists(r)
    /\ Terms[r].destination = "external_bank"
    /\ refund[r].state = "Processing"
    /\ refund[r].bank_reference = ref
    /\ Decidable(r)
    /\ refund' = [refund EXCEPT ![r].state = "Completed", ![r].reconciledBy = s]
    /\ invoice' = InvoiceAfter(r)
    /\ UNCHANGED <<job, credits, transfer, retry, environment>>

(* reconcile: another member confirms the recorded transfer.  The approval *)
(* is not checked again.                                                   *)
Reconcile(r, s, ref) ==
    /\ Transaction(r, s)
    /\ Exists(r)
    /\ Terms[r].destination = "external_bank"
    /\ refund[r].state = "Processing"
    /\ refund[r].bank_reference = ref
    /\ Decidable(r)
    /\ refund[r].recordedBy # s
    /\ refund' = [refund EXCEPT ![r].state = "Completed", ![r].reconciledBy = s]
    /\ invoice' = InvoiceAfter(r)
    /\ UNCHANGED <<job, credits, transfer, retry, environment>>

-------------------------------------------------------------------------------
(* Wallet credits: runWalletRefund                                         *)

(* The checks inside the savepoint.                                        *)
Payable(r) ==
    /\ ~archived
    /\ RefundableInvoice(Terms[r].invoice, IsObligation(r))
    /\ IF IsObligation(r)
       THEN refund[r].authority = job[r].executor
       ELSE FinancePermission(job[r].executor) /\ RefundApproval(r)

(* The credit, the completion and the invoice totals.                      *)
PostRefund(r) ==
    /\ Payable(r)
    /\ refund' = [refund EXCEPT ![r].state = "Completed"]
    /\ credits' = [credits EXCEPT ![r] = @ + 1]
    /\ invoice' = InvoiceAfter(r)
    /\ wallet' = TRUE

(* ROLLBACK TO SAVEPOINT.  A payable refund may fail as well: a database   *)
(* error, or a permission row another transaction holds (NOWAIT).          *)
FailRefund(r) ==
    /\ refund' = [refund EXCEPT ![r].state = "Failed"]
    /\ UNCHANGED <<credits, invoice, wallet>>

JobIsDue(r) ==
    /\ job[r] # None
    /\ job[r].status = "active"
    /\ job[r].due
    /\ job[r].attempts < MaxAttempts

(* Mutant: a failed attempt is not counted.                                *)
AfterAttemptUncounted(r, posted) ==
    [job EXCEPT ![r] =
        [@ EXCEPT !.due = FALSE,
                  !.status = IF posted THEN "completed" ELSE "active"]]

(* The attempt counts whether it pays or not.                              *)
AfterAttempt(r, posted) ==
    LET attempt == job[r].attempts + 1
    IN  [job EXCEPT ![r] =
            [@ EXCEPT !.attempts = attempt,
                      !.due = FALSE,
                      !.status = IF posted THEN "completed"
                                 ELSE IF attempt >= MaxAttempts
                                 THEN "exhausted" ELSE "active"]]

(* An automatic attempt, from process or from the retry worker.            *)
RunDue(r) ==
    /\ JobIsDue(r)
    /\ InvoiceFree(Terms[r].invoice)
    /\ refund[r].state \in {"Processing", "Failed"}
    /\ \/ PostRefund(r) /\ job' = AfterAttempt(r, TRUE)
       \/ FailRefund(r) /\ job' = AfterAttempt(r, FALSE)
    /\ UNCHANGED <<transfer, retry, finance, threshold, archived, changes>>

(* Mutant: the retry does not look whether it is Failed still.             *)
RunManualAgain(r, s) ==
    /\ <<r, s>> \in retry
    /\ job[r] # None /\ job[r].status = "exhausted"
    /\ InvoiceFree(Terms[r].invoice)
    /\ FinancePermission(s)
    /\ PostRefund(r) \/ FailRefund(r)
    /\ retry' = retry \ {<<r, s>>}
    /\ UNCHANGED <<job, transfer, finance, threshold, archived, changes>>

(* The one attempt a manual retry authorizes; the job stays exhausted.     *)
RunManual(r, s) ==
    /\ <<r, s>> \in retry
    /\ job[r] # None /\ job[r].status = "exhausted"
    /\ InvoiceFree(Terms[r].invoice)
    /\ refund[r].state = "Failed"
    /\ FinancePermission(s)
    /\ PostRefund(r) \/ FailRefund(r)
    /\ retry' = retry \ {<<r, s>>}
    /\ UNCHANGED <<job, transfer, finance, threshold, archived, changes>>

(* The call ends without its attempt: the process dies, the permission is  *)
(* gone, or the refund is no longer Failed.                                *)
RetryLost(r, s) ==
    /\ <<r, s>> \in retry
    /\ retry' = retry \ {<<r, s>>}
    /\ UNCHANGED <<refund, job, credits, invoice, transfer, environment>>

BackoffPasses(r) ==
    /\ job[r] # None
    /\ job[r].status = "active" /\ ~job[r].due
    /\ job' = [job EXCEPT ![r].due = TRUE]
    /\ UNCHANGED <<refund, credits, invoice, transfer, retry, environment>>

-------------------------------------------------------------------------------
(* The rest of the system                                                  *)

(* The threshold lock is exclusive: no refund transaction is open.         *)
SetThreshold(n) ==
    /\ \A r \in Refunds : transfer[r] = None
    /\ n # threshold
    /\ changes < MaxChanges
    /\ threshold' = n
    /\ changes' = changes + 1
    /\ UNCHANGED <<refund, job, credits, invoice, transfer, retry, finance,
                   wallet, archived>>

ChangePermission(s) ==
    /\ \A r \in Refunds : transfer[r] # None => transfer[r].staff # s
    /\ changes < MaxChanges
    /\ finance' = IF s \in finance THEN finance \ {s} ELSE finance \cup {s}
    /\ changes' = changes + 1
    /\ UNCHANGED <<refund, job, credits, invoice, transfer, retry, threshold,
                   wallet, archived>>

SpendBalance ==
    /\ wallet
    /\ changes < MaxChanges
    /\ wallet' = FALSE
    /\ changes' = changes + 1
    /\ UNCHANGED <<refund, job, credits, invoice, transfer, retry, finance,
                   threshold, archived>>

(* deleteProfile: open invoices, contracts and money block it, open        *)
(* refunds do not.                                                         *)
ArchiveProfile ==
    /\ ~archived
    /\ \A r \in Refunds : transfer[r] = None
    /\ \A r \in Refunds : Terms[r].origin # "contract"
    /\ \A i \in Invoices : invoice[i].state # "PartiallyFunded"
    /\ ~wallet
    /\ changes < MaxChanges
    /\ archived' = TRUE
    /\ changes' = changes + 1
    /\ UNCHANGED <<refund, job, credits, invoice, transfer, retry, finance,
                   threshold, wallet>>

Worker(r) == RunDue(r) \/ BackoffPasses(r)

Next ==
    \/ \E r \in Refunds, s \in Staff :
          \/ Request(r, s)
          \/ RequestReplay(r, s)
          \/ CreateObligation(r, s)
          \/ \E d \in {"approve", "reject"} : ReviewApproval(r, s, d)
          \/ Approve(r, s)
          \/ \E to \in {"Rejected", "Cancelled"} : Dismiss(r, s, to)
          \/ Process(r, s)
          \/ \E ref \in BankRefs :
                RecordTransfer(r, s, ref) \/ Reconcile(r, s, ref)
          \/ RunManual(r, s)
          \/ RetryLost(r, s)
    \/ \E r \in Refunds : CommitTransfer(r) \/ AbortTransfer(r) \/ Worker(r)
    \/ \E n \in Thresholds : SetThreshold(n)
    \/ \E s \in Staff : ChangePermission(s)
    \/ SpendBalance
    \/ ArchiveProfile

Spec == Init /\ [][Next]_vars

(* The worker polls for due jobs; a row lock goes to its waiters in turn,  *)
(* so an attempt that is possible again and again happens; and a transfer  *)
(* transaction that holds the invoice commits or is rolled back.           *)
FairSpec ==
    /\ Spec
    /\ \A r \in Refunds :
           /\ SF_vars(RunDue(r)) /\ WF_vars(BackoffPasses(r))
           /\ WF_vars(CommitTransfer(r) \/ AbortTransfer(r))

-------------------------------------------------------------------------------
(* Properties                                                              *)

TypeOK ==
    /\ refund \in [Refunds -> RefundRow \cup {None}]
    /\ job \in [Refunds -> JobRow \cup {None}]
    /\ credits \in [Refunds -> Nat]
    /\ invoice \in [Invoices -> [state: InvoiceStates, refunded: Nat]]
    /\ transfer \in [Refunds -> OpenTransfer \cup {None}]
    /\ retry \subseteq Refunds \X Staff
    /\ finance \subseteq Staff
    /\ threshold \in Nat
    /\ wallet \in BOOLEAN
    /\ archived \in BOOLEAN
    /\ changes \in 0 .. MaxChanges

(* What an invoice has returned and what its open refunds may still return *)
(* never exceeds what was paid, whatever order requests, failures, retries *)
(* and obligations come in (requestReview, enforce_refund_budget).         *)
BudgetKept ==
    \A i \in Invoices :
        LET claims(states) ==
                {r \in Refunds : /\ Exists(r) /\ Terms[r].invoice = i
                                 /\ refund[r].state \in states}
        IN  invoice[i].refunded
              + TotalOf(claims({"Requested", "Approved", "Processing", "Failed"}))
            <= Paid[i]

(* refunded_amount is the sum of the completed refunds, and the invoice    *)
(* state says whether that is nothing, a part or all of what was paid      *)
(* (complete, runWalletRefund, apply_refund_completion_totals).            *)
InvoiceAgrees ==
    \A i \in Invoices :
        LET returned == {r \in Refunds : /\ Exists(r) /\ Terms[r].invoice = i
                                         /\ refund[r].state = "Completed"}
        IN  /\ invoice[i].refunded = TotalOf(returned)
            /\ invoice[i].state =
                  IF returned = {} THEN IF i \in Funded THEN "Paid"
                                                        ELSE "PartiallyFunded"
                  ELSE IF invoice[i].refunded = Paid[i] THEN "Refunded"
                                                    ELSE "PartiallyRefunded"

(* Money leaves once and never unnoticed: a wallet refund has its one      *)
(* credit exactly when it is Completed, whatever attempts failed before,   *)
(* and an external refund has a bank reference exactly while it is         *)
(* Processing or Completed (runWalletRefund, record-transfer).             *)
MoneyOutOnce ==
    \A r \in Refunds :
        LET state == IF Exists(r) THEN refund[r].state ELSE "Requested"
            transferred == Exists(r) /\ refund[r].bank_reference # None
        IN  IF Terms[r].destination = "wallet"
            THEN /\ credits[r] = IF state = "Completed" THEN 1 ELSE 0
                 /\ ~transferred
            ELSE /\ credits[r] = 0
                 /\ transferred <=> state \in {"Processing", "Completed"}

(* No refund whose approval was asked for is paid before another member    *)
(* approved it, even when the policy was switched off in between, and no   *)
(* member both records and reconciles a bank transfer                      *)
(* (requireRefundApproval, reconcile).                                     *)
PaidWithTwoMembers ==
    \A r \in Refunds :
        Exists(r) /\ (credits[r] > 0 \/ refund[r].bank_reference # None) =>
            /\ refund[r].approval # "none" =>
                  /\ refund[r].approval = "approved"
                  /\ refund[r].reviewer # refund[r].staff
            /\ refund[r].reconciledBy # None =>
                  refund[r].reconciledBy # refund[r].recordedBy

JobMatches(r) ==
    /\ (Exists(r) /\ Terms[r].destination = "wallet"
          /\ refund[r].state \in {"Processing", "Failed", "Completed"})
         <=> job[r] # None
    /\ job[r] # None =>
          /\ job[r].status = "active" =>
                /\ refund[r].state \in {"Processing", "Failed"}
                /\ job[r].attempts < MaxAttempts
          /\ job[r].status = "completed" => refund[r].state = "Completed"
          /\ job[r].status = "exhausted" =>
                /\ job[r].attempts = MaxAttempts
                /\ \/ refund[r].state = "Failed"
                   \/ refund[r].state = "Completed" /\ IsObligation(r)

(* A wallet refund that is being paid always has a job the worker will     *)
(* find, and a finished job matches its refund: completed with it, or out  *)
(* of attempts and Failed, unless a manual retry paid it                   *)
(* (process, runWalletRefund, guard_refund_retry_job).                     *)
JobMatchesRefund == \A r \in Refunds : JobMatches(r)

(* A bank reference stands for one transfer: two refunds never share it,   *)
(* although no unique index says so (record-transfer).                     *)
OneTransferPerReference ==
    \A q, r \in Refunds :
        /\ q # r /\ Exists(q) /\ Exists(r)
        /\ refund[q].bank_reference # None
        => refund[q].bank_reference # refund[r].bank_reference

InStates(states) == {r \in Refunds : Exists(r) /\ refund[r].state \in states}

Budget == INSTANCE RefundBudget WITH
    claimed <- InStates({"Requested", "Approved", "Processing", "Failed"}),
    dropped <- InStates({"Rejected", "Cancelled"}),
    paid <- InStates({"Completed"}),
    reserved <- [i \in Invoices |-> Reserved(i)],
    returned <- [i \in Invoices |-> invoice[i].refunded]

(* RefundBudget: whatever staff, worker, approvals and transfers do, to an *)
(* invoice a refund is one claim that was within its budget and ends once, *)
(* by a payment that shows in refunded_amount at once or by being dropped  *)
(* (request, decide, runWalletRefund, apply_refund_completion_totals).     *)
ImplementsBudget == Budget!Spec

(* Every queued refund is paid or given up after its bounded attempts      *)
(* (retryDueWalletRefunds).                                                *)
EveryJobEnds ==
    \A r \in Refunds :
        (job[r] # None /\ job[r].status = "active")
            ~> (job[r] # None /\ job[r].status \in {"completed", "exhausted"})

===============================================================================
