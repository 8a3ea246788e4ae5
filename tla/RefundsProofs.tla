----------------------------- MODULE RefundsProofs -----------------------------
(***************************************************************************)
(* Proofs about Refunds, for any number of refunds, invoices, members and  *)
(* bank references and any bound on the attempts.                          *)
(*                                                                         *)
(* That money leaves once, and with the approval that was asked for, rests *)
(* on facts about neighbouring state: a job exists for wallet refunds only *)
(* and follows its refund; an open transfer keeps the row it was checked   *)
(* against; manual retries belong to obligations; and obligations carry no *)
(* approval.                                                               *)
(***************************************************************************)
EXTENDS Refunds, FiniteSums, TLAPS

core == <<refund, job, credits, transfer, retry>>

(* An obligation has no requester and no approval request.                 *)
ObligationsAreUnreviewed ==
    \A r \in Refunds : Exists(r) /\ IsObligation(r) =>
        refund[r].staff = None /\ refund[r].approval = "none"

(* While record-transfer is open, its row is an approved bank refund whose *)
(* approval, if one was asked for, is in place.                            *)
OpenTransfersAreApproved ==
    \A r \in Refunds : transfer[r] # None =>
        /\ Terms[r].destination = "external_bank"
        /\ Exists(r)
        /\ refund[r].state = "Approved"
        /\ refund[r].approval # "none" =>
              refund[r].approval = "approved" /\ refund[r].reviewer # refund[r].staff

(* The reference of an open transfer is nobody else's.                     *)
OpenReferencesAreFree ==
    \A q, r \in Refunds : q # r /\ transfer[r] # None =>
        /\ Exists(q) => refund[q].bank_reference # transfer[r].ref
        /\ transfer[q] # None => transfer[q].ref # transfer[r].ref

(* Only a completed refund names who reconciled it.                        *)
ReconciledIsCompleted ==
    \A r \in Refunds :
        Exists(r) /\ refund[r].reconciledBy # None => refund[r].state = "Completed"

(* Manual retries are for obligations.                                     *)
RetriesAreObligations ==
    \A r \in Refunds, s \in Staff : <<r, s>> \in retry => IsObligation(r)

IInv ==
    /\ TypeOK
    /\ MoneyOutOnce
    /\ PaidWithTwoMembers
    /\ JobMatchesRefund
    /\ OneTransferPerReference
    /\ ObligationsAreUnreviewed
    /\ OpenTransfersAreApproved
    /\ OpenReferencesAreFree
    /\ ReconciledIsCompleted
    /\ RetriesAreObligations

(* A step that leaves the refunds, their jobs, credits, transfers and      *)
(* retries alone keeps the invariant if it keeps the types.                *)
LEMMA Frame ==
    IInv /\ UNCHANGED core /\ TypeOK' => IInv'
BY DEF IInv, core, MoneyOutOnce, PaidWithTwoMembers, JobMatchesRefund,
       JobMatches, OneTransferPerReference, ObligationsAreUnreviewed,
       OpenTransfersAreApproved, OpenReferencesAreFree, ReconciledIsCompleted,
       RetriesAreObligations, Exists

(* Completing a refund keeps the invoices typed.                           *)
LEMMA InvoiceTyped ==
    ASSUME TypeOK, NEW r \in Refunds
    PROVE  InvoiceAfter(r) \in [Invoices -> [state: InvoiceStates, refunded: Nat]]
BY TermsAssumption DEF TypeOK, InvoiceAfter, InvoiceStates, Term

(* A new job is active and has made no attempt.                            *)
LEMMA NewJobIsActive ==
    ASSUME NEW s \in Staff
    PROVE  /\ NewJob(s) \in JobRow
           /\ NewJob(s) # None
           /\ NewJob(s).status = "active" /\ NewJob(s).attempts = 0
<1>1. NewJob(s) \in JobRow
    BY BoundsAssumption DEF NewJob, JobRow
<1>2. NewJob(s) # None
    BY <1>1, NoneNotMember
<1>3. NewJob(s).status = "active" /\ NewJob(s).attempts = 0
    BY DEF NewJob
<1> QED
    BY <1>1, <1>2, <1>3

(* A new request claims no money and has no job.                           *)
LEMMA RequestStep ==
    ASSUME IInv, NEW r \in Refunds, NEW s \in Staff, Request(r, s)
    PROVE  IInv'
<1> USE DEF Request, Exists, NewRefund
<1>t. TypeOK'
    BY DEF IInv, TypeOK, RefundRow, States, environment
<1>1. MoneyOutOnce'
    BY <1>t DEF IInv, TypeOK, MoneyOutOnce
<1>2. PaidWithTwoMembers'
    BY <1>t DEF IInv, TypeOK, PaidWithTwoMembers, MoneyOutOnce
<1>3. JobMatchesRefund'
    BY <1>t DEF IInv, TypeOK, JobMatchesRefund, JobMatches
<1>4. OneTransferPerReference'
    BY <1>t DEF IInv, TypeOK, OneTransferPerReference
<1>5. ObligationsAreUnreviewed'
    BY <1>t DEF IInv, TypeOK, ObligationsAreUnreviewed
<1>6. OpenTransfersAreApproved'
    BY <1>t DEF IInv, TypeOK, OpenTransfersAreApproved, Transaction,
       InvoiceFree
<1>7. OpenReferencesAreFree'
    BY <1>t, NoneNotMember DEF IInv, TypeOK, OpenReferencesAreFree,
       OpenTransfer
<1>8. ReconciledIsCompleted'
    BY <1>t DEF IInv, TypeOK, ReconciledIsCompleted
<1>9. RetriesAreObligations'
    BY DEF IInv, RetriesAreObligations
<1> QED
    BY <1>t, <1>1, <1>2, <1>3, <1>4, <1>5, <1>6, <1>7, <1>8, <1>9 DEF IInv

(* An approval is opened only before money can have left.                  *)
LEMMA RequestReplayStep ==
    ASSUME IInv, NEW r \in Refunds, NEW s \in Staff, RequestReplay(r, s)
    PROVE  IInv'
<1> USE DEF RequestReplay, Exists
<1>t. TypeOK'
    BY NoneNotMember DEF IInv, TypeOK, RefundRow, States, environment
<1>1. MoneyOutOnce'
    BY <1>t DEF IInv, TypeOK, MoneyOutOnce
<1>2. PaidWithTwoMembers'
    BY <1>t DEF IInv, TypeOK, PaidWithTwoMembers, MoneyOutOnce
<1>3. JobMatchesRefund'
    BY <1>t DEF IInv, TypeOK, JobMatchesRefund, JobMatches
<1>4. OneTransferPerReference'
    BY <1>t DEF IInv, TypeOK, OneTransferPerReference
<1>5. ObligationsAreUnreviewed'
    BY <1>t, NoneNotMember DEF IInv, TypeOK, ObligationsAreUnreviewed
<1>6. OpenTransfersAreApproved'
    BY <1>t DEF IInv, TypeOK, OpenTransfersAreApproved, Transaction,
       InvoiceFree
<1>7. OpenReferencesAreFree'
    BY <1>t DEF IInv, TypeOK, OpenReferencesAreFree
<1>8. ReconciledIsCompleted'
    BY <1>t DEF IInv, TypeOK, ReconciledIsCompleted
<1>9. RetriesAreObligations'
    BY DEF IInv, RetriesAreObligations
<1> QED
    BY <1>t, <1>1, <1>2, <1>3, <1>4, <1>5, <1>6, <1>7, <1>8, <1>9 DEF IInv

(* An obligation starts with its job and without a credit.                 *)
LEMMA CreateObligationStep ==
    ASSUME IInv, NEW r \in Refunds, NEW s \in Staff, CreateObligation(r, s)
    PROVE  IInv'
<1> USE DEF CreateObligation, Exists, NewRefund
<1>t. TypeOK'
    BY NewJobIsActive DEF IInv, TypeOK, RefundRow, States, environment
<1>1. MoneyOutOnce'
    BY <1>t, TermsAssumption DEF IInv, TypeOK, MoneyOutOnce, Term
<1>2. PaidWithTwoMembers'
    BY <1>t DEF IInv, TypeOK, PaidWithTwoMembers, MoneyOutOnce
<1>3. JobMatchesRefund'
    <2>1. ASSUME NEW q \in Refunds, q # r PROVE JobMatches(q)'
        BY <2>1 DEF IInv, TypeOK, JobMatchesRefund, JobMatches
    <2>2. JobMatches(r)'
        <3>1. refund'[r] # None /\ refund'[r].state = (IF Terms[r].destination = "wallet"
                     THEN "Processing" ELSE "Approved")
            BY <1>t, NoneNotMember DEF IInv, TypeOK, RefundRow, States
        <3>2. job'[r] = (IF Terms[r].destination = "wallet"
                      THEN NewJob(s) ELSE None)
            BY DEF IInv, TypeOK
        <3> QED
            BY <3>1, <3>2, NewJobIsActive, BoundsAssumption DEF JobMatches
    <2> QED
        BY <2>1, <2>2 DEF JobMatchesRefund
<1>4. OneTransferPerReference'
    BY <1>t DEF IInv, TypeOK, OneTransferPerReference
<1>5. ObligationsAreUnreviewed'
    BY <1>t DEF IInv, TypeOK, ObligationsAreUnreviewed
<1>6. OpenTransfersAreApproved'
    BY <1>t DEF IInv, TypeOK, OpenTransfersAreApproved
<1>7. OpenReferencesAreFree'
    BY <1>t, NoneNotMember DEF IInv, TypeOK, OpenReferencesAreFree,
       OpenTransfer
<1>8. ReconciledIsCompleted'
    BY <1>t DEF IInv, TypeOK, ReconciledIsCompleted
<1>9. RetriesAreObligations'
    BY DEF IInv, RetriesAreObligations
<1> QED
    BY <1>t, <1>1, <1>2, <1>3, <1>4, <1>5, <1>6, <1>7, <1>8, <1>9 DEF IInv

(* A review decides a pending approval, which paid nothing.                *)
LEMMA ReviewApprovalStep ==
    ASSUME IInv, NEW r \in Refunds, NEW s \in Staff, NEW d, ReviewApproval(r, s, d)
    PROVE  IInv'
<1> USE DEF ReviewApproval, Exists
<1> DEFINE row == [refund[r] EXCEPT !.approval = ReviewStatus(d), !.reviewer = s]
<1>r. refund[r] \in RefundRow
    BY DEF IInv, TypeOK
<1>u. refund' = [refund EXCEPT ![r] = row]
    BY <1>r DEF IInv, TypeOK, RefundRow
<1>v. row \in RefundRow
    BY <1>r DEF RefundRow, ReviewStatus
<1>w. /\ row # None
      /\ row.state = refund[r].state
      /\ row.bank_reference = refund[r].bank_reference
    BY <1>r, <1>v, NoneNotMember DEF RefundRow
<1> HIDE DEF row
<1>t. TypeOK'
    BY <1>u, <1>v DEF IInv, TypeOK, environment
<1>1. MoneyOutOnce'
    BY <1>u, <1>w DEF IInv, TypeOK, MoneyOutOnce
<1>2. PaidWithTwoMembers'
    BY <1>t DEF IInv, TypeOK, PaidWithTwoMembers, ReviewStatus, MoneyOutOnce
<1>3. JobMatchesRefund'
    BY <1>u, <1>w DEF IInv, TypeOK, JobMatchesRefund, JobMatches
<1>4. OneTransferPerReference'
    BY <1>t DEF IInv, TypeOK, OneTransferPerReference
<1>5. ObligationsAreUnreviewed'
    BY <1>t DEF IInv, TypeOK, ObligationsAreUnreviewed
<1>6. OpenTransfersAreApproved'
    BY <1>t DEF IInv, TypeOK, OpenTransfersAreApproved, ReviewStatus
<1>7. OpenReferencesAreFree'
    BY <1>t DEF IInv, TypeOK, OpenReferencesAreFree
<1>8. ReconciledIsCompleted'
    BY <1>t DEF IInv, TypeOK, ReconciledIsCompleted
<1>9. RetriesAreObligations'
    BY DEF IInv, RetriesAreObligations
<1> QED
    BY <1>t, <1>1, <1>2, <1>3, <1>4, <1>5, <1>6, <1>7, <1>8, <1>9 DEF IInv

(* Approving moves a request that has neither job nor credit.              *)
LEMMA ApproveStep ==
    ASSUME IInv, NEW r \in Refunds, NEW s \in Staff, Approve(r, s)
    PROVE  IInv'
<1> USE DEF Approve, Exists, Move
<1>t. TypeOK'
    BY DEF IInv, TypeOK, RefundRow, States, environment, REFUND_TRANSITIONS
<1>1. MoneyOutOnce'
    BY <1>t DEF IInv, TypeOK, MoneyOutOnce, REFUND_TRANSITIONS, RefundRow,
       States
<1>2. PaidWithTwoMembers'
    BY <1>t DEF IInv, TypeOK, PaidWithTwoMembers, MoneyOutOnce
<1>3. JobMatchesRefund'
    BY <1>t DEF IInv, TypeOK, JobMatchesRefund, JobMatches,
       REFUND_TRANSITIONS, RefundRow, States
<1>4. OneTransferPerReference'
    BY <1>t DEF IInv, TypeOK, OneTransferPerReference
<1>5. ObligationsAreUnreviewed'
    BY <1>t DEF IInv, TypeOK, ObligationsAreUnreviewed
<1>6. OpenTransfersAreApproved'
    BY <1>t DEF IInv, TypeOK, OpenTransfersAreApproved, Transaction,
       InvoiceFree
<1>7. OpenReferencesAreFree'
    BY <1>t DEF IInv, TypeOK, OpenReferencesAreFree
<1>8. ReconciledIsCompleted'
    BY <1>t DEF IInv, TypeOK, ReconciledIsCompleted, REFUND_TRANSITIONS,
       RefundRow, States
<1>9. RetriesAreObligations'
    BY DEF IInv, RetriesAreObligations
<1> QED
    BY <1>t, <1>1, <1>2, <1>3, <1>4, <1>5, <1>6, <1>7, <1>8, <1>9 DEF IInv

(* Only refunds that were not yet being paid are dismissed.                *)
LEMMA DismissStep ==
    ASSUME IInv, NEW r \in Refunds, NEW s \in Staff, NEW to \in {"Rejected", "Cancelled"}, Dismiss(r, s, to)
    PROVE  IInv'
<1> USE DEF Dismiss, Exists, Move
<1>t. TypeOK'
    BY DEF IInv, TypeOK, RefundRow, States, environment, REFUND_TRANSITIONS
<1>1. MoneyOutOnce'
    BY <1>t DEF IInv, TypeOK, MoneyOutOnce, REFUND_TRANSITIONS, RefundRow,
       States
<1>2. PaidWithTwoMembers'
    BY <1>t DEF IInv, TypeOK, PaidWithTwoMembers, MoneyOutOnce
<1>3. JobMatchesRefund'
    BY <1>t DEF IInv, TypeOK, JobMatchesRefund, JobMatches,
       REFUND_TRANSITIONS, RefundRow, States
<1>4. OneTransferPerReference'
    BY <1>t DEF IInv, TypeOK, OneTransferPerReference
<1>5. ObligationsAreUnreviewed'
    BY <1>t DEF IInv, TypeOK, ObligationsAreUnreviewed
<1>6. OpenTransfersAreApproved'
    BY <1>t DEF IInv, TypeOK, OpenTransfersAreApproved, Transaction,
       InvoiceFree
<1>7. OpenReferencesAreFree'
    BY <1>t DEF IInv, TypeOK, OpenReferencesAreFree
<1>8. ReconciledIsCompleted'
    BY <1>t DEF IInv, TypeOK, ReconciledIsCompleted, REFUND_TRANSITIONS,
       RefundRow, States
<1>9. RetriesAreObligations'
    BY DEF IInv, RetriesAreObligations
<1> QED
    BY <1>t, <1>1, <1>2, <1>3, <1>4, <1>5, <1>6, <1>7, <1>8, <1>9 DEF IInv

(* process queues a job with the transition, for wallet refunds.           *)
LEMMA ProcessStep ==
    ASSUME IInv, NEW r \in Refunds, NEW s \in Staff, Process(r, s)
    PROVE  IInv'
<1> USE DEF Process, Exists
<1>t. TypeOK'
    BY NewJobIsActive DEF IInv, TypeOK, RefundRow, States, environment
<1>1. MoneyOutOnce'
    BY <1>t DEF IInv, TypeOK, MoneyOutOnce
<1>2. PaidWithTwoMembers'
    BY <1>t DEF IInv, TypeOK, PaidWithTwoMembers, MoneyOutOnce
<1>3. JobMatchesRefund'
    <2>1. ASSUME NEW q \in Refunds, q # r PROVE JobMatches(q)'
        BY <2>1 DEF IInv, TypeOK, JobMatchesRefund, JobMatches
    <2>2. JobMatches(r)'
        <3>1. refund'[r] # None /\ refund'[r].state = (IF refund[r].state = "Approved"
                     THEN "Processing" ELSE refund[r].state)
            BY <1>t, NoneNotMember DEF IInv, TypeOK, RefundRow, States
        <3>2. job'[r] = (IF job[r] = None THEN NewJob(s) ELSE job[r])
            BY DEF IInv, TypeOK
        <3> QED
            BY <3>1, <3>2, NewJobIsActive, BoundsAssumption
            DEF IInv, TypeOK, JobMatchesRefund, JobMatches
    <2> QED
        BY <2>1, <2>2 DEF JobMatchesRefund
<1>4. OneTransferPerReference'
    BY <1>t DEF IInv, TypeOK, OneTransferPerReference
<1>5. ObligationsAreUnreviewed'
    BY <1>t DEF IInv, TypeOK, ObligationsAreUnreviewed
<1>6. OpenTransfersAreApproved'
    BY <1>t DEF IInv, TypeOK, OpenTransfersAreApproved, Transaction,
       InvoiceFree
<1>7. OpenReferencesAreFree'
    BY <1>t DEF IInv, TypeOK, OpenReferencesAreFree
<1>8. ReconciledIsCompleted'
    BY <1>t DEF IInv, TypeOK, ReconciledIsCompleted
<1>9. RetriesAreObligations'
    BY DEF IInv, RetriesAreObligations
<1> QED
    BY <1>t, <1>1, <1>2, <1>3, <1>4, <1>5, <1>6, <1>7, <1>8, <1>9 DEF IInv

(* record-transfer holds a reference that nobody else has.                 *)
LEMMA RecordTransferStep ==
    ASSUME IInv, NEW r \in Refunds, NEW s \in Staff, NEW ref \in BankRefs, RecordTransfer(r, s, ref)
    PROVE  IInv'
<1> USE DEF RecordTransfer, Exists
<1>t. TypeOK'
    BY DEF IInv, TypeOK, OpenTransfer, environment
<1>1. MoneyOutOnce'
    BY <1>t DEF IInv, TypeOK, MoneyOutOnce
<1>2. PaidWithTwoMembers'
    BY <1>t DEF IInv, TypeOK, PaidWithTwoMembers
<1>3. JobMatchesRefund'
    BY <1>t DEF IInv, TypeOK, JobMatchesRefund, JobMatches
<1>4. OneTransferPerReference'
    BY <1>t DEF IInv, TypeOK, OneTransferPerReference
<1>5. ObligationsAreUnreviewed'
    BY <1>t DEF IInv, TypeOK, ObligationsAreUnreviewed
<1>6. OpenTransfersAreApproved'
    BY <1>t, NoneNotMember DEF IInv, TypeOK, OpenTransfersAreApproved,
       RefundApproval, ObligationsAreUnreviewed
<1>7. OpenReferencesAreFree'
    BY <1>t, NoneNotMember DEF IInv, TypeOK, OpenReferencesAreFree,
       ReferenceTaken, ReferenceLocked, OpenTransfer
<1>8. ReconciledIsCompleted'
    BY <1>t DEF IInv, TypeOK, ReconciledIsCompleted
<1>9. RetriesAreObligations'
    BY DEF IInv, RetriesAreObligations
<1> QED
    BY <1>t, <1>1, <1>2, <1>3, <1>4, <1>5, <1>6, <1>7, <1>8, <1>9 DEF IInv

(* COMMIT publishes what record-transfer checked.                          *)
LEMMA CommitTransferStep ==
    ASSUME IInv, NEW r \in Refunds, CommitTransfer(r)
    PROVE  IInv'
<1> USE DEF CommitTransfer, Exists
<1> DEFINE row == [refund[r] EXCEPT !.state = "Processing",
                         !.bank_reference = transfer[r].ref,
                         !.recordedBy = transfer[r].staff]
<1>r. refund[r] \in RefundRow
    BY DEF IInv, TypeOK, OpenTransfersAreApproved
<1>u. refund' = [refund EXCEPT ![r] = row]
    BY <1>r DEF IInv, TypeOK, RefundRow
<1>v. row \in RefundRow
    BY <1>r DEF IInv, TypeOK, RefundRow, States, OpenTransfer
<1>t. TypeOK'
    BY <1>u, <1>v DEF IInv, TypeOK, environment
<1>1. MoneyOutOnce'
    BY <1>t, NoneNotMember DEF IInv, TypeOK, MoneyOutOnce,
       OpenTransfersAreApproved, OpenTransfer
<1>2. PaidWithTwoMembers'
    BY <1>t DEF IInv, TypeOK, PaidWithTwoMembers, OpenTransfersAreApproved,
       ReconciledIsCompleted, MoneyOutOnce
<1>3. JobMatchesRefund'
    BY <1>t DEF IInv, TypeOK, JobMatchesRefund, JobMatches,
       OpenTransfersAreApproved
<1>4. OneTransferPerReference'
    BY <1>t DEF IInv, TypeOK, OneTransferPerReference,
       OpenTransfersAreApproved, OpenReferencesAreFree
<1>5. ObligationsAreUnreviewed'
    BY <1>t DEF IInv, TypeOK, ObligationsAreUnreviewed,
       OpenTransfersAreApproved
<1>6. OpenTransfersAreApproved'
    BY <1>t DEF IInv, TypeOK, OpenTransfersAreApproved
<1>7. OpenReferencesAreFree'
    BY <1>t DEF IInv, TypeOK, OpenReferencesAreFree,
       OpenTransfersAreApproved
<1>8. ReconciledIsCompleted'
    BY <1>t DEF IInv, TypeOK, ReconciledIsCompleted,
       OpenTransfersAreApproved
<1>9. RetriesAreObligations'
    BY DEF IInv, RetriesAreObligations
<1> QED
    BY <1>t, <1>1, <1>2, <1>3, <1>4, <1>5, <1>6, <1>7, <1>8, <1>9 DEF IInv

(* ROLLBACK only releases the locks.                                       *)
LEMMA AbortTransferStep ==
    ASSUME IInv, NEW r \in Refunds, AbortTransfer(r)
    PROVE  IInv'
<1> USE DEF AbortTransfer, Exists
<1>t. TypeOK'
    BY DEF IInv, TypeOK, OpenTransfer, environment
<1>1. MoneyOutOnce'
    BY <1>t DEF IInv, TypeOK, MoneyOutOnce
<1>2. PaidWithTwoMembers'
    BY <1>t DEF IInv, TypeOK, PaidWithTwoMembers
<1>3. JobMatchesRefund'
    BY <1>t DEF IInv, TypeOK, JobMatchesRefund, JobMatches
<1>4. OneTransferPerReference'
    BY <1>t DEF IInv, TypeOK, OneTransferPerReference
<1>5. ObligationsAreUnreviewed'
    BY <1>t DEF IInv, TypeOK, ObligationsAreUnreviewed
<1>6. OpenTransfersAreApproved'
    BY <1>t DEF IInv, TypeOK, OpenTransfersAreApproved
<1>7. OpenReferencesAreFree'
    BY <1>t DEF IInv, TypeOK, OpenReferencesAreFree
<1>8. ReconciledIsCompleted'
    BY <1>t DEF IInv, TypeOK, ReconciledIsCompleted
<1>9. RetriesAreObligations'
    BY DEF IInv, RetriesAreObligations
<1> QED
    BY <1>t, <1>1, <1>2, <1>3, <1>4, <1>5, <1>6, <1>7, <1>8, <1>9 DEF IInv

(* Only a member who did not record the transfer reconciles it.            *)
LEMMA ReconcileStep ==
    ASSUME IInv, NEW r \in Refunds, NEW s \in Staff, NEW ref \in BankRefs, Reconcile(r, s, ref)
    PROVE  IInv'
<1> USE DEF Reconcile, Exists
<1> DEFINE row == [refund[r] EXCEPT !.state = "Completed", !.reconciledBy = s]
<1>r. refund[r] \in RefundRow
    BY DEF IInv, TypeOK
<1>u. refund' = [refund EXCEPT ![r] = row]
    BY <1>r DEF IInv, TypeOK, RefundRow
<1>v. row \in RefundRow
    BY <1>r DEF RefundRow, States
<1>i. invoice' \in [Invoices -> [state: InvoiceStates, refunded: Nat]]
    BY InvoiceTyped DEF IInv
<1>t. TypeOK'
    BY <1>u, <1>v, <1>i DEF IInv, TypeOK, environment
<1>1. MoneyOutOnce'
    BY <1>t DEF IInv, TypeOK, MoneyOutOnce
<1>2. PaidWithTwoMembers'
    BY <1>t, NoneNotMember DEF IInv, TypeOK, PaidWithTwoMembers,
       MoneyOutOnce
<1>3. JobMatchesRefund'
    BY <1>t DEF IInv, TypeOK, JobMatchesRefund, JobMatches
<1>4. OneTransferPerReference'
    BY <1>t DEF IInv, TypeOK, OneTransferPerReference
<1>5. ObligationsAreUnreviewed'
    BY <1>t DEF IInv, TypeOK, ObligationsAreUnreviewed
<1>6. OpenTransfersAreApproved'
    BY <1>t DEF IInv, TypeOK, OpenTransfersAreApproved, Transaction,
       InvoiceFree
<1>7. OpenReferencesAreFree'
    BY <1>t DEF IInv, TypeOK, OpenReferencesAreFree
<1>8. ReconciledIsCompleted'
    BY <1>t DEF IInv, TypeOK, ReconciledIsCompleted
<1>9. RetriesAreObligations'
    BY DEF IInv, RetriesAreObligations
<1> QED
    BY <1>t, <1>1, <1>2, <1>3, <1>4, <1>5, <1>6, <1>7, <1>8, <1>9 DEF IInv

(* What an attempt does, paid or failed, keeps the invariant, provided the *)
(* job still matches and a payment had its approval.                       *)
LEMMA AttemptStep ==
    ASSUME IInv, TypeOK',
           NEW r \in Refunds, NEW to \in {"Completed", "Failed"},
           Exists(r), Terms[r].destination = "wallet",
           refund[r].state \in {"Processing", "Failed"},
           refund' = [refund EXCEPT ![r].state = to],
           credits' = [credits EXCEPT ![r] =
                          IF to = "Completed" THEN @ + 1 ELSE @],
           to = "Completed" /\ refund[r].approval # "none" =>
              refund[r].approval = "approved" /\ refund[r].reviewer # refund[r].staff,
           \A q \in Refunds : q # r => job'[q] = job[q],
           JobMatches(r)',
           transfer' = transfer, retry' \subseteq retry
    PROVE  IInv'
<1> USE DEF Exists
<1>a. /\ refund'[r] # None
      /\ refund'[r] = [refund[r] EXCEPT !.state = to]
      /\ \A q \in Refunds : q # r => refund'[q] = refund[q]
    <2>1. refund'[r] = [refund[r] EXCEPT !.state = to]
        BY DEF IInv, TypeOK
    <2>2. refund'[r] \in RefundRow
        BY <2>1 DEF IInv, TypeOK, RefundRow, States
    <2> QED
        BY <2>1, <2>2, NoneNotMember DEF IInv, TypeOK
<1>1. MoneyOutOnce'
    BY <1>a DEF IInv, TypeOK, MoneyOutOnce, RefundRow
<1>2. PaidWithTwoMembers'
    BY <1>a DEF IInv, TypeOK, PaidWithTwoMembers, MoneyOutOnce,
       ReconciledIsCompleted, RefundRow
<1>3. JobMatchesRefund'
    BY <1>a DEF IInv, JobMatchesRefund, JobMatches
<1>4. OneTransferPerReference'
    BY <1>a DEF IInv, TypeOK, OneTransferPerReference, RefundRow
<1>5. ObligationsAreUnreviewed'
    BY <1>a DEF IInv, TypeOK, ObligationsAreUnreviewed, RefundRow
<1>6. OpenTransfersAreApproved'
    BY <1>a DEF IInv, OpenTransfersAreApproved
<1>7. OpenReferencesAreFree'
    BY <1>a DEF IInv, TypeOK, OpenReferencesAreFree, RefundRow
<1>8. ReconciledIsCompleted'
    BY <1>a DEF IInv, TypeOK, ReconciledIsCompleted, RefundRow
<1>9. RetriesAreObligations'
    BY DEF IInv, RetriesAreObligations
<1> QED
    BY <1>1, <1>2, <1>3, <1>4, <1>5, <1>6, <1>7, <1>8, <1>9 DEF IInv

(* A payable refund has the approval that was asked for.                   *)
LEMMA PayableIsApproved ==
    ASSUME IInv, NEW r \in Refunds, Exists(r), Payable(r)
    PROVE  refund[r].approval # "none" =>
              refund[r].approval = "approved" /\ refund[r].reviewer # refund[r].staff
BY DEF IInv, Payable, RefundApproval, ObligationsAreUnreviewed

(* An automatic attempt: the job is active, so its refund is a wallet      *)
(* refund that is being paid, and the attempt ends the job exactly when it *)
(* pays or was the last one.                                               *)
LEMMA RunDueStep ==
    ASSUME IInv, NEW r \in Refunds, RunDue(r)
    PROVE  IInv'
<1> USE DEF Exists
<1>a. /\ Exists(r) /\ Terms[r].destination = "wallet"
      /\ refund[r].state \in {"Processing", "Failed"}
      /\ job[r] \in JobRow /\ job[r].attempts < MaxAttempts
    BY DEF IInv, TypeOK, RunDue, JobIsDue, JobMatchesRefund, JobMatches
<1>b. PICK to \in {"Completed", "Failed"} :
          /\ to = "Completed" => Payable(r)
          /\ refund' = [refund EXCEPT ![r].state = to]
          /\ credits' = [credits EXCEPT ![r] =
                            IF to = "Completed" THEN @ + 1 ELSE @]
          /\ invoice' \in {invoice, InvoiceAfter(r)}
          /\ wallet' \in {wallet, TRUE}
          /\ job' = AfterAttempt(r, to = "Completed")
    <2>1. CASE PostRefund(r) /\ job' = AfterAttempt(r, TRUE)
        BY <2>1 DEF PostRefund
    <2>2. CASE FailRefund(r) /\ job' = AfterAttempt(r, FALSE)
        <3>1. credits' = [credits EXCEPT ![r] = credits[r]]
            BY <2>2 DEF FailRefund, IInv, TypeOK
        <3> QED
            BY <2>2, <3>1 DEF FailRefund
    <2> QED
        BY <2>1, <2>2 DEF RunDue
<1> DEFINE n == job[r].attempts + 1
           st == IF to = "Completed" THEN "completed"
                 ELSE IF n >= MaxAttempts THEN "exhausted" ELSE "active"
           after == [job[r] EXCEPT !.attempts = n, !.due = FALSE, !.status = st]
<1>c. job' = [job EXCEPT ![r] = after]
    BY <1>b DEF AfterAttempt, IInv, TypeOK
<1>d. /\ n \in 0 .. MaxAttempts
      /\ st = IF to = "Completed" THEN "completed"
              ELSE IF n = MaxAttempts THEN "exhausted" ELSE "active"
    BY <1>a, BoundsAssumption DEF JobRow
<1> HIDE DEF n, st
<1>e. after \in JobRow /\ after.attempts = n /\ after.status = st
    BY <1>a, <1>d DEF JobRow
<1> HIDE DEF after
<1>t. TypeOK'
    <2>1. invoice' \in [Invoices -> [state: InvoiceStates, refunded: Nat]]
        BY <1>b, InvoiceTyped DEF IInv, TypeOK
    <2>2. refund' \in [Refunds -> RefundRow \cup {None}]
        BY <1>b, <1>a DEF IInv, TypeOK, RefundRow, States
    <2>3. job' \in [Refunds -> JobRow \cup {None}]
        BY <1>c, <1>e DEF IInv, TypeOK
    <2>4. credits' \in [Refunds -> Nat]
        BY <1>b DEF IInv, TypeOK
    <2> QED
        BY <1>b, <2>1, <2>2, <2>3, <2>4 DEF IInv, TypeOK, RunDue
<1>j. JobMatches(r)'
    <2>1. refund'[r] # None /\ refund'[r].state = to
        <3>1. refund'[r] = [refund[r] EXCEPT !.state = to]
            BY <1>b DEF IInv, TypeOK
        <3>2. refund'[r] \in RefundRow /\ refund'[r].state = to
            BY <3>1, <1>a DEF IInv, TypeOK, RefundRow, States
        <3> QED
            BY <3>2, NoneNotMember
    <2>2. job'[r] = after /\ after # None
        BY <1>c, <1>e, NoneNotMember DEF IInv, TypeOK
    <2> QED
        BY <2>1, <2>2, <1>a, <1>d, <1>e, BoundsAssumption DEF JobMatches
<1> QED
    <2>1. \A q \in Refunds : q # r => job'[q] = job[q]
        BY <1>c DEF IInv, TypeOK
    <2>2. transfer' = transfer /\ retry' \subseteq retry
        BY DEF RunDue
    <2> QED
        BY <1>a, <1>b, <1>t, <1>j, <2>1, <2>2, AttemptStep, PayableIsApproved

(* A manual attempt: the refund is a failed obligation with an exhausted   *)
(* job, which stays as it is.                                              *)
LEMMA RunManualStep ==
    ASSUME IInv, NEW r \in Refunds, NEW s \in Staff, RunManual(r, s)
    PROVE  IInv'
<1> USE DEF Exists
<1>a. /\ Exists(r) /\ Terms[r].destination = "wallet"
      /\ refund[r].state = "Failed" /\ IsObligation(r)
      /\ job[r] # None /\ job[r].status = "exhausted"
      /\ job[r].attempts = MaxAttempts
    BY DEF IInv, RunManual, JobMatchesRefund, JobMatches, RetriesAreObligations
<1>b. PICK to \in {"Completed", "Failed"} :
          /\ to = "Completed" => Payable(r)
          /\ refund' = [refund EXCEPT ![r].state = to]
          /\ credits' = [credits EXCEPT ![r] =
                            IF to = "Completed" THEN @ + 1 ELSE @]
          /\ invoice' \in {invoice, InvoiceAfter(r)}
          /\ wallet' \in {wallet, TRUE}
    <2>1. CASE PostRefund(r)
        BY <2>1 DEF PostRefund
    <2>2. CASE FailRefund(r)
        <3>1. credits' = [credits EXCEPT ![r] = credits[r]]
            BY <2>2 DEF FailRefund, IInv, TypeOK
        <3> QED
            BY <2>2, <3>1 DEF FailRefund
    <2> QED
        BY <2>1, <2>2 DEF RunManual
<1>t. TypeOK'
    <2>1. invoice' \in [Invoices -> [state: InvoiceStates, refunded: Nat]]
        BY <1>b, InvoiceTyped DEF IInv, TypeOK
    <2>2. refund' \in [Refunds -> RefundRow \cup {None}]
        BY <1>b, <1>a DEF IInv, TypeOK, RefundRow, States
    <2>3. credits' \in [Refunds -> Nat]
        BY <1>b DEF IInv, TypeOK
    <2> QED
        BY <1>b, <2>1, <2>2, <2>3 DEF IInv, TypeOK, RunManual
<1>j. JobMatches(r)'
    <2>1. refund'[r] # None /\ refund'[r].state = to
        <3>1. refund'[r] = [refund[r] EXCEPT !.state = to]
            BY <1>b DEF IInv, TypeOK
        <3>2. refund'[r] \in RefundRow /\ refund'[r].state = to
            BY <3>1, <1>a DEF IInv, TypeOK, RefundRow, States
        <3> QED
            BY <3>2, NoneNotMember
    <2> QED
        BY <2>1, <1>a DEF JobMatches, RunManual
<1> QED
    <2>1. /\ \A q \in Refunds : q # r => job'[q] = job[q]
          /\ transfer' = transfer /\ retry' \subseteq retry
        BY DEF RunManual
    <2> QED
        BY <1>a, <1>b, <1>t, <1>j, <2>1, AttemptStep, PayableIsApproved

(* A lost retry changes nothing an invariant sees.                         *)
LEMMA RetryLostStep ==
    ASSUME IInv, NEW r \in Refunds, NEW s \in Staff, RetryLost(r, s)
    PROVE  IInv'
BY DEF RetryLost, environment, IInv, TypeOK, MoneyOutOnce, PaidWithTwoMembers,
       JobMatchesRefund, JobMatches, OneTransferPerReference,
       ObligationsAreUnreviewed, OpenTransfersAreApproved,
       OpenReferencesAreFree, ReconciledIsCompleted, RetriesAreObligations,
       Exists

(* A back-off that ends makes its job due; the rest of the job stays.      *)
LEMMA BackoffPassesStep ==
    ASSUME IInv, NEW r \in Refunds, BackoffPasses(r)
    PROVE  IInv'
<1> DEFINE due == [job[r] EXCEPT !.due = TRUE]
<1>1. job[r] \in JobRow
    BY DEF IInv, TypeOK, BackoffPasses
<1>2. job' = [job EXCEPT ![r] = due]
    BY <1>1 DEF IInv, TypeOK, BackoffPasses, JobRow
<1>3. /\ due \in JobRow /\ due # None
      /\ due.status = job[r].status /\ due.attempts = job[r].attempts
    <2>1. /\ due \in JobRow
          /\ due.status = job[r].status /\ due.attempts = job[r].attempts
        BY <1>1 DEF JobRow
    <2> HIDE DEF due
    <2> QED
        BY <2>1, NoneNotMember
<1> HIDE DEF due
<1>4. TypeOK'
    BY <1>2, <1>3 DEF IInv, TypeOK, BackoffPasses, environment
<1>5. JobMatchesRefund'
    <2>1. ASSUME NEW q \in Refunds PROVE JobMatches(q)'
        <3>1. CASE q = r
            BY <3>1, <1>1, <1>2, <1>3, NoneNotMember
            DEF IInv, TypeOK, BackoffPasses, JobMatchesRefund, JobMatches, Exists
        <3>2. CASE q # r
            BY <3>2, <1>2
            DEF IInv, TypeOK, BackoffPasses, JobMatchesRefund, JobMatches, Exists
        <3> QED
            BY <3>1, <3>2
    <2> QED
        BY <2>1 DEF JobMatchesRefund
<1> QED
    BY <1>4, <1>5
    DEF IInv, BackoffPasses, MoneyOutOnce, PaidWithTwoMembers,
        OneTransferPerReference, ObligationsAreUnreviewed,
        OpenTransfersAreApproved, OpenReferencesAreFree,
        ReconciledIsCompleted, RetriesAreObligations, Exists

(* Policy, permissions, spending and archival touch no refund.             *)
LEMMA EnvironmentStep ==
    ASSUME IInv,
           \/ \E n \in Thresholds : SetThreshold(n)
           \/ \E s \in Staff : ChangePermission(s)
           \/ SpendBalance
           \/ ArchiveProfile
    PROVE  IInv'
<1>1. TypeOK'
    <2>1. ASSUME NEW n \in Thresholds, SetThreshold(n) PROVE TypeOK'
        BY <2>1, BoundsAssumption DEF SetThreshold, IInv, TypeOK
    <2>2. ASSUME NEW s \in Staff, ChangePermission(s) PROVE TypeOK'
        BY <2>2, BoundsAssumption DEF ChangePermission, IInv, TypeOK
    <2>3. CASE SpendBalance
        <3>1. /\ wallet' = FALSE /\ changes' = changes + 1 /\ changes < MaxChanges
              /\ UNCHANGED <<refund, job, credits, invoice, transfer, retry,
                             finance, threshold, archived>>
            BY <2>3 DEF SpendBalance
        <3>2. changes' \in 0 .. MaxChanges
            BY <3>1, BoundsAssumption DEF IInv, TypeOK
        <3>3. wallet' \in BOOLEAN
            BY <3>1
        <3> QED
            BY <3>1, <3>2, <3>3 DEF IInv, TypeOK
    <2>4. CASE ArchiveProfile
        BY <2>4, BoundsAssumption DEF ArchiveProfile, IInv, TypeOK
    <2> QED
        BY <2>1, <2>2, <2>3, <2>4
<1>2. UNCHANGED core
    BY DEF core, SetThreshold, ChangePermission, SpendBalance, ArchiveProfile
<1> QED
    BY <1>1, <1>2, Frame

(* Without refunds there is nothing to violate.                            *)
LEMMA InitStep == Init => IInv
<1> SUFFICES ASSUME Init PROVE IInv
    OBVIOUS
<1>1. TypeOK
    <2>1. wallet \in BOOLEAN /\ archived \in BOOLEAN
        BY DEF Init
    <2>2. threshold \in Nat /\ changes \in 0 .. MaxChanges
        BY BoundsAssumption DEF Init
    <2>3. invoice \in [Invoices -> [state: InvoiceStates, refunded: Nat]]
        BY DEF Init, InvoiceStates
    <2>4. /\ refund \in [Refunds -> RefundRow \cup {None}]
          /\ job \in [Refunds -> JobRow \cup {None}]
          /\ credits \in [Refunds -> Nat]
          /\ transfer \in [Refunds -> OpenTransfer \cup {None}]
        BY DEF Init
    <2>5. retry \subseteq Refunds \X Staff /\ finance \subseteq Staff
        BY DEF Init
    <2> QED
        BY <2>1, <2>2, <2>3, <2>4, <2>5 DEF TypeOK
<1>2. /\ MoneyOutOnce /\ PaidWithTwoMembers /\ JobMatchesRefund
      /\ OneTransferPerReference /\ ObligationsAreUnreviewed
    BY DEF Init, MoneyOutOnce, PaidWithTwoMembers, JobMatchesRefund, JobMatches,
       OneTransferPerReference, ObligationsAreUnreviewed, Exists
<1>3. /\ OpenTransfersAreApproved /\ OpenReferencesAreFree
      /\ ReconciledIsCompleted /\ RetriesAreObligations
    BY DEF Init, OpenTransfersAreApproved, OpenReferencesAreFree,
       ReconciledIsCompleted, RetriesAreObligations, Exists
<1> QED
    BY <1>1, <1>2, <1>3 DEF IInv

(* Every step of the refund service, the worker and the rest keeps IInv.   *)
LEMMA NextStep == IInv /\ [Next]_vars => IInv'
<1> SUFFICES ASSUME IInv, [Next]_vars PROVE IInv'
    OBVIOUS
<1>1. CASE UNCHANGED vars
    <2>1. TypeOK' /\ UNCHANGED core
        BY <1>1 DEF vars, core, IInv, TypeOK
    <2> QED
        BY <2>1, Frame
<1>2. ASSUME NEW r \in Refunds, NEW s \in Staff,
             \/ Request(r, s)
             \/ RequestReplay(r, s)
             \/ CreateObligation(r, s)
             \/ \E d \in {"approve", "reject"} : ReviewApproval(r, s, d)
             \/ Approve(r, s)
             \/ \E to \in {"Rejected", "Cancelled"} : Dismiss(r, s, to)
             \/ Process(r, s)
             \/ \E ref \in BankRefs :
                   RecordTransfer(r, s, ref) \/ Reconcile(r, s, ref)
             \/ RunManual(r, s)
             \/ RetryLost(r, s)
      PROVE  IInv'
    BY <1>2, RequestStep, RequestReplayStep, CreateObligationStep,
       ReviewApprovalStep, ApproveStep, DismissStep, ProcessStep,
       RecordTransferStep, ReconcileStep, RunManualStep, RetryLostStep
<1>3. ASSUME NEW r \in Refunds,
             CommitTransfer(r) \/ AbortTransfer(r) \/ Worker(r)
      PROVE  IInv'
    BY <1>3, CommitTransferStep, AbortTransferStep, RunDueStep,
       BackoffPassesStep DEF Worker
<1> QED
    BY <1>1, <1>2, <1>3, EnvironmentStep DEF Next

(* The inductive invariant holds in every reachable state.                 *)
LEMMA Inductive == Spec => []IInv
BY InitStep, NextStep, PTL DEF Spec

(* Type correctness of the refund tables and of the transactions under way.*)
THEOREM TypeCorrect == Spec => []TypeOK
<1>1. IInv => TypeOK
    BY DEF IInv
<1> QED
    BY <1>1, Inductive, PTL

(* A wallet refund is credited exactly when it is Completed, once, however *)
(* many attempts of process, the worker and manual retries race; a bank    *)
(* refund has its reference exactly while it is being or has been paid.    *)
THEOREM PaidOnce == Spec => []MoneyOutOnce
<1>1. IInv => MoneyOutOnce
    BY DEF IInv
<1> QED
    BY <1>1, Inductive, PTL

(* No change of policy or permission lets a refund be paid without the     *)
(* approval once asked for, or a transfer be reconciled by its recorder.   *)
THEOREM TwoMembers == Spec => []PaidWithTwoMembers
<1>1. IInv => PaidWithTwoMembers
    BY DEF IInv
<1> QED
    BY <1>1, Inductive, PTL

(* The retry job and the refund never drift apart.                         *)
THEOREM JobsMatch == Spec => []JobMatchesRefund
<1>1. IInv => JobMatchesRefund
    BY DEF IInv
<1> QED
    BY <1>1, Inductive, PTL

(* The advisory lock makes bank references unique without a unique index.  *)
THEOREM UniqueReference == Spec => []OneTransferPerReference
<1>1. IInv => OneTransferPerReference
    BY DEF IInv
<1> QED
    BY <1>1, Inductive, PTL

-------------------------------------------------------------------------------
(***************************************************************************)
(* The budget.  What matters of a step to the sums over refunds is whether *)
(* a refund opens, is dismissed or is completed (Effects); one refund at a *)
(* time does.  Sums are over finite sets, so the invariant also says that  *)
(* finitely many refunds are open or completed, however many keys exist.   *)
(***************************************************************************)

OpenStates == {"Requested", "Approved", "Processing", "Failed"}

Open == {r \in Refunds : Exists(r) /\ refund[r].state \in OpenStates}

Returned == {r \in Refunds : Exists(r) /\ refund[r].state = "Completed"}

Dropped == {r \in Refunds : Exists(r) /\ refund[r].state \in {"Rejected", "Cancelled"}}

Of(i, set) == {r \in set : Terms[r].invoice = i}

Opens(r) ==
    /\ r \notin Open /\ r \notin Returned /\ r \notin Dropped
    /\ Terms[r].amount <= AvailableToRefund(Terms[r].invoice)
    /\ Open' = Open \cup {r}
    /\ UNCHANGED <<Returned, Dropped, invoice>>

Closes(r) ==
    /\ r \in Open /\ r \notin Returned
    /\ Open' = Open \ {r}
    /\ Dropped' = Dropped \cup {r}
    /\ UNCHANGED <<Returned, invoice>>

Completes(r) ==
    /\ r \in Open /\ r \notin Returned
    /\ Open' = Open \ {r}
    /\ Returned' = Returned \cup {r}
    /\ invoice' = InvoiceAfter(r)
    /\ UNCHANGED Dropped

(* The new row of r decides which sets r is in; the others stay put.       *)
LEMMA RowChange ==
    ASSUME NEW r \in Refunds, \A q \in Refunds : q # r => refund'[q] = refund[q]
    PROVE  /\ Open' = IF refund'[r] # None /\ refund'[r].state \in OpenStates
                      THEN Open \cup {r} ELSE Open \ {r}
           /\ Returned' = IF refund'[r] # None /\ refund'[r].state = "Completed"
                          THEN Returned \cup {r} ELSE Returned \ {r}
           /\ Dropped' = IF refund'[r] # None /\ refund'[r].state \in {"Rejected", "Cancelled"}
                         THEN Dropped \cup {r} ELSE Dropped \ {r}
BY DEF Open, Returned, Dropped, Exists

(* A row that stays open or stays out changes nothing.                     *)
LEMMA RowKeeps ==
    ASSUME NEW r \in Refunds, \A q \in Refunds : q # r => refund'[q] = refund[q],
           Exists(r), refund'[r] # None,
           \/ refund'[r].state = refund[r].state
           \/ refund'[r].state \in OpenStates /\ refund[r].state \in OpenStates
    PROVE  UNCHANGED <<Open, Returned, Dropped>>
BY DEF Open, Returned, Dropped, Exists, OpenStates

(* request and the obligations open a refund within what is available.     *)
LEMMA OpeningStep ==
    ASSUME IInv, IInv', NEW r \in Refunds, NEW s \in Staff,
           Request(r, s) \/ CreateObligation(r, s)
    PROVE  Opens(r)
<1>1. /\ ~Exists(r) /\ invoice' = invoice
      /\ Terms[r].amount <= AvailableToRefund(Terms[r].invoice)
      /\ \A q \in Refunds : q # r => refund'[q] = refund[q]
    BY DEF Request, CreateObligation, IInv, TypeOK
<1>2. refund'[r] # None /\ refund'[r].state \in OpenStates
    <2>1. PICK state \in OpenStates, staff \in Staff \cup {None},
               authority \in Staff \cup {None}, approval \in {"none", "pending"} :
              refund'[r] = NewRefund(state, staff, authority, approval)
        <3>1. CASE Request(r, s)
            BY <3>1 DEF Request, IInv, TypeOK, OpenStates
        <3>2. CASE CreateObligation(r, s)
            BY <3>2 DEF CreateObligation, IInv, TypeOK, OpenStates
        <3> QED
            BY <3>1, <3>2
    <2>2. refund'[r] \in RefundRow /\ refund'[r].state = state
        BY <2>1 DEF NewRefund, RefundRow, States, OpenStates
    <2> QED
        BY <2>2, NoneNotMember
<1>3. r \notin Open /\ r \notin Returned /\ r \notin Dropped
    BY <1>1 DEF Open, Returned, Dropped
<1>4. refund'[r].state \notin {"Completed", "Rejected", "Cancelled"}
    BY <1>2 DEF OpenStates
<1>5. /\ Open' = Open \cup {r}
      /\ Returned' = Returned \ {r} /\ Dropped' = Dropped \ {r}
    BY <1>1, <1>2, <1>4, RowChange
<1> QED
    BY <1>1, <1>3, <1>5 DEF Opens

(* reject and cancel give the amount up.                                   *)
LEMMA ClosingStep ==
    ASSUME IInv, IInv', NEW r \in Refunds, NEW s \in Staff,
           NEW to \in {"Rejected", "Cancelled"}, Dismiss(r, s, to)
    PROVE  Closes(r)
<1>1. /\ Exists(r) /\ invoice' = invoice
      /\ \A q \in Refunds : q # r => refund'[q] = refund[q]
      /\ refund'[r].state = to /\ refund[r].state \in OpenStates
    BY DEF Dismiss, Move, IInv, TypeOK, OpenStates, REFUND_TRANSITIONS,
       RefundRow, States, Exists
<1>2. r \in Open /\ r \notin Returned
    BY <1>1 DEF Open, Returned, OpenStates
<1>3. refund'[r] # None
    BY <1>1, NoneNotMember DEF IInv, TypeOK, Dismiss, Move, RefundRow, States, Exists
<1>4. /\ Open' = Open \ {r} /\ Returned' = Returned \ {r}
      /\ Dropped' = Dropped \cup {r}
    BY <1>1, <1>3, RowChange DEF OpenStates
<1> QED
    BY <1>1, <1>2, <1>4 DEF Closes

(* A completion comes with the new totals of the invoice.                  *)
LEMMA CompletingStep ==
    ASSUME IInv, IInv', NEW r \in Refunds,
           Exists(r), refund[r].state \in {"Processing", "Failed"},
           \A q \in Refunds : q # r => refund'[q] = refund[q],
           refund'[r] # None, refund'[r].state = "Completed",
           invoice' = InvoiceAfter(r)
    PROVE  Completes(r)
<1>1. r \in Open /\ r \notin Returned /\ r \notin Dropped
    BY DEF Open, Returned, Dropped, OpenStates
<1>2. /\ Open' = Open \ {r} /\ Returned' = Returned \cup {r}
      /\ Dropped' = Dropped \ {r}
    BY RowChange DEF OpenStates
<1> QED
    BY <1>1, <1>2 DEF Completes

(* An attempt completes the refund or leaves it open.                      *)
LEMMA PayingStep ==
    ASSUME IInv, IInv', NEW r \in Refunds, Exists(r),
           refund[r].state \in {"Processing", "Failed"},
           PostRefund(r) \/ FailRefund(r)
    PROVE  UNCHANGED <<Open, Returned, Dropped, invoice>> \/ Completes(r)
<1>1. /\ \A q \in Refunds : q # r => refund'[q] = refund[q]
      /\ refund'[r] \in RefundRow
    BY DEF PostRefund, FailRefund, IInv, TypeOK, RefundRow, States, Exists
<1>2. refund'[r] # None
    BY <1>1, NoneNotMember
<1>3. CASE PostRefund(r)
    <2>1. refund'[r].state = "Completed"
        BY <1>3 DEF PostRefund, IInv, TypeOK, Exists, RefundRow
    <2> QED
        BY <1>1, <1>2, <1>3, <2>1, CompletingStep DEF PostRefund
<1>4. CASE FailRefund(r)
    <2>1. refund'[r].state = "Failed"
        BY <1>4 DEF FailRefund, IInv, TypeOK, Exists, RefundRow
    <2>2. UNCHANGED <<Open, Returned, Dropped>>
        BY <1>1, <1>2, <2>1, RowKeeps DEF OpenStates
    <2> QED
        BY <1>4, <2>2 DEF FailRefund
<1> QED
    BY <1>3, <1>4

(* The other operations on refunds neither open nor close one.             *)
LEMMA WorkingStep ==
    ASSUME IInv, IInv', NEW r \in Refunds, NEW s \in Staff,
           \/ RequestReplay(r, s)
           \/ \E d \in {"approve", "reject"} : ReviewApproval(r, s, d)
           \/ Approve(r, s)
           \/ Process(r, s)
           \/ CommitTransfer(r)
    PROVE  UNCHANGED <<Open, Returned, Dropped, invoice>>
<1>1. Exists(r)
    BY DEF RequestReplay, ReviewApproval, Approve, Process, CommitTransfer, IInv,
           OpenTransfersAreApproved
<1>2. refund[r] \in RefundRow
    BY <1>1 DEF IInv, TypeOK, Exists
<1>3. \A q \in Refunds : q # r => refund'[q] = refund[q]
    BY DEF RequestReplay, ReviewApproval, Approve, Move, Process, CommitTransfer,
           IInv, TypeOK
<1>4. \/ refund'[r].state = refund[r].state
      \/ refund'[r].state \in OpenStates /\ refund[r].state \in OpenStates
    <2>1. CASE RequestReplay(r, s) \/ \E d \in {"approve", "reject"} : ReviewApproval(r, s, d)
        BY <1>2, <2>1 DEF RequestReplay, ReviewApproval, IInv, TypeOK, RefundRow
    <2>2. CASE Approve(r, s)
        BY <1>2, <2>2
        DEF Approve, Move, IInv, TypeOK, RefundRow, States, REFUND_TRANSITIONS, OpenStates
    <2>3. CASE Process(r, s)
        BY <1>2, <2>3 DEF Process, IInv, TypeOK, RefundRow, OpenStates
    <2>4. CASE CommitTransfer(r)
        BY <1>2, <2>4
        DEF CommitTransfer, IInv, TypeOK, RefundRow, OpenStates, OpenTransfersAreApproved
    <2> QED
        BY <2>1, <2>2, <2>3, <2>4
<1>5. refund'[r] # None
    <2>1. CASE RequestReplay(r, s)
        <3>1. refund'[r] = [refund[r] EXCEPT !.approval = "pending"]
            BY <2>1 DEF RequestReplay, IInv, TypeOK
        <3> QED
            BY <1>2, <3>1, NoneNotMember DEF RefundRow
    <2>2. CASE \E d \in {"approve", "reject"} : ReviewApproval(r, s, d)
        <3>1. PICK a \in {"approved", "rejected"} :
                  refund'[r] = [refund[r] EXCEPT !.approval = a, !.reviewer = s]
            BY <1>2, <2>2 DEF ReviewApproval, ReviewStatus, IInv, TypeOK, RefundRow
        <3>2. refund'[r] \in RefundRow
            BY <1>2, <3>1 DEF RefundRow
        <3> QED
            BY <3>2, NoneNotMember
    <2>3. CASE Approve(r, s) \/ Process(r, s)
        <3>1. PICK state \in States : refund'[r] = [refund[r] EXCEPT !.state = state]
            <4>1. CASE Approve(r, s)
                BY <4>1 DEF Approve, Move, IInv, TypeOK, States
            <4>2. CASE Process(r, s)
                BY <1>2, <4>2 DEF Process, IInv, TypeOK, RefundRow, States
            <4> QED
                BY <2>3, <4>1, <4>2
        <3> QED
            BY <1>2, <3>1, NoneNotMember DEF RefundRow
    <2>4. CASE CommitTransfer(r)
        <3>1. transfer[r].ref \in BankRefs /\ transfer[r].staff \in Staff
            BY <2>4 DEF CommitTransfer, IInv, TypeOK, OpenTransfer
        <3>2. refund'[r] = [refund[r] EXCEPT !.state = "Processing",
                                             !.bank_reference = transfer[r].ref,
                                             !.recordedBy = transfer[r].staff]
            BY <2>4 DEF CommitTransfer, IInv, TypeOK
        <3>3. refund'[r] \in RefundRow
            BY <1>2, <3>1, <3>2 DEF RefundRow, States
        <3> QED
            BY <3>3, NoneNotMember
    <2> QED
        BY <2>1, <2>2, <2>3, <2>4
<1>6. invoice' = invoice
    BY DEF RequestReplay, ReviewApproval, Approve, Process, CommitTransfer
<1> QED
    BY <1>1, <1>3, <1>4, <1>5, <1>6, RowKeeps

LEMMA Effects ==
    ASSUME IInv, IInv', [Next]_vars
    PROVE  \/ UNCHANGED <<Open, Returned, Dropped, invoice>>
           \/ \E r \in Refunds : Opens(r) \/ Closes(r) \/ Completes(r)
<1>1. ASSUME UNCHANGED <<refund, invoice>>
      PROVE  UNCHANGED <<Open, Returned, Dropped, invoice>>
    BY <1>1 DEF Open, Returned, Dropped, Exists
<1>2. ASSUME NEW r \in Refunds, NEW s \in Staff, NEW ref \in BankRefs,
             Reconcile(r, s, ref)
      PROVE  Completes(r)
    <2>1. /\ Exists(r) /\ refund[r].state = "Processing"
          /\ invoice' = InvoiceAfter(r)
          /\ \A q \in Refunds : q # r => refund'[q] = refund[q]
          /\ refund[r] \in RefundRow
        BY <1>2 DEF Reconcile, IInv, TypeOK, Exists
    <2>2. refund'[r] \in RefundRow /\ refund'[r].state = "Completed"
        BY <1>2, <2>1 DEF Reconcile, IInv, TypeOK, RefundRow, States
    <2> QED
        BY <2>1, <2>2, NoneNotMember, CompletingStep
<1>3. ASSUME NEW r \in Refunds, NEW s \in Staff, RunManual(r, s)
      PROVE  UNCHANGED <<Open, Returned, Dropped, invoice>> \/ Completes(r)
    <2>1. Exists(r) /\ refund[r].state = "Failed"
        BY <1>3 DEF RunManual, IInv, JobMatchesRefund, JobMatches
    <2> QED
        BY <1>3, <2>1, PayingStep DEF RunManual
<1>4. ASSUME NEW r \in Refunds, RunDue(r)
      PROVE  UNCHANGED <<Open, Returned, Dropped, invoice>> \/ Completes(r)
    <2>1. Exists(r)
        BY <1>4 DEF RunDue, JobIsDue, IInv, JobMatchesRefund, JobMatches
    <2> QED
        BY <1>4, <2>1, PayingStep DEF RunDue
<1>5. CASE \/ \E n \in Thresholds : SetThreshold(n)
           \/ \E s \in Staff : ChangePermission(s)
           \/ SpendBalance
           \/ ArchiveProfile
    BY <1>1, <1>5 DEF SetThreshold, ChangePermission, SpendBalance, ArchiveProfile
<1>6. CASE UNCHANGED vars
    BY <1>1, <1>6 DEF vars
<1>7. ASSUME NEW r \in Refunds, AbortTransfer(r) \/ BackoffPasses(r)
      PROVE  UNCHANGED <<refund, invoice>>
    BY <1>7 DEF AbortTransfer, BackoffPasses
<1>8. ASSUME NEW r \in Refunds, CommitTransfer(r)
      PROVE  UNCHANGED <<Open, Returned, Dropped, invoice>>
    <2>1. PICK s \in Staff : s = transfer[r].staff
        BY <1>8 DEF CommitTransfer, IInv, TypeOK, OpenTransfer
    <2> QED
        BY <1>8, WorkingStep
<1>9. CASE Next
    <2>1. CASE \E r \in Refunds : CommitTransfer(r) \/ AbortTransfer(r) \/ Worker(r)
        BY <1>1, <1>4, <1>7, <1>8, <2>1 DEF Worker
    <2>2. ASSUME NEW r \in Refunds, NEW s \in Staff,
                 \/ Request(r, s)
                 \/ RequestReplay(r, s)
                 \/ CreateObligation(r, s)
                 \/ \E d \in {"approve", "reject"} : ReviewApproval(r, s, d)
                 \/ Approve(r, s)
                 \/ \E to \in {"Rejected", "Cancelled"} : Dismiss(r, s, to)
                 \/ Process(r, s)
                 \/ \E ref \in BankRefs :
                       RecordTransfer(r, s, ref) \/ Reconcile(r, s, ref)
                 \/ RunManual(r, s)
                 \/ RetryLost(r, s)
          PROVE  \/ UNCHANGED <<Open, Returned, Dropped, invoice>>
                 \/ Opens(r) \/ Closes(r) \/ Completes(r)
        <3>1. CASE Request(r, s) \/ CreateObligation(r, s)
            BY <3>1, OpeningStep
        <3>2. CASE \E to \in {"Rejected", "Cancelled"} : Dismiss(r, s, to)
            BY <3>2, ClosingStep
        <3>3. CASE \/ RequestReplay(r, s)
                   \/ \E d \in {"approve", "reject"} : ReviewApproval(r, s, d)
                   \/ Approve(r, s)
                   \/ Process(r, s)
            BY <3>3, WorkingStep
        <3>4. CASE \E ref \in BankRefs : Reconcile(r, s, ref)
            BY <1>2, <3>4
        <3>5. CASE RunManual(r, s)
            BY <1>3, <3>5
        <3>6. CASE RetryLost(r, s) \/ \E ref \in BankRefs : RecordTransfer(r, s, ref)
            <4>1. UNCHANGED <<refund, invoice>>
                <5>1. CASE RetryLost(r, s)
                    BY <5>1 DEF RetryLost
                <5>2. CASE \E ref \in BankRefs : RecordTransfer(r, s, ref)
                    BY <5>2 DEF RecordTransfer
                <5> QED
                    BY <3>6, <5>1, <5>2
            <4> QED
                BY <1>1, <4>1
        <3> QED
            BY <2>2, <3>1, <3>2, <3>3, <3>4, <3>5, <3>6
    <2> QED
        BY <1>5, <1>9, <2>1, <2>2 DEF Next
<1> QED
    BY <1>6, <1>9

-------------------------------------------------------------------------------
(* The budget and the agreement, in terms of the two sets.                 *)
WithinBudget(i) == invoice[i].refunded + TotalOf(Of(i, Open)) <= Paid[i]

Agrees(i) ==
    /\ invoice[i].refunded = TotalOf(Of(i, Returned))
    /\ invoice[i].state =
          IF Of(i, Returned) = {} THEN IF i \in Funded THEN "Paid"
                                                      ELSE "PartiallyFunded"
          ELSE IF invoice[i].refunded = Paid[i] THEN "Refunded"
                                                ELSE "PartiallyRefunded"

BudgetInv ==
    /\ IsFiniteSet(Open)
    /\ IsFiniteSet(Returned)
    /\ \A i \in Invoices : WithinBudget(i) /\ Agrees(i)

(* Adding a refund to a set adds its amount to the total.                  *)
LEMMA TotalWith ==
    ASSUME NEW S \in SUBSET Refunds, IsFiniteSet(S), NEW r \in Refunds, r \notin S
    PROVE  /\ TotalOf(S) \in Nat /\ Terms[r].amount \in Nat \ {0}
           /\ TotalOf(S \cup {r}) = TotalOf(S) + Terms[r].amount
<1>1. \A x \in S \cup {r} : Amount[x] \in Nat
    BY TermsAssumption DEF Amount, Term
<1>2. IsFiniteSet(S \cup {r})
    BY FS_AddElement
<1>3. (S \cup {r}) \ {r} = S
    OBVIOUS
<1>4. TotalOf(S \cup {r}) = Amount[r] + TotalOf(S)
    BY <1>1, <1>2, <1>3, SumTake DEF TotalOf
<1>5. TotalOf(S) \in Nat
    BY <1>1, SumNat DEF TotalOf
<1>6. Amount[r] = Terms[r].amount /\ Terms[r].amount \in Nat \ {0}
    BY TermsAssumption DEF Amount, Term
<1> QED
    BY <1>4, <1>5, <1>6

LEMMA Restated == BudgetInv => BudgetKept /\ InvoiceAgrees
<1>1. \A i : Of(i, Open) = {r \in Refunds : /\ Exists(r) /\ Terms[r].invoice = i
                                           /\ refund[r].state \in OpenStates}
    BY DEF Of, Open
<1>2. \A i : Of(i, Returned) = {r \in Refunds : /\ Exists(r) /\ Terms[r].invoice = i
                                               /\ refund[r].state = "Completed"}
    BY DEF Of, Returned
<1>3. BudgetInv => BudgetKept
    BY <1>1 DEF BudgetInv, WithinBudget, BudgetKept, OpenStates
<1>4. BudgetInv => InvoiceAgrees
    BY <1>2 DEF BudgetInv, Agrees, InvoiceAgrees
<1> QED
    BY <1>3, <1>4

(* What is reserved of an invoice is what its open refunds may claim.      *)
LEMMA ReservedIsOpen ==
    ASSUME TypeOK, NEW i
    PROVE  Reserved(i) = TotalOf(Of(i, Open))
<1>1. \A r \in Refunds : Exists(r) =>
          refund[r].state \in {"Requested", "Approved", "Processing", "Completed",
                              "Failed", "Rejected", "Cancelled"}
    BY DEF TypeOK, Exists, RefundRow, States
<1>2. Of(i, Open) = {r \in Refunds : /\ Exists(r) /\ Terms[r].invoice = i
                       /\ refund[r].state \notin {"Completed", "Rejected", "Cancelled"}}
    BY <1>1 DEF Of, Open, OpenStates
<1> QED
    BY <1>2 DEF Reserved, AmountOutside

(* The refunds of one invoice when a set gains or loses a refund.          *)
LEMMA OfChange ==
    ASSUME NEW S, NEW r, NEW i
    PROVE  /\ Of(i, S \cup {r}) = IF Terms[r].invoice = i THEN Of(i, S) \cup {r}
                                                        ELSE Of(i, S)
           /\ Of(i, S \ {r}) = Of(i, S) \ {r}
           /\ r \in S /\ Terms[r].invoice = i => r \in Of(i, S)
           /\ r \notin S => r \notin Of(i, S)
           /\ Terms[r].invoice # i => r \notin Of(i, S)
BY DEF Of

LEMMA BudgetInit == Init => BudgetInv
<1> SUFFICES ASSUME Init PROVE BudgetInv
    OBVIOUS
<1>1. Open = {} /\ Returned = {}
    BY DEF Init, Open, Returned, Exists
<1>2. \A i : Of(i, {}) = {}
    BY DEF Of
<1>3. TotalOf({}) = 0
    BY SumEquation, FS_EmptySet DEF TotalOf
<1>4. ASSUME NEW i \in Invoices PROVE WithinBudget(i) /\ Agrees(i)
    <2>1. Paid[i] \in Nat
        BY PaidAssumption
    <2>2. /\ invoice[i].refunded = 0
          /\ invoice[i].state = IF i \in Funded THEN "Paid" ELSE "PartiallyFunded"
        BY DEF Init
    <2> QED
        BY <1>1, <1>2, <1>3, <2>1, <2>2 DEF WithinBudget, Agrees
<1> QED
    BY <1>1, <1>4, FS_EmptySet DEF BudgetInv

LEMMA BudgetOpens ==
    ASSUME IInv, BudgetInv, NEW r \in Refunds, Opens(r)
    PROVE  BudgetInv'
<1>1. IsFiniteSet(Open') /\ IsFiniteSet(Returned')
    BY FS_AddElement DEF BudgetInv, Opens
<1> SUFFICES ASSUME NEW i \in Invoices PROVE WithinBudget(i)' /\ Agrees(i)'
    BY <1>1 DEF BudgetInv
<1>2. WithinBudget(i)'
    <2>1. invoice[i].refunded + TotalOf(Of(i, Open)) <= Paid[i]
        BY DEF BudgetInv, WithinBudget
    <2>2. CASE Terms[r].invoice # i
        <3>1. Of(i, Open') = Of(i, Open)
            BY <2>2, OfChange DEF Opens
        <3> QED
            BY <2>1, <3>1 DEF Opens, WithinBudget
    <2>3. CASE Terms[r].invoice = i
        <3>1. IsFiniteSet(Of(i, Open)) /\ Of(i, Open) \in SUBSET Refunds
            BY FS_Subset DEF Of, Open, BudgetInv
        <3>2. r \notin Of(i, Open) /\ Of(i, Open') = Of(i, Open) \cup {r}
            BY <2>3, OfChange DEF Opens
        <3>3. /\ TotalOf(Of(i, Open)) \in Nat /\ Terms[r].amount \in Nat
              /\ TotalOf(Of(i, Open')) = TotalOf(Of(i, Open)) + Terms[r].amount
            BY <3>1, <3>2, TotalWith
        <3>4. Terms[r].amount <= Paid[i] - invoice[i].refunded - TotalOf(Of(i, Open))
            BY <2>3, ReservedIsOpen DEF Opens, AvailableToRefund, IInv
        <3>5. Paid[i] \in Nat /\ invoice[i].refunded \in Nat
            BY PaidAssumption DEF IInv, TypeOK
        <3>6. invoice[i].refunded + TotalOf(Of(i, Open')) <= Paid[i]
            BY <3>3, <3>4, <3>5
        <3> QED
            BY <3>6 DEF Opens, WithinBudget
    <2> QED
        BY <2>2, <2>3
<1>3. Agrees(i)'
    BY DEF BudgetInv, Opens, Agrees
<1> QED
    BY <1>2, <1>3

LEMMA BudgetCloses ==
    ASSUME IInv, BudgetInv, NEW r \in Refunds, Closes(r)
    PROVE  BudgetInv'
<1>1. IsFiniteSet(Open') /\ IsFiniteSet(Returned')
    BY FS_Subset DEF BudgetInv, Closes
<1> SUFFICES ASSUME NEW i \in Invoices PROVE WithinBudget(i)' /\ Agrees(i)'
    BY <1>1 DEF BudgetInv
<1>2. WithinBudget(i)'
    <2>1. invoice[i].refunded + TotalOf(Of(i, Open)) <= Paid[i]
        BY DEF BudgetInv, WithinBudget
    <2>2. /\ Of(i, Open) \in SUBSET Refunds /\ IsFiniteSet(Of(i, Open))
          /\ Of(i, Open') \in SUBSET Of(i, Open) /\ IsFiniteSet(Of(i, Open'))
        <3>1. Of(i, Open) \in SUBSET Open /\ Of(i, Open') \in SUBSET Of(i, Open)
            BY DEF Of, Closes
        <3>2. IsFiniteSet(Open) /\ Open \in SUBSET Refunds
            BY DEF Open, BudgetInv
        <3> QED
            BY <3>1, <3>2, FS_Subset
    <2>3. TotalOf(Of(i, Open')) <= TotalOf(Of(i, Open))
        <3>1. \A x \in Of(i, Open) : Amount[x] \in Nat
            BY <2>2, TermsAssumption DEF Amount, Term
        <3> QED
            BY <2>2, <3>1, SumSubset DEF TotalOf
    <2>4. TotalOf(Of(i, Open')) \in Nat /\ TotalOf(Of(i, Open)) \in Nat
        <3>1. \A x \in Of(i, Open) : Amount[x] \in Nat
            BY <2>2, TermsAssumption DEF Amount, Term
        <3> QED
            BY <2>2, <3>1, FS_Subset, SumNat DEF TotalOf
    <2>5. Paid[i] \in Nat /\ invoice[i].refunded \in Nat
        BY PaidAssumption DEF IInv, TypeOK
    <2>6. invoice[i].refunded + TotalOf(Of(i, Open')) <= Paid[i]
        BY <2>1, <2>3, <2>4, <2>5
    <2> QED
        BY <2>6 DEF Closes, WithinBudget
<1>3. Agrees(i)'
    BY DEF BudgetInv, Closes, Agrees
<1> QED
    BY <1>2, <1>3

(* A completion moves the amount from what is open to what is returned.    *)
LEMMA BudgetCompletes ==
    ASSUME IInv, BudgetInv, NEW r \in Refunds, Completes(r)
    PROVE  BudgetInv'
<1>1. IsFiniteSet(Open') /\ IsFiniteSet(Returned')
    BY FS_Subset, FS_AddElement DEF BudgetInv, Completes
<1> SUFFICES ASSUME NEW i \in Invoices PROVE WithinBudget(i)' /\ Agrees(i)'
    BY <1>1 DEF BudgetInv
<1> DEFINE open == Of(i, Open) \ {r}
           returned == Of(i, Returned)
<1>2. WithinBudget(i) /\ Agrees(i)
    BY DEF BudgetInv
<1>3. /\ IsFiniteSet(open) /\ open \in SUBSET Refunds /\ r \notin open
      /\ IsFiniteSet(returned) /\ returned \in SUBSET Refunds /\ r \notin returned
    BY FS_Subset DEF Of, Open, Returned, BudgetInv, Completes
<1>4. /\ invoice[i].refunded \in Nat /\ invoice \in [Invoices ->
            [state: InvoiceStates, refunded: Nat]]
      /\ Terms[r].invoice \in Invoices
    BY TermsAssumption DEF IInv, TypeOK, Term
<1>5. CASE Terms[r].invoice # i
    <2>1. Of(i, Open') = Of(i, Open) /\ Of(i, Returned') = Of(i, Returned)
        <3>1. Of(i, Open) \ {r} = Of(i, Open)
            BY <1>5 DEF Of
        <3> QED
            BY <1>5, <3>1, OfChange DEF Completes
    <2>2. invoice'[i] = invoice[i]
        BY <1>4, <1>5 DEF Completes, InvoiceAfter
    <2> QED
        BY <1>2, <2>1, <2>2 DEF WithinBudget, Agrees
<1>6. CASE Terms[r].invoice = i
    <2>1. Of(i, Open) = open \cup {r} /\ Of(i, Open') = open
        <3>1. Open' = Open \ {r} /\ r \in Open
            BY DEF Completes
        <3>2. Of(i, Open') = open
            BY <3>1, OfChange
        <3>3. r \in Of(i, Open)
            BY <1>6, <3>1, OfChange
        <3> QED
            BY <3>2, <3>3
    <2>2. Of(i, Returned') = returned \cup {r}
        BY <1>6, OfChange DEF Completes
    <2>3. /\ TotalOf(open) \in Nat /\ Terms[r].amount \in Nat
          /\ TotalOf(Of(i, Open)) = TotalOf(open) + Terms[r].amount
        BY <1>3, <2>1, TotalWith
    <2>4. TotalOf(Of(i, Returned')) = TotalOf(returned) + Terms[r].amount
        BY <1>3, <2>2, TotalWith
    <2> DEFINE total == invoice[i].refunded + Terms[r].amount
    <2>5. /\ invoice'[i].refunded = total
          /\ invoice'[i].state = IF total = Paid[i] THEN "Refunded"
                                                    ELSE "PartiallyRefunded"
        BY <1>4, <1>6 DEF Completes, InvoiceAfter
    <2>6. WithinBudget(i)'
        <3>1. invoice[i].refunded + (TotalOf(open) + Terms[r].amount) <= Paid[i]
            BY <1>2, <2>3 DEF WithinBudget
        <3>2. total + TotalOf(open) <= Paid[i]
            BY <1>4, <2>3, <3>1, PaidAssumption
        <3> QED
            BY <2>1, <2>5, <3>2 DEF WithinBudget
    <2>7. Agrees(i)'
        <3>1. invoice[i].refunded = TotalOf(returned)
            BY <1>2 DEF Agrees
        <3>2. total = TotalOf(Of(i, Returned'))
            BY <2>4, <3>1
        <3>3. Of(i, Returned') # {}
            BY <2>2
        <3> QED
            BY <2>5, <3>2, <3>3 DEF Agrees
    <2> QED
        BY <2>6, <2>7
<1> QED
    BY <1>5, <1>6

LEMMA BudgetStep == IInv /\ IInv' /\ BudgetInv /\ [Next]_vars => BudgetInv'
<1> SUFFICES ASSUME IInv, IInv', BudgetInv, [Next]_vars PROVE BudgetInv'
    OBVIOUS
<1>1. CASE UNCHANGED <<Open, Returned, Dropped, invoice>>
    BY <1>1 DEF BudgetInv, WithinBudget, Agrees
<1> QED
    BY <1>1, Effects, BudgetOpens, BudgetCloses, BudgetCompletes

LEMMA BudgetInductive == Spec => []BudgetInv
BY BudgetInit, BudgetStep, Inductive, PTL DEF Spec

(* However requests, obligations, failures and retries interleave, what an *)
(* invoice has returned and may still return stays within what was paid.   *)
THEOREM WithinThePaid == Spec => []BudgetKept
BY BudgetInductive, Restated, PTL

(* The totals and the state of an invoice are those of its completed       *)
(* refunds.                                                                *)
THEOREM InvoicesAgree == Spec => []InvoiceAgrees
BY BudgetInductive, Restated, PTL

-------------------------------------------------------------------------------
(***************************************************************************)
(* The abstract budget.  Open, Dropped and Returned are what RefundBudget  *)
(* calls claimed, dropped and paid; each effect of a step is one of its    *)
(* actions, and a step without effect leaves all it speaks of as it was.   *)
(***************************************************************************)

ReservedAmounts == [i \in Invoices |-> Reserved(i)]

ReturnedAmounts == [i \in Invoices |-> invoice[i].refunded]

LEMMA BudgetSets ==
    /\ InStates({"Requested", "Approved", "Processing", "Failed"}) = Open
    /\ InStates({"Rejected", "Cancelled"}) = Dropped
    /\ InStates({"Completed"}) = Returned
BY DEF InStates, Open, OpenStates, Dropped, Returned

LEMMA BudgetSetsNext ==
    /\ InStates({"Requested", "Approved", "Processing", "Failed"})' = Open'
    /\ InStates({"Rejected", "Cancelled"})' = Dropped'
    /\ InStates({"Completed"})' = Returned'
BY DEF InStates, Open, OpenStates, Dropped, Returned

LEMMA ReservedEverywhere ==
    TypeOK => \A i \in Invoices : ReservedAmounts[i] = TotalOf(Of(i, Open))
BY ReservedIsOpen DEF ReservedAmounts

LEMMA ReservedNext ==
    TypeOK' => \A i \in Invoices : ReservedAmounts'[i] = TotalOf(Of(i, Open'))
<1>1. TypeOK' => (\A i \in Invoices : ReservedAmounts[i] = TotalOf(Of(i, Open)))'
    BY ReservedEverywhere, PTL
<1> QED
    BY <1>1 DEF TotalOf, Of

(* The amount of a refund that opens, or that is open no more.             *)
LEMMA ReservedGrows ==
    ASSUME IInv, IInv', BudgetInv, NEW r \in Refunds,
           r \notin Open, Open' = Open \cup {r}
    PROVE  ReservedAmounts' =
               [ReservedAmounts EXCEPT ![Terms[r].invoice] = @ + Terms[r].amount]
<1>1. ASSUME NEW i \in Invoices
      PROVE  ReservedAmounts'[i] = IF i = Terms[r].invoice
                                   THEN ReservedAmounts[i] + Terms[r].amount
                                   ELSE ReservedAmounts[i]
    <2>1. /\ ReservedAmounts[i] = TotalOf(Of(i, Open))
          /\ ReservedAmounts'[i] = TotalOf(Of(i, Open'))
        BY ReservedEverywhere, ReservedNext DEF IInv
    <2>2. CASE i # Terms[r].invoice
        <3>1. Of(i, Open') = Of(i, Open)
            BY <2>2, OfChange
        <3> QED
            BY <2>1, <2>2, <3>1
    <2>3. CASE i = Terms[r].invoice
        <3>1. IsFiniteSet(Of(i, Open)) /\ Of(i, Open) \in SUBSET Refunds
            BY FS_Subset DEF Of, Open, BudgetInv
        <3>2. r \notin Of(i, Open) /\ Of(i, Open') = Of(i, Open) \cup {r}
            BY <2>3, OfChange
        <3> QED
            BY <2>1, <2>3, <3>1, <3>2, TotalWith
    <2> QED
        BY <2>2, <2>3
<1>2. ReservedAmounts' = [i \in Invoices |-> ReservedAmounts'[i]]
    BY DEF ReservedAmounts
<1>3. ReservedAmounts = [i \in Invoices |-> ReservedAmounts[i]]
    BY DEF ReservedAmounts
<1> QED
    BY <1>1, <1>2, <1>3

LEMMA ReservedShrinks ==
    ASSUME IInv, IInv', BudgetInv, NEW r \in Refunds,
           r \in Open, Open' = Open \ {r}
    PROVE  ReservedAmounts' =
               [ReservedAmounts EXCEPT ![Terms[r].invoice] = @ - Terms[r].amount]
<1>1. ASSUME NEW i \in Invoices
      PROVE  ReservedAmounts'[i] = IF i = Terms[r].invoice
                                   THEN ReservedAmounts[i] - Terms[r].amount
                                   ELSE ReservedAmounts[i]
    <2>1. /\ ReservedAmounts[i] = TotalOf(Of(i, Open))
          /\ ReservedAmounts'[i] = TotalOf(Of(i, Open'))
        BY ReservedEverywhere, ReservedNext DEF IInv
    <2>2. Of(i, Open') = Of(i, Open) \ {r}
        BY OfChange
    <2>3. CASE i # Terms[r].invoice
        <3>1. Of(i, Open') = Of(i, Open)
            BY <2>2, <2>3 DEF Of
        <3> QED
            BY <2>1, <2>3, <3>1
    <2>4. CASE i = Terms[r].invoice
        <3>1. IsFiniteSet(Of(i, Open')) /\ Of(i, Open') \in SUBSET Refunds
            BY <2>2, FS_Subset DEF Of, Open, BudgetInv
        <3>2. r \notin Of(i, Open') /\ Of(i, Open) = Of(i, Open') \cup {r}
            <4>1. r \in Of(i, Open)
                BY <2>4 DEF Of
            <4> QED
                BY <2>2, <4>1
        <3>3. /\ TotalOf(Of(i, Open')) \in Nat /\ Terms[r].amount \in Nat
              /\ TotalOf(Of(i, Open)) = TotalOf(Of(i, Open')) + Terms[r].amount
            BY <3>1, <3>2, TotalWith
        <3>4. TotalOf(Of(i, Open')) = TotalOf(Of(i, Open)) - Terms[r].amount
            BY <3>3
        <3> QED
            BY <2>1, <2>4, <3>4
    <2> QED
        BY <2>3, <2>4
<1>2. ReservedAmounts' = [i \in Invoices |-> ReservedAmounts'[i]]
    BY DEF ReservedAmounts
<1>3. ReservedAmounts = [i \in Invoices |-> ReservedAmounts[i]]
    BY DEF ReservedAmounts
<1> QED
    BY <1>1, <1>2, <1>3

LEMMA InitBudget == Init => Budget!Init
<1> SUFFICES ASSUME Init PROVE Budget!Init
    OBVIOUS
<1>1. Open = {} /\ Dropped = {} /\ Returned = {}
    BY DEF Init, Open, Dropped, Returned, Exists
<1>2. TypeOK
    BY InitStep DEF IInv
<1>3. ASSUME NEW i \in Invoices PROVE Reserved(i) = 0 /\ invoice[i].refunded = 0
    <2>1. Of(i, Open) = {}
        BY <1>1 DEF Of
    <2>2. TotalOf({}) = 0
        BY SumEquation, FS_EmptySet DEF TotalOf
    <2> QED
        BY <1>2, <2>1, <2>2, ReservedIsOpen DEF Init
<1> QED
    BY <1>1, <1>3, BudgetSets DEF Budget!Init

(* The rest of the budget when a refund opens, is dismissed, is completed. *)
LEMMA OpensClaims ==
    ASSUME IInv, IInv', BudgetInv, NEW r \in Refunds, Opens(r)
    PROVE  Budget!Claim(r)
<1>1. /\ Terms[r].invoice \in Invoices /\ Terms[r].amount \in Nat
      /\ Paid[Terms[r].invoice] \in Nat
    BY TermsAssumption, PaidAssumption DEF Term
<1>2. /\ invoice[Terms[r].invoice].refunded \in Nat
      /\ Reserved(Terms[r].invoice) \in Nat
    <2>1. IsFiniteSet(Of(Terms[r].invoice, Open))
          /\ Of(Terms[r].invoice, Open) \in SUBSET Refunds
        BY FS_Subset DEF Of, Open, BudgetInv
    <2>2. TotalOf(Of(Terms[r].invoice, Open)) \in Nat
        <3>1. r \notin Of(Terms[r].invoice, Open)
            BY OfChange DEF Opens
        <3> QED
            BY <2>1, <3>1, TotalWith
    <2> QED
        BY <1>1, <2>2, ReservedIsOpen DEF IInv, TypeOK
<1>3. invoice[Terms[r].invoice].refunded + Reserved(Terms[r].invoice)
          + Terms[r].amount <= Paid[Terms[r].invoice]
    BY <1>1, <1>2 DEF Opens, AvailableToRefund
<1>4. ReservedAmounts' =
          [ReservedAmounts EXCEPT ![Terms[r].invoice] = @ + Terms[r].amount]
    BY ReservedGrows DEF Opens
<1>5. ReturnedAmounts' = ReturnedAmounts
    BY DEF Opens, ReturnedAmounts
<1>6. /\ r \notin Open \cup Dropped \cup Returned
      /\ ReturnedAmounts[Terms[r].invoice] + ReservedAmounts[Terms[r].invoice]
             + Terms[r].amount <= Paid[Terms[r].invoice]
      /\ Open' = Open \cup {r} /\ Dropped' = Dropped /\ Returned' = Returned
    BY <1>1, <1>3 DEF Opens, ReservedAmounts, ReturnedAmounts
<1> QED
    BY <1>4, <1>5, <1>6, BudgetSets, BudgetSetsNext
    DEF Budget!Claim, ReservedAmounts, ReturnedAmounts

LEMMA ClosesDrops ==
    ASSUME IInv, IInv', BudgetInv, NEW r \in Refunds, Closes(r)
    PROVE  Budget!Drop(r)
<1>1. ReservedAmounts' =
          [ReservedAmounts EXCEPT ![Terms[r].invoice] = @ - Terms[r].amount]
    BY ReservedShrinks DEF Closes
<1>2. ReturnedAmounts' = ReturnedAmounts
    BY DEF Closes, ReturnedAmounts
<1>3. /\ r \in Open /\ Open' = Open \ {r}
      /\ Dropped' = Dropped \cup {r} /\ Returned' = Returned
    BY DEF Closes
<1> QED
    BY <1>1, <1>2, <1>3, BudgetSets, BudgetSetsNext
    DEF Budget!Drop, ReservedAmounts, ReturnedAmounts

LEMMA CompletesPays ==
    ASSUME IInv, IInv', BudgetInv, NEW r \in Refunds, Completes(r)
    PROVE  Budget!Pay(r)
<1>1. ReservedAmounts' =
          [ReservedAmounts EXCEPT ![Terms[r].invoice] = @ - Terms[r].amount]
    BY ReservedShrinks DEF Completes
<1>2. ReturnedAmounts' =
          [ReturnedAmounts EXCEPT ![Terms[r].invoice] = @ + Terms[r].amount]
    <2>1. Terms[r].invoice \in Invoices
        BY TermsAssumption DEF Term
    <2>2. invoice' = [invoice EXCEPT ![Terms[r].invoice] =
              [state |-> invoice'[Terms[r].invoice].state,
               refunded |-> invoice[Terms[r].invoice].refunded + Terms[r].amount]]
        BY <2>1 DEF Completes, InvoiceAfter, IInv, TypeOK
    <2> QED
        BY <2>1, <2>2 DEF ReturnedAmounts, IInv, TypeOK
<1>3. /\ r \in Open /\ Open' = Open \ {r}
      /\ Returned' = Returned \cup {r} /\ Dropped' = Dropped
    BY DEF Completes
<1> QED
    BY <1>1, <1>2, <1>3, BudgetSets, BudgetSetsNext
    DEF Budget!Pay, ReservedAmounts, ReturnedAmounts

LEMMA NextBudget ==
    IInv /\ IInv' /\ BudgetInv /\ [Next]_vars => [Budget!Next]_(Budget!budgetVars)
<1> SUFFICES ASSUME IInv, IInv', BudgetInv, [Next]_vars
             PROVE  [Budget!Next]_(Budget!budgetVars)
    OBVIOUS
<1>1. CASE UNCHANGED <<Open, Returned, Dropped, invoice>>
    <2>1. \A i \in Invoices : ReservedAmounts'[i] = ReservedAmounts[i]
        BY <1>1, ReservedEverywhere, ReservedNext DEF IInv
    <2>2. ReservedAmounts' = ReservedAmounts
        BY <2>1 DEF ReservedAmounts
    <2>3. ReturnedAmounts' = ReturnedAmounts
        BY <1>1 DEF ReturnedAmounts
    <2> QED
        BY <1>1, <2>2, <2>3, BudgetSets, BudgetSetsNext
        DEF Budget!budgetVars, ReservedAmounts, ReturnedAmounts
<1>2. CASE \E r \in Refunds : Opens(r) \/ Closes(r) \/ Completes(r)
    BY <1>2, OpensClaims, ClosesDrops, CompletesPays DEF Budget!Next
<1> QED
    BY <1>1, <1>2, Effects

(* Requests, reviews, transfers, attempts, retries and obligations together*)
(* do to an invoice what RefundBudget allows, and each step of them is one *)
(* of its steps or none.                                                   *)
THEOREM Refinement == Spec => ImplementsBudget
BY InitBudget, NextBudget, Inductive, BudgetInductive, PTL
   DEF Spec, ImplementsBudget, Budget!Spec

===============================================================================
