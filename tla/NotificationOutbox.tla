-------------------------- MODULE NotificationOutbox --------------------------
(***************************************************************************)
(* Delivery of one business notice through the transactional outbox:       *)
(*                                                                         *)
(*   enqueueOutbox            the row and one job per channel, inside the  *)
(*                            business transaction                         *)
(*   reconcileChannelWindows  quiet hours, before every poll               *)
(*   leaseOutbox, renew       a worker claims the row for a limited time   *)
(*   runOutboxPoll            reads the jobs and receipts, sends, records  *)
(*   durableDelivery          fences each external send with a receipt     *)
(*   persistOutcomes          jobs, inbox, dead letters and log at once    *)
(*   FailedNotifications      staff retry, resolve or dismiss a failure    *)
(*                                                                         *)
(* Rows share nothing but the poll that claims them, so one row stands for *)
(* all.  A worker is a process of apps/worker: it polls one batch at a     *)
(* time, so its name also stands for the lease token and the attempt token *)
(* of its current claim.  A statement of the code that runs on its own     *)
(* connection is a step; a transaction that holds the row is one step.     *)
(***************************************************************************)
EXTENDS Integers

CONSTANTS
    Workers,        \* worker processes
    External,       \* the external channels of the row: email, sms
    MaxAttempts,    \* notification_job.max_attempts (5, or 3 for OTP)
    MaxFaults,      \* bound: crashes, lapsed leases, failed statements,
                    \* deferrals and staff retries
    None

InApp == "in_app"

Channels == External \cup {InApp}

ASSUME ChannelsAssumption == InApp \notin External
ASSUME WorkersAssumption == None \notin Workers
ASSUME BoundsAssumption == MaxAttempts \in Nat \ {0} /\ MaxFaults \in Nat

VARIABLES
    outbox,     \* the row of notification_outbox
    job,        \* its rows of notification_job, one per channel
    receipt,    \* its rows of notification_send_receipts
    dead,       \* the triage status of its rows of notification_dead_letter
    inbox,      \* number of in_app_notifications rows with its delivery key
    logged,     \* rows of notification_delivery_log with status delivered
    sent,       \* messages the provider accepted, per external channel
    task,       \* what each worker is doing with the row
    faults      \* bound counter

vars == <<outbox, job, receipt, dead, inbox, logged, sent, task, faults>>

-----------------------------------------------------------------------------
(* Rows and tasks.                                                         *)

Dispatchable == {"queued", "scheduled", "sending"}

(* live: locked_until lies in the future; due: scheduled_for does not.     *)
OutboxRow == [status: Dispatchable \cup {"absent", "delivered", "failed"},
              lease: Workers \cup {None}, live: BOOLEAN, due: BOOLEAN]

(* due: run_after does not lie in the future.  A job that is "failed" was  *)
(* skipped by policy or availability.                                      *)
JobRow == [status: {"queued", "retrying", "done", "failed", "dead_letter"},
           attempts: Nat, due: BOOLEAN]

ReceiptRow == [status: {"none", "sending", "accepted", "rejected", "unknown"},
               by: Workers \cup {None}]

DeadLetter == {"none", "open", "retried", "resolved", "dismissed"}

(* DispatchOutcome.  "retry" is a failure that leaves attempts; the other  *)
(* two failures are dead letters at once.                                  *)
Outcome == {"none", "delivered", "retry", "permanent", "reconcile"}

(* read: attempts of the jobs when the worker read them; todo: external    *)
(* channels still to dispatch; cur: the one in its transport.              *)
Task == [pc: {"idle", "claimed", "started", "dispatch", "send", "prepared",
              "io", "accepted", "rejected", "uncertain", "fallback", "stop"},
         read: [Channels -> Nat], todo: SUBSET External,
         cur: External \cup {None}, out: [Channels -> Outcome],
         skip: SUBSET Channels, defer: SUBSET Channels, inApp: BOOLEAN]

Idle == [pc |-> "idle", read |-> [c \in Channels |-> 0], todo |-> {},
         cur |-> None, out |-> [c \in Channels |-> "none"],
         skip |-> {}, defer |-> {}, inApp |-> FALSE]

NewJob == [status |-> "queued", attempts |-> 0, due |-> TRUE]

terminalJob(j) == j.status \in {"done", "failed", "dead_letter"}

Init ==
    /\ outbox = [status |-> "absent", lease |-> None, live |-> FALSE,
                 due |-> TRUE]
    /\ job = [c \in Channels |-> NewJob]
    /\ receipt = [c \in External |-> [status |-> "none", by |-> None]]
    /\ dead = [c \in Channels |-> "none"]
    /\ inbox = 0
    /\ logged = [c \in Channels |-> 0]
    /\ sent = [c \in External |-> 0]
    /\ task = [w \in Workers |-> Idle]
    /\ faults = 0

-----------------------------------------------------------------------------
(* Helpers.                                                                *)

Fault == faults < MaxFaults /\ faults' = faults + 1

(* The jobs a poll may work on.                                            *)
DueJobs == {c \in Channels : ~terminalJob(job[c]) /\ job[c].due}

(* Mutant: the aggregate forgets that the inbox leg may be pending.        *)
refreshOfAttempt(jobs) ==
    LET pending == {c \in External : ~terminalJob(jobs[c])} IN
    [status |-> IF pending # {}
                THEN IF \E c \in pending : jobs[c].due THEN "queued"
                                                       ELSE "scheduled"
                ELSE IF \E c \in Channels : jobs[c].status = "dead_letter"
                THEN "failed" ELSE "delivered",
     lease |-> None, live |-> FALSE,
     due |-> pending = {} \/ \E c \in pending : jobs[c].due]

(* The aggregate of the jobs; it also drops the claim.                     *)
refreshOutboxState(jobs) ==
    LET pending == {c \in Channels : ~terminalJob(jobs[c])} IN
    [status |-> IF pending # {}
                THEN IF \E c \in pending : jobs[c].due THEN "queued"
                                                       ELSE "scheduled"
                ELSE IF \E c \in Channels : jobs[c].status = "dead_letter"
                THEN "failed" ELSE "delivered",
     lease |-> None, live |-> FALSE,
     due |-> pending = {} \/ \E c \in pending : jobs[c].due]

(* An accepted receipt is a delivery; one whose send was not answered may  *)
(* not be sent again; a missing or rejected one leaves the send open.      *)
readDeliveryReceipt(c) ==
    CASE receipt[c].status = "accepted" -> "delivered"
      [] receipt[c].status \in {"sending", "unknown"} -> "reconcile"
      [] OTHER -> "none"

(* The condition of renew's UPDATE.                                        *)
renew(w) ==
    outbox.lease = w /\ outbox.live /\ outbox.status \in Dispatchable

(* The row is locked while its jobs are written, if the claim still holds. *)
assertOutboxClaim(w) ==
    outbox.lease = w /\ outbox.live /\ outbox.status = "sending"

Exhausted(attempts, o) ==
    o \in {"permanent", "reconcile"} \/ attempts >= MaxAttempts

AfterOutcome(read, o) ==
    LET attempts == read + 1 IN
    CASE o = "delivered" ->
            [status |-> "done", attempts |-> attempts, due |-> TRUE]
      [] o # "delivered" /\ Exhausted(attempts, o) ->
            [status |-> "dead_letter", attempts |-> attempts, due |-> TRUE]
      [] OTHER ->
            [status |-> "retrying", attempts |-> attempts, due |-> FALSE]

(* The jobs after the outcomes, the skipped and the deferred legs.         *)
JobsAfter(read, out, skip, defer) ==
    [c \in Channels |->
        IF out[c] # "none" THEN AfterOutcome(read[c], out[c])
        ELSE IF c \in skip THEN [job[c] EXCEPT !.status = "failed"]
        ELSE IF c \in defer /\ ~terminalJob(job[c])
        THEN [job[c] EXCEPT !.due = FALSE]
        ELSE job[c]]

(* Mutant: ON CONFLICT (job_id) DO NOTHING.                                *)
writeDeadLetterOnce(jobs, out) ==
    [c \in Channels |->
        IF out[c] # "none" /\ jobs[c].status = "dead_letter"
           /\ dead[c] = "none"
        THEN "open" ELSE dead[c]]

(* A job that fails again reopens its row.                                 *)
writeDeadLetter(jobs, out) ==
    [c \in Channels |->
        IF out[c] # "none" /\ jobs[c].status = "dead_letter"
        THEN "open" ELSE dead[c]]

(* A send with a receipt has a log row of its own.                         *)
writeDeliveryLog(out) ==
    [c \in Channels |->
        IF out[c] = "delivered"
           /\ (c = InApp \/ receipt[c].status = "none")
        THEN logged[c] + 1 ELSE logged[c]]

persistOutcomes(read, out, skip, defer) ==
    LET jobs == JobsAfter(read, out, skip, defer) IN
    /\ job' = jobs
    /\ dead' = writeDeadLetter(jobs, out)
    /\ logged' = writeDeliveryLog(out)
    /\ outbox' = refreshOutboxState(jobs)

-----------------------------------------------------------------------------
(* The row, the clock and quiet hours.                                     *)

(* The business transaction commits with the row; a second one with the    *)
(* same occurrence key inserts nothing (ON CONFLICT DO NOTHING).           *)
enqueueOutbox ==
    /\ outbox.status = "absent"
    /\ \E later \in BOOLEAN :
          outbox' = [outbox EXCEPT
                        !.status = IF later THEN "scheduled" ELSE "queued",
                        !.due = ~later]
    /\ UNCHANGED <<job, receipt, dead, inbox, logged, sent, task, faults>>

(* run_after passes; scheduled_for is never later than a pending job's.    *)
TimePasses(c) ==
    /\ outbox.status \in Dispatchable
    /\ ~terminalJob(job[c])
    /\ ~job[c].due \/ ~outbox.due
    /\ job' = [job EXCEPT ![c].due = TRUE]
    /\ outbox' = [outbox EXCEPT !.due = TRUE]
    /\ UNCHANGED <<receipt, dead, inbox, logged, sent, task, faults>>

(* Due external jobs outside their window wait for it; a row scheduled for *)
(* later keeps that date for them, while its inbox leg stays runnable.     *)
reconcileChannelWindows ==
    /\ outbox.status \in Dispatchable
    /\ ~outbox.live
    /\ outbox.due \/ InApp \in DueJobs
    /\ \E later \in SUBSET (DueJobs \cap External) :
          /\ ~outbox.due => later = DueJobs \cap External
          /\ IF later = {} THEN UNCHANGED faults ELSE Fault
          /\ LET jobs == [c \in Channels |->
                            IF c \in later THEN [job[c] EXCEPT !.due = FALSE]
                                           ELSE job[c]]
             IN  job' = jobs /\ outbox' = refreshOutboxState(jobs)
    /\ UNCHANGED <<receipt, dead, inbox, logged, sent, task>>

(* The lease of a worker that works lapses: a pause, a lost connection.    *)
LeaseLapses ==
    /\ outbox.live
    /\ Fault
    /\ outbox' = [outbox EXCEPT !.live = FALSE]
    /\ UNCHANGED <<job, receipt, dead, inbox, logged, sent, task>>

(* The lease of a worker that died runs out.                               *)
LeaseExpires ==
    /\ outbox.live
    /\ outbox.lease \in Workers /\ task[outbox.lease].pc = "idle"
    /\ outbox' = [outbox EXCEPT !.live = FALSE]
    /\ UNCHANGED <<job, receipt, dead, inbox, logged, sent, task, faults>>

-----------------------------------------------------------------------------
(* A worker's poll.                                                        *)

(* Mutant: rows a worker left behind in "sending" are not claimed again.   *)
leaseOutboxUnsent(w) ==
    /\ task[w].pc = "idle"
    /\ outbox.status \in {"queued", "scheduled"}
    /\ outbox.due
    /\ ~outbox.live
    /\ outbox' = [outbox EXCEPT !.lease = w, !.live = TRUE]
    /\ task' = [task EXCEPT ![w].pc = "claimed"]
    /\ UNCHANGED <<job, receipt, dead, inbox, logged, sent, faults>>

leaseOutbox(w) ==
    /\ task[w].pc = "idle"
    /\ outbox.status \in Dispatchable
    /\ outbox.due
    /\ ~outbox.live
    /\ outbox' = [outbox EXCEPT !.lease = w, !.live = TRUE]
    /\ task' = [task EXCEPT ![w].pc = "claimed"]
    /\ UNCHANGED <<job, receipt, dead, inbox, logged, sent, faults>>

(* The first renewal marks the row "sending"; a lapsed claim ends here.    *)
startOutboxLease(w) ==
    /\ task[w].pc = "claimed"
    /\ IF renew(w)
       THEN /\ outbox' = [outbox EXCEPT !.status = "sending"]
            /\ task' = [task EXCEPT ![w].pc = "started"]
       ELSE /\ task' = [task EXCEPT ![w] = Idle]
            /\ UNCHANGED outbox
    /\ UNCHANGED <<job, receipt, dead, inbox, logged, sent, faults>>

(* The outcomes of due jobs whose earlier send left a receipt.             *)
recovered ==
    [c \in Channels |-> IF c \in DueJobs \cap External
                        THEN readDeliveryReceipt(c) ELSE "none"]

(* The worker reads the jobs and the receipts, then the reminder policy    *)
(* may skip or defer every other leg, the window defers external legs and  *)
(* the availability of the recipient skips them.  A query that fails       *)
(* before or after the receipts are read leads to the fallback.            *)
ReadJobs(w) ==
    LET remaining == {c \in DueJobs : recovered[c] = "none"}
        read == [c \in Channels |-> job[c].attempts]
        Plan(skip, defer) ==
            task' = [task EXCEPT ![w] =
                [Idle EXCEPT !.pc = "dispatch", !.read = read,
                             !.out = recovered, !.skip = skip,
                             !.defer = defer,
                             !.todo = (remaining \ (skip \cup defer))
                                            \cap External,
                             !.inApp = InApp \in remaining
                                            \ (skip \cup defer)]]
    IN
    /\ task[w].pc = "started"
    /\ \/ Plan(remaining, {}) /\ UNCHANGED faults
       \/ Plan({}, remaining) /\ Fault
       \/ \E skip, defer \in SUBSET (remaining \cap External) :
             /\ skip \cap defer = {}
             /\ Plan(skip, defer)
             /\ IF defer = {} THEN UNCHANGED faults ELSE Fault
       \/ /\ \E out \in {recovered, Idle.out} :
                task' = [task EXCEPT ![w] =
                            [Idle EXCEPT !.pc = "fallback", !.out = out]]
          /\ Fault
    /\ UNCHANGED <<outbox, job, receipt, dead, inbox, logged, sent>>

(* beforeSend renews the lease right before every channel.                 *)
beforeSend(w, c) ==
    /\ task[w].pc = "dispatch"
    /\ c \in task[w].todo
    /\ renew(w)
    /\ task' = [task EXCEPT ![w].pc = "send", ![w].cur = c,
                            ![w].todo = @ \ {c}]
    /\ UNCHANGED <<outbox, job, receipt, dead, inbox, logged, sent, faults>>

(* OutboxLeaseLost: the claim lapsed, or a statement of a renewal or of    *)
(* the recording of a failure failed.                                      *)
LeaseLost(w) ==
    /\ task[w].pc \in {"dispatch", "fallback"}
    /\ IF assertOutboxClaim(w) THEN Fault ELSE UNCHANGED faults
    /\ task' = [task EXCEPT ![w] = [Idle EXCEPT !.pc = "stop"]]
    /\ UNCHANGED <<outbox, job, receipt, dead, inbox, logged, sent>>

(* stop releases a claim that is still this worker's.                      *)
stop(w) ==
    /\ task[w].pc = "stop"
    /\ task' = [task EXCEPT ![w] = Idle]
    /\ outbox' = IF outbox.lease = w
                 THEN [outbox EXCEPT !.lease = None, !.live = FALSE]
                 ELSE outbox
    /\ UNCHANGED <<job, receipt, dead, inbox, logged, sent, faults>>

(* The channel's outcome is known.                                         *)
Outcomes(w, o) ==
    task' = [task EXCEPT ![w].pc = "dispatch", ![w].cur = None,
                         ![w].out = [@ EXCEPT ![task[w].cur] = o]]

(* transport.send first looks for a receipt.                               *)
ReadReceipt(w) ==
    /\ task[w].pc = "send"
    /\ IF readDeliveryReceipt(task[w].cur) = "none"
       THEN task' = [task EXCEPT ![w].pc = "prepared"]
       ELSE Outcomes(w, readDeliveryReceipt(task[w].cur))
    /\ UNCHANGED <<outbox, job, receipt, dead, inbox, logged, sent, faults>>

(* No recipient, template, provider or quota, an open circuit breaker, a   *)
(* suppressed address: nothing was handed to the provider.                 *)
PreflightFails(w) ==
    /\ task[w].pc = "prepared"
    /\ \E o \in {"retry", "permanent"} : Outcomes(w, o)
    /\ UNCHANGED <<outbox, job, receipt, dead, inbox, logged, sent, faults>>

(* Mutant: any receipt but an accepted one is claimed again.               *)
Reclaimable(c) == receipt[c].status # "accepted"

(* The primary key of the receipt and the WHERE of its ON CONFLICT.        *)
Claimable(c) == receipt[c].status \in {"none", "rejected"}

(* The claim of the send commits before the provider hears of it.  A       *)
(* rejected receipt of another provider is not claimed: reconcile.         *)
durableDelivery(w) ==
    LET c == task[w].cur
        found == readDeliveryReceipt(c)
    IN
    /\ task[w].pc = "prepared"
    /\ \/ /\ Claimable(c)
          /\ receipt' = [receipt EXCEPT ![c] =
                            [status |-> "sending", by |-> w]]
          /\ task' = [task EXCEPT ![w].pc = "io"]
       \/ /\ receipt[c].status # "none"
          /\ Outcomes(w, IF found = "none" THEN "reconcile" ELSE found)
          /\ UNCHANGED receipt
    /\ UNCHANGED <<outbox, job, dead, inbox, logged, sent, faults>>

(* The provider accepts, refuses for certain, or gives no usable answer,   *)
(* having accepted the message or not.                                     *)
ProviderAnswers(w) ==
    LET c == task[w].cur
        Answer(pc, n) == /\ task' = [task EXCEPT ![w].pc = pc]
                         /\ sent' = [sent EXCEPT ![c] = @ + n]
    IN
    /\ task[w].pc = "io"
    /\ \/ Answer("accepted", 1)
       \/ Answer("rejected", 0)
       \/ \E n \in {0, 1} : Answer("uncertain", n)
    /\ UNCHANGED <<outbox, job, receipt, dead, inbox, logged, faults>>

(* The answer is written to the receipt and to the log row of the send, if *)
(* the attempt is still this worker's; the reply to the statement may be   *)
(* lost, which the transport reports as a failure.                         *)
RecordSend(w) ==
    LET c == task[w].cur
        mine == receipt[c] = [status |-> "sending", by |-> w]
        Record(status, o) ==
            /\ receipt' = IF mine
                          THEN [receipt EXCEPT ![c] =
                                  [status |-> status, by |-> None]]
                          ELSE receipt
            /\ \/ /\ Outcomes(w, IF mine THEN o ELSE "reconcile")
                  /\ UNCHANGED faults
               \/ Outcomes(w, "retry") /\ Fault
    IN
    /\ \/ task[w].pc = "accepted" /\ Record("accepted", "delivered")
       \/ task[w].pc = "rejected" /\ Record("rejected", "permanent")
       \/ task[w].pc = "uncertain" /\ Record("unknown", "reconcile")
    /\ logged' = IF mine /\ task[w].pc = "accepted"
                 THEN [logged EXCEPT ![c] = @ + 1] ELSE logged
    /\ UNCHANGED <<outbox, job, dead, inbox, sent>>

(* The statement fails: the receipt stays "sending".                       *)
RecordFails(w) ==
    /\ task[w].pc \in {"accepted", "rejected", "uncertain"}
    /\ Outcomes(w, "retry")
    /\ Fault
    /\ UNCHANGED <<outbox, job, receipt, dead, inbox, logged, sent>>

(* Every channel is dispatched: under the row lock the inbox leg is        *)
(* written and everything is recorded in one transaction.                  *)
Persist(w) ==
    LET t == task[w]
        Finish(out) == persistOutcomes(t.read, out, t.skip, t.defer)
    IN
    /\ t.pc = "dispatch" /\ t.todo = {}
    /\ assertOutboxClaim(w)
    /\ \/ /\ ~t.inApp
          /\ Finish(t.out)
          /\ UNCHANGED inbox
       \/ /\ t.inApp
          /\ Finish([t.out EXCEPT ![InApp] = "delivered"])
          /\ inbox' = 1
       \/ /\ t.inApp
          /\ Finish([t.out EXCEPT ![InApp] = "retry"])
          /\ UNCHANGED inbox
    /\ task' = [task EXCEPT ![w] = Idle]
    /\ UNCHANGED <<receipt, sent, faults>>

(* The transaction rolls back; the sends are done all the same.            *)
PersistFails(w) ==
    /\ task[w].pc = "dispatch" /\ task[w].todo = {}
    /\ Fault
    /\ task' = [task EXCEPT ![w] = [Idle EXCEPT !.pc = "fallback",
                                                !.out = task[w].out]]
    /\ UNCHANGED <<outbox, job, receipt, dead, inbox, logged, sent>>

(* The due jobs are recorded with the outcomes known, the others failed.   *)
Fallback(w) ==
    LET out == [c \in Channels |->
                  CASE c \notin DueJobs -> "none"
                    [] c \in DueJobs /\ task[w].out[c] # "none" ->
                            task[w].out[c]
                    [] OTHER -> "retry"]
    IN
    /\ task[w].pc = "fallback"
    /\ assertOutboxClaim(w)
    /\ persistOutcomes([c \in Channels |-> job[c].attempts], out, {}, {})
    /\ task' = [task EXCEPT ![w] = Idle]
    /\ UNCHANGED <<receipt, inbox, sent, faults>>

(* The process dies; what it committed and what it sent stays.             *)
Crash(w) ==
    /\ task[w].pc # "idle"
    /\ Fault
    /\ task' = [task EXCEPT ![w] = Idle]
    /\ UNCHANGED <<outbox, job, receipt, dead, inbox, logged, sent>>

-----------------------------------------------------------------------------
(* Triage of dead letters.                                                 *)

retryFailedNotification(c) ==
    /\ dead[c] = "open"
    /\ c \in External => receipt[c].status \notin {"sending", "unknown"}
    /\ outbox.status = "failed" /\ ~outbox.live
    /\ job[c].status = "dead_letter"
    /\ Fault
    /\ outbox' = [status |-> "queued", lease |-> None, live |-> FALSE,
                  due |-> TRUE]
    /\ job' = [job EXCEPT ![c] = NewJob]
    /\ dead' = [dead EXCEPT ![c] = "retried"]
    /\ UNCHANGED <<receipt, inbox, logged, sent, task>>

closeFailedNotification(c) ==
    /\ dead[c] = "open"
    /\ \E s \in {"resolved", "dismissed"} : dead' = [dead EXCEPT ![c] = s]
    /\ UNCHANGED <<outbox, job, receipt, inbox, logged, sent, task, faults>>

-----------------------------------------------------------------------------

WorkerStep(w) ==
    \/ startOutboxLease(w) \/ ReadJobs(w) \/ stop(w) \/ ReadReceipt(w)
    \/ \E c \in External : beforeSend(w, c)
    \/ LeaseLost(w) \/ PreflightFails(w) \/ durableDelivery(w)
    \/ ProviderAnswers(w) \/ RecordSend(w) \/ RecordFails(w)
    \/ Persist(w) \/ PersistFails(w) \/ Fallback(w)

Next ==
    \/ enqueueOutbox \/ reconcileChannelWindows
    \/ LeaseLapses \/ LeaseExpires
    \/ \E c \in Channels : \/ TimePasses(c) \/ retryFailedNotification(c)
                           \/ closeFailedNotification(c)
    \/ \E w \in Workers : leaseOutbox(w) \/ WorkerStep(w) \/ Crash(w)

Spec == Init /\ [][Next]_vars

(* Some process keeps polling; a process that runs takes its next step,    *)
(* for every query has a statement timeout and every send a deadline; the  *)
(* clock advances.                                                         *)
Fairness ==
    /\ WF_vars(\E w \in Workers : leaseOutbox(w))
    /\ \A w \in Workers : WF_vars(WorkerStep(w))
    /\ WF_vars(\E c \in Channels : TimePasses(c))
    /\ WF_vars(LeaseExpires)

FairSpec == Spec /\ Fairness

-----------------------------------------------------------------------------
(* Properties.                                                             *)

TypeOK ==
    /\ outbox \in OutboxRow
    /\ job \in [Channels -> JobRow]
    /\ receipt \in [External -> ReceiptRow]
    /\ dead \in [Channels -> DeadLetter]
    /\ inbox \in Nat
    /\ logged \in [Channels -> Nat]
    /\ sent \in [External -> Nat]
    /\ task \in [Workers -> Task]
    /\ faults \in Nat

(* durableDelivery: whatever workers stall, die or lose their lease, the   *)
(* provider accepts at most one message per channel, and a receipt that    *)
(* says accepted, or says rejected, tells the truth about it.              *)
AtMostOneSend ==
    \A c \in External :
        /\ sent[c] <= 1
        /\ receipt[c].status = "accepted" => sent[c] = 1
        /\ receipt[c].status \in {"none", "rejected"} => sent[c] = 0

(* persistOutcomes: a job is done exactly when its message exists: an      *)
(* accepted send, or the one inbox row.                                    *)
DoneIsDelivered ==
    /\ \A c \in External :
          job[c].status = "done" => receipt[c].status = "accepted"
    /\ inbox <= 1
    /\ job[InApp].status = "done" <=> inbox = 1

(* The delivery log has one delivered row per delivered message, although  *)
(* a recovered send is recorded by a later worker.                         *)
LoggedOnce ==
    /\ logged[InApp] = inbox
    /\ \A c \in External :
          logged[c] = IF receipt[c].status = "accepted" THEN 1 ELSE 0

(* refreshOutboxState: the status of the row is the aggregate of its jobs; *)
(* in particular no row is closed while a job waits, or open without one.  *)
OutboxAgrees ==
    LET pending == {c \in Channels : ~terminalJob(job[c])} IN
    /\ outbox.status \in Dispatchable => pending # {}
    /\ outbox.status \in {"delivered", "failed"} =>
          /\ pending = {}
          /\ (outbox.status = "failed") <=>
                (\E c \in Channels : job[c].status = "dead_letter")

(* writeDeadLetter: a dead job is always in triage, and a triage row that  *)
(* is not waiting for its retry belongs to a dead job.                     *)
DeadIsTriaged ==
    \A c \in Channels :
        job[c].status = "dead_letter" <=>
            dead[c] \in {"open", "resolved", "dismissed"}

(* What is recorded of a message agrees with what became of it, whichever  *)
(* worker recorded it: its job, its log row and its dead letter.           *)
RecordsAgree == DoneIsDelivered /\ LoggedOnce /\ DeadIsTriaged

(* assertOutboxClaim: a job that ended changes only when staff retry its   *)
(* dead letter, however late a worker that lost its claim comes back.      *)
EndedJobsStay ==
    [][\A c \in Channels :
          terminalJob(job[c]) /\ job'[c] # job[c] =>
             /\ dead[c] = "open" /\ dead'[c] = "retried"
             /\ job'[c] = NewJob]_vars

(* runOutboxPoll: what is recovered before the policy is asked can not be  *)
(* hidden by it, so a skipped leg was not handed to the provider.          *)
SkippedIsUnsent ==
    \A c \in External :
        job[c].status = "failed" => receipt[c].status \in {"none", "rejected"}

(* Every notice is settled: delivered, or failed with its dead letters.    *)
EveryNoticeSettles ==
    (outbox.status \in Dispatchable) ~> (outbox.status \in {"delivered", "failed"})

=============================================================================
