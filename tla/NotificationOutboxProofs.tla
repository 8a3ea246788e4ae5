----------------------- MODULE NotificationOutboxProofs -----------------------
(***************************************************************************)
(* Proofs about NotificationOutbox, for any number of workers, external    *)
(* channels, attempts and faults: the types, that the provider accepts at  *)
(* most one message per channel, and what is recorded of it.               *)
(*                                                                         *)
(* The second is not inductive: it rests on who may be talking to the      *)
(* provider.  A worker between the claim of a send and the record of its   *)
(* answer owns the receipt, which stays "sending" under its name, so no    *)
(* other worker can be there for the same channel, and until the provider  *)
(* has answered nothing was accepted.                                      *)
(***************************************************************************)
EXTENDS NotificationOutbox, TLAPS

InFlight == {"io", "accepted", "rejected", "uncertain"}
InTransport == {"send", "prepared"} \cup InFlight

(* A worker in a transport works on an external channel.                   *)
TransportHasChannel ==
    \A w \in Workers : task[w].pc \in InTransport => task[w].cur \in External

(* The receipt of a send in flight is its worker's, and says no more than  *)
(* the provider has answered.                                              *)
FlightIsFenced ==
    \A w \in Workers : task[w].pc \in InFlight =>
        /\ receipt[task[w].cur] = [status |-> "sending", by |-> w]
        /\ task[w].pc \in {"io", "rejected"} => sent[task[w].cur] = 0
        /\ task[w].pc = "accepted" => sent[task[w].cur] = 1

IInv ==
    /\ TypeOK
    /\ AtMostOneSend
    /\ TransportHasChannel
    /\ FlightIsFenced

-----------------------------------------------------------------------------
(* Types.                                                                  *)

LEMMA IdleTyped ==
    /\ Idle \in Task
    /\ \A pc \in {"dispatch", "fallback", "stop"} :
          [Idle EXCEPT !.pc = pc] \in Task
BY DEF Idle, Task, Outcome

LEMMA AfterOutcomeTyped ==
    ASSUME NEW n \in Nat, NEW o \in Outcome
    PROVE  AfterOutcome(n, o) \in JobRow
BY DEF AfterOutcome, JobRow, Outcome

LEMMA JobsAfterTyped ==
    ASSUME TypeOK, NEW read \in [Channels -> Nat],
           NEW out \in [Channels -> Outcome], NEW skip, NEW defer
    PROVE  JobsAfter(read, out, skip, defer) \in [Channels -> JobRow]
<1> SUFFICES ASSUME NEW c \in Channels
             PROVE  JobsAfter(read, out, skip, defer)[c] \in JobRow
    BY DEF JobsAfter
<1>1. job[c] \in JobRow
    BY DEF TypeOK
<1>2. /\ [job[c] EXCEPT !.status = "failed"] \in JobRow
      /\ [job[c] EXCEPT !.due = FALSE] \in JobRow
    BY <1>1 DEF JobRow
<1>3. AfterOutcome(read[c], out[c]) \in JobRow
    BY AfterOutcomeTyped
<1> QED
    BY <1>1, <1>2, <1>3 DEF JobsAfter

LEMMA RefreshTyped ==
    ASSUME NEW jobs
    PROVE  refreshOutboxState(jobs) \in OutboxRow
BY DEF refreshOutboxState, OutboxRow, Dispatchable

LEMMA PersistTyped ==
    ASSUME TypeOK, NEW read \in [Channels -> Nat],
           NEW out \in [Channels -> Outcome], NEW skip, NEW defer,
           persistOutcomes(read, out, skip, defer)
    PROVE  /\ outbox' \in OutboxRow
           /\ job' \in [Channels -> JobRow]
           /\ dead' \in [Channels -> DeadLetter]
           /\ logged' \in [Channels -> Nat]
<1>1. outbox' \in OutboxRow
    BY RefreshTyped DEF persistOutcomes
<1>2. job' \in [Channels -> JobRow]
    BY JobsAfterTyped DEF persistOutcomes
<1>3. dead' \in [Channels -> DeadLetter]
    BY DEF persistOutcomes, writeDeadLetter, DeadLetter, TypeOK
<1>4. logged' \in [Channels -> Nat]
    BY DEF persistOutcomes, writeDeliveryLog, TypeOK
<1> QED
    BY <1>1, <1>2, <1>3, <1>4

(* The outcome of a channel keeps the tasks typed, and its worker leaves   *)
(* the transport.                                                          *)
LEMMA OutcomesTyped ==
    ASSUME TypeOK, NEW w \in Workers, NEW o \in Outcome, Outcomes(w, o)
    PROVE  /\ task' \in [Workers -> Task]
           /\ task'[w].pc = "dispatch"
           /\ \A v \in Workers \ {w} : task'[v] = task[v]
<1>1. task[w] \in Task
    BY DEF TypeOK
<1>2. [task[w].out EXCEPT ![task[w].cur] = o] \in [Channels -> Outcome]
    BY <1>1 DEF Task
<1>3. [task[w] EXCEPT !.pc = "dispatch", !.cur = None,
            !.out = [task[w].out EXCEPT ![task[w].cur] = o]] \in Task
    BY <1>1, <1>2 DEF Task
<1> QED
    BY <1>3 DEF Outcomes, TypeOK, Task

LEMMA ReceiptOutcome ==
    ASSUME NEW c PROVE readDeliveryReceipt(c) \in Outcome
BY DEF readDeliveryReceipt, Outcome

-----------------------------------------------------------------------------
(* A step that touches neither receipts nor the provider, and puts no      *)
(* worker in flight, keeps the invariant if it keeps the types.            *)

LEMMA QuietStep ==
    ASSUME IInv, TypeOK', receipt' = receipt, sent' = sent,
           \A v \in Workers :
              \/ task'[v] = task[v]
              \/ task'[v].pc \notin InTransport
              \/ task'[v].pc \notin InFlight /\ task'[v].cur \in External
    PROVE  IInv'
<1>1. AtMostOneSend'
    BY DEF IInv, AtMostOneSend
<1>2. TransportHasChannel'
    BY DEF IInv, TransportHasChannel
<1>3. FlightIsFenced'
    BY DEF IInv, FlightIsFenced, InTransport
<1> QED
    BY <1>1, <1>2, <1>3 DEF IInv

(* The row, the clock and triage.                                          *)
LEMMA RowStep ==
    ASSUME IInv,
           \/ enqueueOutbox \/ reconcileChannelWindows
           \/ LeaseLapses \/ LeaseExpires
           \/ \E c \in Channels : \/ TimePasses(c) \/ retryFailedNotification(c)
                                  \/ closeFailedNotification(c)
    PROVE  IInv'
<1> USE DEF IInv
<1>1. CASE enqueueOutbox
    <2>1. outbox' \in OutboxRow
        BY <1>1 DEF enqueueOutbox, TypeOK, OutboxRow, Dispatchable
    <2>2. TypeOK'
        BY <1>1, <2>1 DEF enqueueOutbox, TypeOK
    <2> QED
        BY <1>1, <2>2, QuietStep DEF enqueueOutbox
<1>2. CASE reconcileChannelWindows
    <2>1. PICK later : /\ IF later = {} THEN UNCHANGED faults ELSE Fault
                       /\ job' = [c \in Channels |->
                            IF c \in later THEN [job[c] EXCEPT !.due = FALSE]
                                           ELSE job[c]]
                       /\ outbox' = refreshOutboxState(job')
        BY <1>2 DEF reconcileChannelWindows
    <2>2. job' \in [Channels -> JobRow]
        BY <2>1 DEF TypeOK, JobRow
    <2>3. outbox' \in OutboxRow
        BY <2>1, RefreshTyped
    <2>4. faults' \in Nat
        BY <2>1 DEF TypeOK, Fault
    <2>5. TypeOK'
        BY <1>2, <2>2, <2>3, <2>4 DEF reconcileChannelWindows, TypeOK
    <2> QED
        BY <1>2, <2>5, QuietStep DEF reconcileChannelWindows
<1>3. CASE LeaseLapses
    <2>1. outbox' \in OutboxRow
        BY <1>3 DEF LeaseLapses, TypeOK, OutboxRow
    <2>2. TypeOK'
        BY <1>3, <2>1 DEF LeaseLapses, TypeOK, Fault
    <2> QED
        BY <1>3, <2>2, QuietStep DEF LeaseLapses
<1>4. CASE LeaseExpires
    <2>1. outbox' \in OutboxRow
        BY <1>4 DEF LeaseExpires, TypeOK, OutboxRow
    <2>2. TypeOK'
        BY <1>4, <2>1 DEF LeaseExpires, TypeOK
    <2> QED
        BY <1>4, <2>2, QuietStep DEF LeaseExpires
<1>5. ASSUME NEW c \in Channels, TimePasses(c)
      PROVE  IInv'
    <2>1. outbox' \in OutboxRow /\ job' \in [Channels -> JobRow]
        BY <1>5 DEF TimePasses, TypeOK, OutboxRow, JobRow
    <2>2. TypeOK'
        BY <1>5, <2>1 DEF TimePasses, TypeOK
    <2> QED
        BY <1>5, <2>2, QuietStep DEF TimePasses
<1>6. ASSUME NEW c \in Channels, retryFailedNotification(c)
      PROVE  IInv'
    <2>1. outbox' \in OutboxRow
        BY <1>6 DEF retryFailedNotification, OutboxRow, Dispatchable
    <2>2. job' \in [Channels -> JobRow]
        BY <1>6 DEF retryFailedNotification, TypeOK, NewJob, JobRow
    <2>3. dead' \in [Channels -> DeadLetter]
        BY <1>6 DEF retryFailedNotification, TypeOK, DeadLetter
    <2>4. TypeOK'
        BY <1>6, <2>1, <2>2, <2>3 DEF retryFailedNotification, TypeOK, Fault
    <2> QED
        BY <1>6, <2>4, QuietStep DEF retryFailedNotification
<1>7. ASSUME NEW c \in Channels, closeFailedNotification(c)
      PROVE  IInv'
    <2>1. dead' \in [Channels -> DeadLetter]
        BY <1>7 DEF closeFailedNotification, TypeOK, DeadLetter
    <2>2. TypeOK'
        BY <1>7, <2>1 DEF closeFailedNotification, TypeOK
    <2> QED
        BY <1>7, <2>2, QuietStep DEF closeFailedNotification
<1> QED
    BY <1>1, <1>2, <1>3, <1>4, <1>5, <1>6, <1>7

(* A worker goes back to a fresh task, or sets one up, outside transports. *)
LEMMA TaskStep ==
    ASSUME IInv, NEW w \in Workers, NEW t \in Task, t.pc \notin InTransport,
           task' = [task EXCEPT ![w] = t],
           outbox' \in OutboxRow, faults' \in Nat,
           UNCHANGED <<job, receipt, dead, inbox, logged, sent>>
    PROVE  IInv'
<1>1. TypeOK'
    BY DEF IInv, TypeOK
<1>2. \A v \in Workers : task'[v] = task[v] \/ task'[v].pc \notin InTransport
    BY DEF IInv, TypeOK
<1> QED
    BY <1>1, <1>2, QuietStep

(* Claims, losses and crashes.                                             *)
LEMMA ClaimStep ==
    ASSUME IInv, NEW w \in Workers,
           \/ leaseOutbox(w) \/ startOutboxLease(w) \/ LeaseLost(w) \/ stop(w)
           \/ PersistFails(w) \/ Crash(w)
    PROVE  IInv'
<1>0. /\ task[w] \in Task /\ outbox \in OutboxRow /\ faults \in Nat
      /\ [task[w] EXCEPT !.pc = "claimed"] \in Task
      /\ [task[w] EXCEPT !.pc = "started"] \in Task
      /\ [Idle EXCEPT !.pc = "fallback", !.out = task[w].out] \in Task
    BY IdleTyped DEF IInv, TypeOK, Task
<1>1. CASE leaseOutbox(w)
    <2>1. outbox' \in OutboxRow
        BY <1>0, <1>1 DEF leaseOutbox, OutboxRow
    <2> DEFINE t == [task[w] EXCEPT !.pc = "claimed"]
    <2>2. task' = [task EXCEPT ![w] = t]
        BY <1>1 DEF leaseOutbox
    <2>3. t \in Task /\ t.pc \notin InTransport
        BY <1>0 DEF Task, InTransport, InFlight
    <2> QED
        BY <1>0, <1>1, <2>1, <2>2, <2>3, TaskStep DEF leaseOutbox
<1>2. CASE startOutboxLease(w)
    <2>1. outbox' \in OutboxRow
        BY <1>0, <1>2 DEF startOutboxLease, OutboxRow, Dispatchable
    <2> DEFINE t == [task[w] EXCEPT !.pc = "started"]
    <2>2. \/ task' = [task EXCEPT ![w] = t]
          \/ task' = [task EXCEPT ![w] = Idle]
        BY <1>2 DEF startOutboxLease
    <2>3. t \in Task /\ t.pc \notin InTransport
        BY <1>0 DEF Task, InTransport, InFlight
    <2>4. Idle \in Task /\ Idle.pc \notin InTransport
        BY IdleTyped DEF InTransport, InFlight, Idle
    <2>5. faults' \in Nat /\ UNCHANGED <<job, receipt, dead, inbox, logged, sent>>
        BY <1>0, <1>2 DEF startOutboxLease
    <2> QED
        BY <2>1, <2>2, <2>3, <2>4, <2>5, TaskStep
<1>3. CASE LeaseLost(w)
    <2> DEFINE t == [Idle EXCEPT !.pc = "stop"]
    <2>1. t \in Task /\ t.pc \notin InTransport
        BY IdleTyped DEF InTransport, InFlight, Idle
    <2>2. faults' \in Nat
        BY <1>0, <1>3 DEF LeaseLost, Fault
    <2> QED
        BY <1>0, <1>3, <2>1, <2>2, TaskStep DEF LeaseLost
<1>4. CASE stop(w)
    <2>1. outbox' \in OutboxRow
        BY <1>0, <1>4 DEF stop, OutboxRow
    <2>2. Idle \in Task /\ Idle.pc \notin InTransport
        BY IdleTyped DEF InTransport, InFlight, Idle
    <2> QED
        BY <1>0, <1>4, <2>1, <2>2, TaskStep DEF stop
<1>5. CASE PersistFails(w)
    <2> DEFINE t == [Idle EXCEPT !.pc = "fallback", !.out = task[w].out]
    <2>1. t \in Task /\ t.pc \notin InTransport
        BY <1>0 DEF InTransport, InFlight, Idle
    <2>2. faults' \in Nat
        BY <1>0, <1>5 DEF PersistFails, Fault
    <2> QED
        BY <1>0, <1>5, <2>1, <2>2, TaskStep DEF PersistFails
<1>6. CASE Crash(w)
    <2>1. Idle \in Task /\ Idle.pc \notin InTransport
        BY IdleTyped DEF InTransport, InFlight, Idle
    <2>2. faults' \in Nat
        BY <1>0, <1>6 DEF Crash, Fault
    <2> QED
        BY <1>0, <1>6, <2>1, <2>2, TaskStep DEF Crash
<1> QED
    BY <1>1, <1>2, <1>3, <1>4, <1>5, <1>6

LEMMA PlanTyped ==
    ASSUME NEW read \in [Channels -> Nat], NEW out \in [Channels -> Outcome],
           NEW skip \in SUBSET Channels, NEW defer \in SUBSET Channels,
           NEW todo \in SUBSET External, NEW inApp \in BOOLEAN
    PROVE  LET t == [Idle EXCEPT !.pc = "dispatch", !.read = read, !.out = out,
                                 !.skip = skip, !.defer = defer, !.todo = todo,
                                 !.inApp = inApp]
           IN  t \in Task /\ t.pc = "dispatch"
<1> DEFINE t == [Idle EXCEPT !.pc = "dispatch", !.read = read, !.out = out,
                             !.skip = skip, !.defer = defer, !.todo = todo,
                             !.inApp = inApp]
<1> DEFINE u == [Idle EXCEPT !.pc = "dispatch", !.read = read, !.out = out,
                             !.skip = skip, !.defer = defer, !.todo = todo]
<1>1. u \in Task /\ u.pc = "dispatch"
    BY IdleTyped DEF Task
<1>2. \A v \in Task : /\ [v EXCEPT !.inApp = inApp] \in Task
                      /\ [v EXCEPT !.inApp = inApp].pc = v.pc
    BY DEF Task
<1>3. t = [u EXCEPT !.inApp = inApp]
    OBVIOUS
<1> QED
    BY <1>1, <1>2, <1>3

(* The worker reads the jobs and the receipts and plans its attempt.       *)
LEMMA ReadJobsStep ==
    ASSUME IInv, NEW w \in Workers, ReadJobs(w)
    PROVE  IInv'
<1> DEFINE remaining == {c \in DueJobs : recovered[c] = "none"}
           read == [c \in Channels |-> job[c].attempts]
           Planned(skip, defer) ==
               [Idle EXCEPT !.pc = "dispatch", !.read = read,
                            !.out = recovered, !.skip = skip, !.defer = defer,
                            !.todo = (remaining \ (skip \cup defer))
                                         \cap External,
                            !.inApp = InApp \in remaining \ (skip \cup defer)]
           Failed(out) == [Idle EXCEPT !.pc = "fallback", !.out = out]
<1>1. recovered \in [Channels -> Outcome]
    BY ReceiptOutcome DEF recovered, Outcome
<1>2. read \in [Channels -> Nat]
    BY DEF IInv, TypeOK, JobRow
<1>3. remaining \subseteq Channels
    BY DEF DueJobs
<1>4. \A skip, defer \in SUBSET Channels :
          /\ Planned(skip, defer) \in Task
          /\ Planned(skip, defer).pc \notin InTransport
    <2> SUFFICES ASSUME NEW skip \in SUBSET Channels, NEW defer \in SUBSET Channels
                 PROVE  /\ Planned(skip, defer) \in Task
                        /\ Planned(skip, defer).pc \notin InTransport
        OBVIOUS
    <2>1. /\ (remaining \ (skip \cup defer)) \cap External \in SUBSET External
          /\ (InApp \in remaining \ (skip \cup defer)) \in BOOLEAN
        OBVIOUS
    <2> HIDE DEF remaining, read
    <2> QED
        BY <1>1, <1>2, <2>1, PlanTyped DEF InTransport, InFlight
<1>5. \A out \in {recovered, Idle.out} :
          Failed(out) \in Task /\ Failed(out).pc \notin InTransport
    <2>1. Idle.out \in [Channels -> Outcome]
        BY DEF Idle, Outcome
    <2>2. \A out \in [Channels -> Outcome] :
              Failed(out) \in Task /\ Failed(out).pc = "fallback"
        BY IdleTyped DEF Task, Idle
    <2> QED
        BY <1>1, <2>1, <2>2 DEF InTransport, InFlight
<1>6. \E t \in Task : /\ t.pc \notin InTransport
                      /\ task' = [task EXCEPT ![w] = t]
    <2>1. \/ \E skip, defer \in SUBSET Channels :
                task' = [task EXCEPT ![w] = Planned(skip, defer)]
          \/ \E out \in {recovered, Idle.out} :
                task' = [task EXCEPT ![w] = Failed(out)]
        <3>1. {} \in SUBSET Channels /\ remaining \in SUBSET Channels
            BY <1>3
        <3>2. \A s \in SUBSET (remaining \cap External) : s \in SUBSET Channels
            BY <1>3
        <3> QED
            BY <3>1, <3>2 DEF ReadJobs
    <2> HIDE DEF Planned, Failed
    <2> QED
        BY <1>4, <1>5, <2>1
<1>7. faults' \in Nat
    <2>1. faults' = faults \/ Fault
        BY Zenon DEF ReadJobs
    <2> QED
        BY <2>1 DEF Fault, IInv, TypeOK
<1>8. UNCHANGED <<outbox, job, receipt, dead, inbox, logged, sent>>
    BY DEF ReadJobs
<1> HIDE DEF Planned, Failed, remaining, read
<1> QED
    BY <1>6, <1>7, <1>8, TaskStep DEF IInv, TypeOK

(* The transport up to the claim of the send.                              *)
LEMMA TransportStep ==
    ASSUME IInv, NEW w \in Workers,
           \/ \E c \in External : beforeSend(w, c)
           \/ ReadReceipt(w) \/ PreflightFails(w) \/ RecordFails(w)
    PROVE  IInv'
<1>0. TypeOK /\ task[w] \in Task
    BY DEF IInv, TypeOK
<1>1. ASSUME NEW c \in External, beforeSend(w, c)
      PROVE  IInv'
    <2>1. [task[w] EXCEPT !.pc = "send", !.cur = c, !.todo = task[w].todo \ {c}]
              \in Task
        BY <1>0 DEF Task
    <2>2. task' = [task EXCEPT ![w] = [task[w] EXCEPT !.pc = "send", !.cur = c,
                                             !.todo = task[w].todo \ {c}]]
        BY <1>1 DEF beforeSend
    <2>3. TypeOK'
        BY <1>0, <1>1, <2>1, <2>2 DEF beforeSend, TypeOK
    <2>4. task'[w].pc \notin InFlight /\ task'[w].cur \in External
        BY <1>0, <2>2 DEF TypeOK, Task, InFlight
    <2>5. \A v \in Workers \ {w} : task'[v] = task[v]
        BY <1>0, <2>2 DEF TypeOK
    <2> QED
        BY <1>1, <2>3, <2>4, <2>5, QuietStep DEF beforeSend
<1>2. ASSUME NEW o \in Outcome, Outcomes(w, o), faults' \in Nat,
             UNCHANGED <<outbox, job, receipt, dead, inbox, logged, sent>>
      PROVE  IInv'
    <2>1. /\ task' \in [Workers -> Task]
          /\ task'[w].pc = "dispatch"
          /\ \A v \in Workers \ {w} : task'[v] = task[v]
        BY <1>0, <1>2, OutcomesTyped
    <2>2. TypeOK'
        BY <1>0, <1>2, <2>1 DEF TypeOK
    <2>3. task'[w].pc \notin InTransport
        BY <2>1 DEF InTransport, InFlight
    <2> QED
        BY <1>2, <2>1, <2>2, <2>3, QuietStep
<1>3. CASE ReadReceipt(w) /\ task' = [task EXCEPT ![w].pc = "prepared"]
    <2>1. [task[w] EXCEPT !.pc = "prepared"] \in Task
        BY <1>0 DEF Task
    <2>2. TypeOK'
        BY <1>0, <1>3, <2>1 DEF ReadReceipt, TypeOK
    <2>3. task'[w].pc = "prepared" /\ task'[w].cur = task[w].cur
        BY <1>0, <1>3 DEF TypeOK, Task
    <2>4. task[w].cur \in External
        BY <1>3 DEF ReadReceipt, IInv, TransportHasChannel, InTransport
    <2>5. \A v \in Workers \ {w} : task'[v] = task[v]
        BY <1>0, <1>3 DEF TypeOK
    <2>6. "prepared" \notin InFlight
        BY DEF InFlight
    <2> QED
        BY <1>3, <2>2, <2>3, <2>4, <2>5, <2>6, QuietStep DEF ReadReceipt
<1>4. CASE ReadReceipt(w) /\ Outcomes(w, readDeliveryReceipt(task[w].cur))
    BY <1>0, <1>2, <1>4, ReceiptOutcome DEF ReadReceipt, TypeOK
<1>5. CASE PreflightFails(w)
    BY <1>0, <1>2, <1>5 DEF PreflightFails, TypeOK, Outcome
<1>6. CASE RecordFails(w)
    <2>1. faults' \in Nat /\ "retry" \in Outcome
        BY <1>0, <1>6 DEF RecordFails, Fault, TypeOK, Outcome
    <2> QED
        BY <1>2, <1>6, <2>1 DEF RecordFails
<1> QED
    BY <1>1, <1>3, <1>4, <1>5, <1>6 DEF ReadReceipt

-----------------------------------------------------------------------------
(* The send: the receipt is claimed, the provider answers, the answer is   *)
(* recorded.                                                               *)

(* Two workers in flight are on different channels.                        *)
LEMMA FlightsApart ==
    ASSUME IInv, NEW v \in Workers, NEW w \in Workers, v # w,
           task[v].pc \in InFlight, task[w].pc \in InFlight
    PROVE  task[v].cur # task[w].cur
<1>1. /\ receipt[task[v].cur] = [status |-> "sending", by |-> v]
      /\ receipt[task[w].cur] = [status |-> "sending", by |-> w]
    BY Zenon DEF IInv, FlightIsFenced
<1>2. receipt[task[v].cur].by = v /\ receipt[task[w].cur].by = w
    BY <1>1
<1> QED
    BY <1>2

LEMMA DeliveryStep ==
    ASSUME IInv, NEW w \in Workers, durableDelivery(w)
    PROVE  IInv'
<1> DEFINE c == task[w].cur
<1>0. TypeOK /\ task[w] \in Task /\ c \in External
    BY DEF IInv, TypeOK, TransportHasChannel, InTransport, durableDelivery
<1>1. CASE /\ Claimable(c)
           /\ receipt' = [receipt EXCEPT ![c] = [status |-> "sending", by |-> w]]
           /\ task' = [task EXCEPT ![w].pc = "io"]
    <2>1. [task[w] EXCEPT !.pc = "io"] \in Task
        BY <1>0 DEF Task
    <2>2. task' \in [Workers -> Task] /\ receipt' \in [External -> ReceiptRow]
        BY <1>0, <1>1, <2>1 DEF TypeOK, ReceiptRow
    <2>3. TypeOK'
        BY <1>0, <2>2 DEF TypeOK, durableDelivery
    <2>4. /\ task'[w].pc = "io" /\ task'[w].cur = c
          /\ \A v \in Workers \ {w} : task'[v] = task[v]
        BY <1>0, <1>1 DEF TypeOK, Task
    <2>5. /\ receipt'[c] = [status |-> "sending", by |-> w]
          /\ \A d \in External \ {c} : receipt'[d] = receipt[d]
          /\ sent' = sent
        BY <1>0, <1>1 DEF TypeOK, durableDelivery
    <2>6. sent[c] = 0
        BY <1>0, <1>1 DEF Claimable, IInv, AtMostOneSend
    <2>7. AtMostOneSend'
        BY <1>0, <2>5, <2>6 DEF IInv, AtMostOneSend
    <2>8. TransportHasChannel'
        BY <1>0, <2>4 DEF IInv, TransportHasChannel
    <2>9. FlightIsFenced'
        <3> SUFFICES ASSUME NEW v \in Workers, task'[v].pc \in InFlight
                     PROVE  /\ receipt'[task'[v].cur] =
                                  [status |-> "sending", by |-> v]
                            /\ task'[v].pc \in {"io", "rejected"} =>
                                  sent'[task'[v].cur] = 0
                            /\ task'[v].pc = "accepted" =>
                                  sent'[task'[v].cur] = 1
            BY DEF FlightIsFenced
        <3>1. CASE v = w
            BY <2>4, <2>5, <2>6, <3>1
        <3>2. CASE v # w
            <4>0. receipt[task[v].cur] = [status |-> "sending", by |-> v]
                BY <2>4, <3>2, Zenon DEF IInv, FlightIsFenced
            <4>1. task[v].cur \in External /\ receipt[task[v].cur].status = "sending"
                BY <2>4, <3>2, <4>0 DEF IInv, TransportHasChannel, InTransport
            <4>2. task[v].cur # c
                BY <1>1, <4>1 DEF Claimable
            <4> QED
                BY <2>4, <2>5, <3>2, <4>1, <4>2 DEF IInv, FlightIsFenced
        <3> QED
            BY <3>1, <3>2
    <2> QED
        BY <2>3, <2>7, <2>8, <2>9 DEF IInv
<1>2. CASE /\ \E o \in Outcome : Outcomes(w, o)
           /\ receipt' = receipt
    <2>1. /\ task' \in [Workers -> Task]
          /\ task'[w].pc = "dispatch"
          /\ \A v \in Workers \ {w} : task'[v] = task[v]
        BY <1>0, <1>2, OutcomesTyped
    <2>2. TypeOK'
        BY <1>0, <1>2, <2>1 DEF TypeOK, durableDelivery
    <2> QED
        BY <1>2, <2>1, <2>2, QuietStep DEF durableDelivery, InTransport, InFlight
<1>3. readDeliveryReceipt(c) \in Outcome /\ "reconcile" \in Outcome
    BY ReceiptOutcome DEF Outcome
<1> QED
    BY <1>1, <1>2, <1>3 DEF durableDelivery

LEMMA AnswerStep ==
    ASSUME IInv, NEW w \in Workers, ProviderAnswers(w)
    PROVE  IInv'
<1> DEFINE c == task[w].cur
<1>0. /\ TypeOK /\ task[w] \in Task /\ c \in External
      /\ task[w].pc = "io" /\ task[w].pc \in InFlight
    BY DEF IInv, TypeOK, TransportHasChannel, InTransport, InFlight,
           ProviderAnswers
<1>1. PICK n \in {0, 1}, pc \in {"accepted", "rejected", "uncertain"} :
          /\ task' = [task EXCEPT ![w].pc = pc]
          /\ sent' = [sent EXCEPT ![c] = @ + n]
          /\ pc = "accepted" => n = 1
          /\ pc = "rejected" => n = 0
    BY DEF ProviderAnswers
<1>2. sent[c] = 0 /\ receipt[c] = [status |-> "sending", by |-> w]
    BY <1>0 DEF IInv, FlightIsFenced
<1>3. [task[w] EXCEPT !.pc = pc] \in Task
    BY <1>0 DEF Task
<1>4. task' \in [Workers -> Task]
    BY <1>0, <1>1, <1>3 DEF TypeOK
<1>5. sent' \in [External -> Nat] /\ sent'[c] = n
    BY <1>0, <1>1, <1>2 DEF TypeOK
<1>6. /\ \A d \in External \ {c} : sent'[d] = sent[d]
      /\ receipt' = receipt
    BY <1>0, <1>1 DEF TypeOK, ProviderAnswers
<1>7. TypeOK'
    BY <1>0, <1>4, <1>5 DEF TypeOK, ProviderAnswers
<1>8. /\ task'[w].pc = pc /\ task'[w].cur = c
      /\ \A v \in Workers \ {w} : task'[v] = task[v]
    BY <1>0, <1>1 DEF TypeOK, Task
<1>9. AtMostOneSend'
    BY <1>0, <1>2, <1>5, <1>6 DEF IInv, AtMostOneSend
<1>10. TransportHasChannel'
    BY <1>0, <1>8 DEF IInv, TransportHasChannel
<1>11. FlightIsFenced'
    <2> SUFFICES ASSUME NEW v \in Workers, task'[v].pc \in InFlight
                 PROVE  /\ receipt'[task'[v].cur] =
                              [status |-> "sending", by |-> v]
                        /\ task'[v].pc \in {"io", "rejected"} =>
                              sent'[task'[v].cur] = 0
                        /\ task'[v].pc = "accepted" =>
                              sent'[task'[v].cur] = 1
        BY DEF FlightIsFenced
    <2>1. CASE v = w
        BY <1>1, <1>2, <1>5, <1>6, <1>8, <2>1
    <2>2. CASE v # w
        <3>1. task[v].cur # c /\ task[v].cur \in External
            BY <1>0, <1>8, <2>2, FlightsApart
               DEF IInv, TransportHasChannel, InTransport
        <3> QED
            BY <1>6, <1>8, <2>2, <3>1 DEF IInv, FlightIsFenced
    <2> QED
        BY <2>1, <2>2
<1> QED
    BY <1>7, <1>9, <1>10, <1>11 DEF IInv

LEMMA RecordStep ==
    ASSUME IInv, NEW w \in Workers, RecordSend(w)
    PROVE  IInv'
<1> DEFINE c == task[w].cur
           mine == receipt[c] = [status |-> "sending", by |-> w]
<1>0. /\ TypeOK /\ task[w] \in Task /\ c \in External
      /\ task[w].pc \in {"accepted", "rejected", "uncertain"}
      /\ task[w].pc \in InFlight
    BY DEF IInv, TypeOK, TransportHasChannel, InTransport, InFlight, RecordSend
<1>1. mine
    BY <1>0 DEF IInv, FlightIsFenced
<1>2. PICK status \in {"accepted", "rejected", "unknown"} :
          /\ receipt' = [receipt EXCEPT ![c] = [status |-> status, by |-> None]]
          /\ status = "accepted" => task[w].pc = "accepted"
          /\ status = "rejected" => task[w].pc = "rejected"
    BY <1>1 DEF RecordSend
<1>3. \E o \in Outcome : Outcomes(w, o)
    <2>1. \A o \in {"delivered", "permanent", "reconcile", "retry"} : o \in Outcome
        BY DEF Outcome
    <2> QED
        BY <1>1, <2>1 DEF RecordSend
<1>4. /\ task' \in [Workers -> Task]
      /\ task'[w].pc = "dispatch"
      /\ \A v \in Workers \ {w} : task'[v] = task[v]
    BY <1>0, <1>3, OutcomesTyped
<1>5. /\ receipt' \in [External -> ReceiptRow]
      /\ receipt'[c].status = status
      /\ \A d \in External \ {c} : receipt'[d] = receipt[d]
    BY <1>0, <1>2 DEF TypeOK, ReceiptRow
<1>6. logged' \in [Channels -> Nat] /\ faults' \in Nat
    <2>1. \/ logged' = logged
          \/ logged' = [logged EXCEPT ![c] = @ + 1]
        BY DEF RecordSend
    <2>2. faults' = faults \/ Fault
        BY Zenon DEF RecordSend
    <2>3. logged' \in [Channels -> Nat]
        BY <1>0, <2>1 DEF TypeOK, Channels
    <2> QED
        BY <1>0, <2>2, <2>3 DEF TypeOK, Fault
<1>7. TypeOK'
    BY <1>0, <1>4, <1>5, <1>6 DEF TypeOK, RecordSend
<1>8. sent' = sent
    BY DEF RecordSend
<1>9. AtMostOneSend'
    <2>1. /\ task[w].pc = "rejected" => sent[c] = 0
          /\ task[w].pc = "accepted" => sent[c] = 1
        BY <1>0 DEF IInv, FlightIsFenced
    <2>2. /\ status = "accepted" => sent[c] = 1
          /\ status = "rejected" => sent[c] = 0
          /\ sent[c] <= 1
        BY <1>0, <1>2, <2>1 DEF IInv, AtMostOneSend
    <2> HIDE DEF c
    <2> QED
        BY <1>5, <1>8, <2>2 DEF IInv, AtMostOneSend
<1>10. TransportHasChannel'
    BY <1>4 DEF IInv, TransportHasChannel, InTransport, InFlight
<1>11. FlightIsFenced'
    <2> SUFFICES ASSUME NEW v \in Workers, task'[v].pc \in InFlight
                 PROVE  /\ v # w /\ task'[v] = task[v]
                        /\ task[v].cur # c /\ task[v].cur \in External
        BY <1>5, <1>8 DEF IInv, FlightIsFenced
    <2>1. v # w /\ task'[v] = task[v]
        BY <1>4 DEF InFlight
    <2> QED
        BY <1>0, <2>1, FlightsApart DEF IInv, TransportHasChannel, InTransport
<1> QED
    BY <1>7, <1>9, <1>10, <1>11 DEF IInv

(* The outcomes are stored.                                                *)
LEMMA PersistStep ==
    ASSUME IInv, NEW w \in Workers, Persist(w) \/ Fallback(w)
    PROVE  IInv'
<1>0. TypeOK /\ task[w] \in Task
    BY DEF IInv, TypeOK
<1>1. task' = [task EXCEPT ![w] = Idle]
    BY DEF Persist, Fallback
<1>2. /\ task' \in [Workers -> Task]
      /\ \A v \in Workers : task'[v] = task[v] \/ task'[v].pc = "idle"
    BY <1>0, <1>1, IdleTyped DEF TypeOK, Idle
<1>3. inbox' \in Nat
    BY <1>0 DEF Persist, Fallback, TypeOK
<1>4. \E read \in [Channels -> Nat], out \in [Channels -> Outcome] :
          \E skip, defer : persistOutcomes(read, out, skip, defer)
    <2>1. CASE Persist(w)
        <3> DEFINE t == task[w]
        <3>1. PICK out \in {t.out, [t.out EXCEPT ![InApp] = "delivered"],
                            [t.out EXCEPT ![InApp] = "retry"]} :
                  persistOutcomes(t.read, out, t.skip, t.defer)
            BY <2>1, Zenon DEF Persist
        <3>2. out \in [Channels -> Outcome] /\ t.read \in [Channels -> Nat]
            BY <1>0 DEF Task, Outcome
        <3> QED
            BY <3>1, <3>2
    <2>2. CASE Fallback(w)
        <3> DEFINE out == [c \in Channels |->
                             CASE c \notin DueJobs -> "none"
                               [] c \in DueJobs /\ task[w].out[c] # "none" ->
                                       task[w].out[c]
                               [] OTHER -> "retry"]
                   read == [c \in Channels |-> job[c].attempts]
        <3>1. persistOutcomes(read, out, {}, {})
            BY <2>2 DEF Fallback
        <3>2. out \in [Channels -> Outcome]
            BY <1>0 DEF Task, Outcome
        <3>3. read \in [Channels -> Nat]
            BY <1>0 DEF TypeOK, JobRow
        <3> HIDE DEF read, out
        <3> QED
            BY <3>1, <3>2, <3>3
    <2> QED
        BY <2>1, <2>2
<1>5. /\ outbox' \in OutboxRow
      /\ job' \in [Channels -> JobRow]
      /\ dead' \in [Channels -> DeadLetter]
      /\ logged' \in [Channels -> Nat]
    BY <1>0, <1>4, PersistTyped
<1>6. UNCHANGED <<receipt, sent, faults>>
    BY DEF Persist, Fallback
<1>7. TypeOK'
    BY <1>0, <1>2, <1>3, <1>5, <1>6 DEF TypeOK
<1> QED
    BY <1>2, <1>6, <1>7, QuietStep DEF InTransport, InFlight

-----------------------------------------------------------------------------

LEMMA InitStep == Init => IInv
<1> SUFFICES ASSUME Init PROVE IInv
    OBVIOUS
<1>1. TypeOK
    BY IdleTyped DEF Init, TypeOK, OutboxRow, JobRow, NewJob, ReceiptRow, DeadLetter
<1>2. \A w \in Workers : task[w].pc = "idle"
    BY DEF Init, Idle
<1> QED
    BY <1>1, <1>2 DEF IInv, Init, AtMostOneSend, TransportHasChannel,
                      FlightIsFenced, InTransport, InFlight

LEMMA NextStep == IInv /\ [Next]_vars => IInv'
<1> SUFFICES ASSUME IInv, [Next]_vars PROVE IInv'
    OBVIOUS
<1>1. ASSUME NEW w \in Workers, leaseOutbox(w) \/ WorkerStep(w) \/ Crash(w)
      PROVE  IInv'
    BY <1>1, ClaimStep, ReadJobsStep, TransportStep, DeliveryStep, AnswerStep,
       RecordStep, PersistStep DEF WorkerStep
<1>2. CASE UNCHANGED vars
    <2>1. TypeOK'
        BY <1>2 DEF IInv, TypeOK, vars
    <2> QED
        BY <1>2, <2>1, QuietStep DEF vars
<1> QED
    BY <1>1, <1>2, RowStep DEF Next

LEMMA Inductive == Spec => []IInv
BY InitStep, NextStep, PTL DEF Spec

(* The tables of the outbox and every worker's task keep their types.      *)
THEOREM TypeCorrect == Spec => []TypeOK
<1>1. IInv => TypeOK
    BY DEF IInv
<1> QED
    BY <1>1, Inductive, PTL

(* durableDelivery: for any number of workers that stall, die or lose      *)
(* their lease, the provider accepts at most one message per channel, and  *)
(* a receipt that says accepted or rejected tells the truth.               *)
THEOREM SendsOnce == Spec => []AtMostOneSend
<1>1. IInv => AtMostOneSend
    BY DEF IInv
<1> QED
    BY <1>1, Inductive, PTL

-----------------------------------------------------------------------------
(***************************************************************************)
(* Jobs, inbox, delivery log and triage agree with each other and with the *)
(* receipts, and a job that ended stays as it is.                          *)
(*                                                                         *)
(* A worker writes what it planned when it read the jobs, which may be     *)
(* long ago.  What makes that safe is ClaimIsCurrent: as long as the claim *)
(* that it compares under the row lock is its own, every leg it planned is *)
(* still pending, for whoever ends a leg also takes the claim away, and a  *)
(* worker gets a new claim only with a new plan.  OutcomesAreTrue says     *)
(* that a delivery it remembers is on the receipt.                         *)
(***************************************************************************)

Working == {"dispatch", "fallback"} \cup InTransport

Claims(w) == outbox.lease = w /\ outbox.live

(* The plan t will write something to channel c.                           *)
Touches(t, c) ==
    \/ t.out[c] # "none"
    \/ c \in t.skip \cup t.todo
    \/ t.pc \in InTransport /\ c = t.cur
    \/ t.inApp /\ c = InApp

ClaimIsCurrent ==
    \A w \in Workers : task[w].pc \in Working /\ Claims(w) =>
        \A c \in Channels : Touches(task[w], c) => ~terminalJob(job[c])

OutcomesAreTrue ==
    \A w \in Workers : task[w].pc \in Working =>
        /\ task[w].out[InApp] = "none"
        /\ \A c \in External : task[w].out[c] = "delivered" =>
              receipt[c].status = "accepted"

Records ==
    /\ DoneIsDelivered
    /\ LoggedOnce
    /\ DeadIsTriaged

RInv ==
    /\ IInv
    /\ Records
    /\ ClaimIsCurrent
    /\ OutcomesAreTrue

(* No job that ended changes, or staff retry it.                           *)
JobsStay == \A c \in Channels : terminalJob(job[c]) => job'[c] = job[c]

EndedStep ==
    \A c \in Channels :
        terminalJob(job[c]) /\ job'[c] # job[c] =>
            /\ dead[c] = "open" /\ dead'[c] = "retried"
            /\ job'[c] = NewJob

Kept == Records' /\ ClaimIsCurrent' /\ OutcomesAreTrue' /\ EndedStep

Accepted(c) == receipt[c].status = "accepted"

-----------------------------------------------------------------------------
(* Storing outcomes for pending legs keeps the records.                    *)

LEMMA PersistKeepsRecords ==
    ASSUME TypeOK, Records, NEW read \in [Channels -> Nat],
           NEW out \in [Channels -> Outcome], NEW skip, NEW defer,
           persistOutcomes(read, out, skip, defer), receipt' = receipt,
           \A c \in Channels : out[c] # "none" \/ c \in skip =>
              ~terminalJob(job[c]),
           \A c \in External : out[c] = "delivered" => Accepted(c),
           inbox' = IF out[InApp] = "delivered" THEN 1 ELSE inbox
    PROVE  Records' /\ JobsStay /\ outbox'.lease = None /\ ~outbox'.live
<1> DEFINE Cases(c) ==
        \/ out[c] # "none" /\ job'[c] = AfterOutcome(read[c], out[c])
        \/ /\ out[c] = "none" /\ c \in skip
           /\ job'[c] = [job[c] EXCEPT !.status = "failed"]
        \/ /\ out[c] = "none" /\ ~terminalJob(job[c])
           /\ job'[c] = [job[c] EXCEPT !.due = FALSE]
        \/ out[c] = "none" /\ job'[c] = job[c]
<1>1. \A c \in Channels : job[c] \in JobRow
    BY DEF TypeOK
<1>2. \A c \in Channels : Cases(c)
    BY DEF persistOutcomes, JobsAfter
<1>3. \A c \in Channels :
          \/ /\ out[c] # "none"
             /\ job'[c].status = "done" => out[c] = "delivered"
             /\ out[c] = "delivered" => job'[c].status = "done"
             /\ ~terminalJob(job[c])
          \/ /\ out[c] = "none" /\ ~terminalJob(job[c])
             /\ job'[c].status \in {"failed", job[c].status}
          \/ out[c] = "none" /\ job'[c] = job[c]
    <2> SUFFICES ASSUME NEW c \in Channels
                 PROVE  \/ /\ out[c] # "none"
                           /\ job'[c].status = "done" => out[c] = "delivered"
                           /\ out[c] = "delivered" => job'[c].status = "done"
                           /\ ~terminalJob(job[c])
                        \/ /\ out[c] = "none" /\ ~terminalJob(job[c])
                           /\ job'[c].status \in {"failed", job[c].status}
                        \/ out[c] = "none" /\ job'[c] = job[c]
        OBVIOUS
    <2>1. /\ AfterOutcome(read[c], out[c]).status = "done" => out[c] = "delivered"
          /\ out[c] = "delivered" => AfterOutcome(read[c], out[c]).status = "done"
        BY DEF AfterOutcome
    <2>2. /\ [job[c] EXCEPT !.status = "failed"].status = "failed"
          /\ [job[c] EXCEPT !.due = FALSE].status = job[c].status
        BY <1>1 DEF JobRow
    <2> QED
        BY <1>2, <2>1, <2>2
<1> HIDE DEF Cases
<1>4. InApp \in Channels /\ External \subseteq Channels
    BY DEF Channels
<1>5. JobsStay
    BY <1>3 DEF JobsStay, terminalJob
<1>6. DoneIsDelivered'
    <2>1. \A c \in External : job'[c].status = "done" => receipt'[c].status = "accepted"
        BY <1>3, <1>4 DEF Records, DoneIsDelivered, Accepted, terminalJob
    <2>2. inbox' <= 1 /\ (job'[InApp].status = "done" <=> inbox' = 1)
        BY <1>3, <1>4 DEF Records, DoneIsDelivered, terminalJob
    <2> QED
        BY <2>1, <2>2 DEF DoneIsDelivered
<1>7. LoggedOnce'
    <2>1. logged' = writeDeliveryLog(out)
        BY DEF persistOutcomes
    <2>2. logged'[InApp] = IF out[InApp] = "delivered" THEN logged[InApp] + 1
                                                       ELSE logged[InApp]
        BY <1>4, <2>1 DEF writeDeliveryLog
    <2>3. out[InApp] = "delivered" => inbox = 0
        BY <1>3, <1>4 DEF Records, DoneIsDelivered, TypeOK, terminalJob
    <2>4. logged'[InApp] = inbox'
        BY <2>2, <2>3 DEF Records, LoggedOnce
    <2>5. \A c \in External : logged'[c] = logged[c]
        BY <1>4, <2>1, ChannelsAssumption DEF writeDeliveryLog, Accepted
    <2> QED
        BY <2>4, <2>5 DEF Records, LoggedOnce
<1>8. DeadIsTriaged'
    <2>1. \A c \in Channels :
              dead'[c] = IF out[c] # "none" /\ job'[c].status = "dead_letter"
                         THEN "open" ELSE dead[c]
        BY DEF persistOutcomes, writeDeadLetter
    <2> QED
        BY <1>3, <2>1 DEF Records, DeadIsTriaged, terminalJob
<1>9. outbox'.lease = None /\ ~outbox'.live
    BY DEF persistOutcomes, refreshOutboxState
<1> QED
    BY <1>5, <1>6, <1>7, <1>8, <1>9 DEF Records

(* Steps that leave the status of the jobs, the inbox, the log and triage  *)
(* alone, and the receipts accepted or not as they were.                   *)
LEMMA RecordsFrame ==
    ASSUME Records, UNCHANGED <<dead, inbox, logged>>,
           \A c \in Channels : job'[c].status = job[c].status,
           \A c \in External : Accepted(c)' <=> Accepted(c)
    PROVE  Records'
<1>1. InApp \in Channels /\ External \subseteq Channels
    BY DEF Channels
<1> QED
    BY <1>1 DEF Records, DoneIsDelivered, LoggedOnce, DeadIsTriaged, Accepted

(* Steps that change no working task.                                      *)
LEMMA TasksFrame ==
    ASSUME ClaimIsCurrent, OutcomesAreTrue,
           \A c \in External : Accepted(c) => Accepted(c)',
           \A v \in Workers : task'[v].pc \in Working =>
              /\ task'[v] = task[v]
              /\ Claims(v)' => /\ Claims(v)
                               /\ \A c \in Channels :
                                     terminalJob(job[c])' => terminalJob(job[c])
    PROVE  ClaimIsCurrent' /\ OutcomesAreTrue'
BY DEF ClaimIsCurrent, OutcomesAreTrue, Accepted, Touches

(* Steps of one task that add only pending legs to its plan.               *)
LEMMA PlanFrame ==
    ASSUME ClaimIsCurrent, OutcomesAreTrue, NEW w \in Workers,
           UNCHANGED <<outbox, job>>,
           \A c \in External : Accepted(c) => Accepted(c)',
           \A v \in Workers \ {w} : task'[v] = task[v],
           \A c \in Channels : Touches(task'[w], c) =>
              \/ ~terminalJob(job[c])
              \/ task[w].pc \in Working /\ Touches(task[w], c),
           task'[w].out[InApp] = "none",
           \A c \in External : task'[w].out[c] = "delivered" => Accepted(c)'
    PROVE  ClaimIsCurrent' /\ OutcomesAreTrue'
<1>1. \A v \in Workers : Claims(v)' => Claims(v)
    BY DEF Claims
<1>2. ClaimIsCurrent'
    <2> SUFFICES ASSUME NEW v \in Workers, task'[v].pc \in Working, Claims(v)',
                        NEW c \in Channels, Touches(task'[v], c)
                 PROVE  ~terminalJob(job[c])
        BY DEF ClaimIsCurrent
    <2>1. \/ ~terminalJob(job[c])
          \/ task[v].pc \in Working /\ Touches(task[v], c)
        OBVIOUS
    <2> QED
        BY <1>1, <2>1 DEF ClaimIsCurrent
<1>3. OutcomesAreTrue'
    <2> SUFFICES ASSUME NEW v \in Workers, task'[v].pc \in Working
                 PROVE  /\ task'[v].out[InApp] = "none"
                        /\ \A c \in External : task'[v].out[c] = "delivered" =>
                              Accepted(c)'
        BY DEF OutcomesAreTrue, Accepted
    <2>1. CASE v = w
        BY <2>1
    <2>2. CASE v # w
        BY <2>2 DEF OutcomesAreTrue, Accepted
    <2> QED
        BY <2>1, <2>2
<1> QED
    BY <1>2, <1>3

-----------------------------------------------------------------------------
(* The row, the clock and triage.                                          *)

LEMMA RowKeeps ==
    ASSUME RInv,
           \/ enqueueOutbox \/ reconcileChannelWindows
           \/ LeaseLapses \/ LeaseExpires
           \/ \E c \in Channels : \/ TimePasses(c) \/ retryFailedNotification(c)
                                  \/ closeFailedNotification(c)
    PROVE  Kept
<1>0. /\ outbox \in OutboxRow /\ job \in [Channels -> JobRow]
      /\ ClaimIsCurrent /\ OutcomesAreTrue /\ Records
    BY DEF RInv, IInv, TypeOK
<1>1. task' = task /\ receipt' = receipt
    BY DEF enqueueOutbox, reconcileChannelWindows, LeaseLapses, LeaseExpires,
           TimePasses, retryFailedNotification, closeFailedNotification
<1>2. \A c \in External : Accepted(c)' <=> Accepted(c)
    BY <1>1 DEF Accepted
<1>3. InApp \in Channels /\ External \subseteq Channels
    BY DEF Channels
<1>4. CASE enqueueOutbox
    <2>1. \A w \in Workers : Claims(w)' => Claims(w)
        BY <1>0, <1>4 DEF enqueueOutbox, Claims, OutboxRow
    <2> QED
        BY <1>0, <1>1, <1>2, <1>4, <2>1, RecordsFrame, TasksFrame
           DEF enqueueOutbox, Kept, EndedStep
<1>5. CASE reconcileChannelWindows
    <2>1. PICK later \in SUBSET (DueJobs \cap External) :
              /\ job' = [c \in Channels |->
                            IF c \in later THEN [job[c] EXCEPT !.due = FALSE]
                                           ELSE job[c]]
              /\ outbox' = refreshOutboxState(job')
        BY <1>5 DEF reconcileChannelWindows
    <2>2. \A w \in Workers : ~Claims(w)'
        BY <2>1 DEF refreshOutboxState, Claims
    <2>3. \A c \in Channels : job'[c].status = job[c].status
        BY <1>0, <2>1 DEF JobRow
    <2>4. JobsStay
        BY <2>1 DEF JobsStay, DueJobs
    <2> QED
        BY <1>0, <1>1, <1>2, <1>5, <2>2, <2>3, <2>4, RecordsFrame, TasksFrame
           DEF reconcileChannelWindows, Kept, EndedStep, JobsStay
<1>6. CASE LeaseLapses \/ LeaseExpires
    <2>1. \A w \in Workers : ~Claims(w)'
        BY <1>0, <1>6 DEF LeaseLapses, LeaseExpires, Claims, OutboxRow
    <2>2. UNCHANGED <<job, dead, inbox, logged>>
        BY <1>6 DEF LeaseLapses, LeaseExpires
    <2> QED
        BY <1>0, <1>1, <1>2, <2>1, <2>2, RecordsFrame, TasksFrame
           DEF Kept, EndedStep
<1>7. ASSUME NEW c \in Channels, TimePasses(c)
      PROVE  Kept
    <2>1. \A w \in Workers : Claims(w)' => Claims(w)
        BY <1>0, <1>7 DEF TimePasses, Claims, OutboxRow
    <2>2. \A d \in Channels : job'[d].status = job[d].status
        BY <1>0, <1>7 DEF TimePasses, JobRow
    <2>3. \A d \in Channels : terminalJob(job[d])' => terminalJob(job[d])
        BY <2>2 DEF terminalJob
    <2>4. JobsStay
        BY <1>0, <1>7 DEF TimePasses, JobsStay
    <2> QED
        BY <1>0, <1>1, <1>2, <1>7, <2>1, <2>2, <2>3, <2>4, RecordsFrame, TasksFrame
           DEF TimePasses, Kept, EndedStep, JobsStay
<1>8. ASSUME NEW c \in Channels, retryFailedNotification(c)
      PROVE  Kept
    <2>1. \A w \in Workers : ~Claims(w)'
        BY <1>8 DEF retryFailedNotification, Claims
    <2>2. /\ job'[c] = NewJob /\ job'[c].status = "queued"
          /\ \A d \in Channels \ {c} : job'[d] = job[d]
          /\ dead'[c] = "retried" /\ \A d \in Channels \ {c} : dead'[d] = dead[d]
          /\ inbox' = inbox /\ logged' = logged
          /\ job[c].status = "dead_letter" /\ dead[c] = "open"
        BY <1>0, <1>8 DEF retryFailedNotification, NewJob, RInv, IInv, TypeOK
    <2>3. EndedStep
        BY <2>2 DEF EndedStep
    <2>4. DoneIsDelivered'
        BY <1>1, <1>3, <2>2, <1>0 DEF Records, DoneIsDelivered
    <2>5. LoggedOnce' /\ DeadIsTriaged'
        BY <1>0, <1>1, <2>2 DEF Records, LoggedOnce, DeadIsTriaged
    <2> QED
        BY <1>0, <1>1, <1>2, <2>1, <2>3, <2>4, <2>5, TasksFrame DEF Kept, Records
<1>9. ASSUME NEW c \in Channels, closeFailedNotification(c)
      PROVE  Kept
    <2>1. UNCHANGED <<outbox, job, inbox, logged>>
        BY <1>9 DEF closeFailedNotification
    <2>2. DeadIsTriaged'
        BY <1>0, <1>9 DEF closeFailedNotification, Records, DeadIsTriaged, RInv,
                          IInv, TypeOK
    <2>3. Records'
        BY <1>0, <1>1, <2>1, <2>2 DEF Records, DoneIsDelivered, LoggedOnce
    <2> QED
        BY <1>0, <1>1, <1>2, <2>1, <2>3, TasksFrame DEF Kept, EndedStep, Claims
<1> QED
    BY <1>4, <1>5, <1>6, <1>7, <1>8, <1>9

(* Claims, losses and crashes.                                             *)
LEMMA ClaimKeeps ==
    ASSUME RInv, NEW w \in Workers,
           leaseOutbox(w) \/ startOutboxLease(w) \/ LeaseLost(w) \/ stop(w) \/ Crash(w)
    PROVE  Kept
<1>0. /\ outbox \in OutboxRow /\ task \in [Workers -> Task]
      /\ ClaimIsCurrent /\ OutcomesAreTrue /\ Records
    BY DEF RInv, IInv, TypeOK
<1>1. UNCHANGED <<job, receipt, dead, inbox, logged>>
    BY DEF leaseOutbox, startOutboxLease, LeaseLost, stop, Crash
<1>2. Records' /\ EndedStep
    BY <1>0, <1>1, RecordsFrame DEF EndedStep, Accepted
<1>3. \A v \in Workers \ {w} : task'[v] = task[v] /\ (Claims(v)' => Claims(v))
    BY <1>0, WorkersAssumption
       DEF leaseOutbox, startOutboxLease, LeaseLost, stop, Crash, Claims, OutboxRow
<1>4. task'[w].pc \in {"claimed", "started", "idle", "stop"}
    BY <1>0 DEF leaseOutbox, startOutboxLease, LeaseLost, stop, Crash, Idle, Task
<1>5. task'[w].pc \notin Working
    BY <1>4 DEF Working, InTransport, InFlight
<1>6. ClaimIsCurrent' /\ OutcomesAreTrue'
    <2>1. \A c \in External : Accepted(c) => Accepted(c)'
        BY <1>1 DEF Accepted
    <2>2. \A c \in Channels : terminalJob(job[c])' => terminalJob(job[c])
        BY <1>1 DEF terminalJob
    <2> QED
        BY <1>0, <1>3, <1>5, <2>1, <2>2, TasksFrame
<1> QED
    BY <1>2, <1>6 DEF Kept

-----------------------------------------------------------------------------
(* A worker's plan.                                                        *)

LEMMA ReadJobsKeeps ==
    ASSUME RInv, NEW w \in Workers, ReadJobs(w)
    PROVE  Kept
<1> DEFINE remaining == {c \in DueJobs : recovered[c] = "none"}
<1>0. /\ task \in [Workers -> Task]
      /\ ClaimIsCurrent /\ OutcomesAreTrue /\ Records
    BY DEF RInv, IInv, TypeOK
<1>1. UNCHANGED <<outbox, job, receipt, dead, inbox, logged>>
    BY DEF ReadJobs
<1>2. Records' /\ EndedStep
    BY <1>0, <1>1, RecordsFrame DEF EndedStep, Accepted
<1>3. /\ recovered[InApp] = "none" /\ Idle.out[InApp] = "none"
      /\ \A c \in External : recovered[c] = "delivered" => Accepted(c)
      /\ \A c \in Channels : recovered[c] # "none" => c \in DueJobs
      /\ \A c \in Channels : Idle.out[c] = "none"
    BY ChannelsAssumption
       DEF recovered, Idle, readDeliveryReceipt, Accepted, Channels
<1>4. /\ task'[w].pc \in {"dispatch", "fallback"}
      /\ task'[w].out \in {recovered, Idle.out}
      /\ task'[w].skip \subseteq remaining
      /\ task'[w].todo \subseteq remaining
      /\ task'[w].inApp => InApp \in remaining
      /\ \A v \in Workers \ {w} : task'[v] = task[v]
    <2> DEFINE Planned(skip, defer) ==
                   [Idle EXCEPT !.pc = "dispatch",
                                !.read = [c \in Channels |-> job[c].attempts],
                                !.out = recovered, !.skip = skip, !.defer = defer,
                                !.todo = (remaining \ (skip \cup defer))
                                             \cap External,
                                !.inApp = InApp \in remaining \ (skip \cup defer)]
               Failed(out) == [Idle EXCEPT !.pc = "fallback", !.out = out]
    <2>1. \A skip, defer :
              /\ Planned(skip, defer).pc = "dispatch"
              /\ Planned(skip, defer).out = recovered
              /\ Planned(skip, defer).skip = skip
              /\ Planned(skip, defer).todo \subseteq remaining
              /\ Planned(skip, defer).inApp => InApp \in remaining
        BY DEF Idle
    <2>2. \A out : /\ Failed(out).pc = "fallback" /\ Failed(out).out = out
                   /\ Failed(out).skip = {} /\ Failed(out).todo = {}
                   /\ ~Failed(out).inApp
        BY DEF Idle
    <2>3. \/ \E skip \in SUBSET remaining : \E defer :
                task' = [task EXCEPT ![w] = Planned(skip, defer)]
          \/ \E out \in {recovered, Idle.out} :
                task' = [task EXCEPT ![w] = Failed(out)]
        <3>1. {} \in SUBSET remaining /\ remaining \in SUBSET remaining
            OBVIOUS
        <3>2. \A s \in SUBSET (remaining \cap External) : s \in SUBSET remaining
            OBVIOUS
        <3> QED
            BY <3>1, <3>2 DEF ReadJobs
    <2> HIDE DEF Planned, Failed, remaining
    <2> QED
        BY <1>0, <2>1, <2>2, <2>3
<1>5. remaining \subseteq DueJobs
    OBVIOUS
<1> HIDE DEF remaining
<1>6. \A c \in Channels : Touches(task'[w], c) => ~terminalJob(job[c])
    <2>1. task'[w].pc \notin InTransport
        BY <1>4 DEF InTransport, InFlight
    <2>2. \A c \in Channels : Touches(task'[w], c) => c \in DueJobs
        BY <1>3, <1>4, <1>5, <2>1 DEF Touches
    <2> QED
        BY <2>2 DEF DueJobs
<1>7. /\ task'[w].out[InApp] = "none"
      /\ \A c \in External : task'[w].out[c] = "delivered" => Accepted(c)'
    BY <1>1, <1>3, <1>4 DEF Accepted, Channels
<1>8. \A c \in External : Accepted(c) => Accepted(c)'
    BY <1>1 DEF Accepted
<1>9. ClaimIsCurrent' /\ OutcomesAreTrue'
    BY <1>0, <1>1, <1>4, <1>6, <1>7, <1>8, PlanFrame
<1> QED
    BY <1>2, <1>9 DEF Kept

(* A channel's outcome joins the plan; a delivery is on the receipt.       *)
LEMMA OutcomesKeep ==
    ASSUME RInv, NEW w \in Workers, NEW o \in Outcome, Outcomes(w, o),
           task[w].pc \in InTransport, UNCHANGED <<outbox, job>>,
           \A c \in External : Accepted(c) => Accepted(c)',
           o = "delivered" => receipt'[task[w].cur].status = "accepted"
    PROVE  ClaimIsCurrent' /\ OutcomesAreTrue'
<1> DEFINE t == task[w]
           u == task'[w]
<1>0. /\ ClaimIsCurrent /\ OutcomesAreTrue
      /\ t \in Task /\ task \in [Workers -> Task] /\ t.cur \in External
    BY DEF RInv, IInv, TypeOK, TransportHasChannel
<1>1. /\ u.pc = "dispatch" /\ u.skip = t.skip /\ u.todo = t.todo
      /\ u.inApp = t.inApp
      /\ \A v \in Workers \ {w} : task'[v] = task[v]
    BY <1>0 DEF Outcomes, Task
<1>2. u.out = [t.out EXCEPT ![t.cur] = o]
    BY <1>0 DEF Outcomes, Task
<1>3. \A c \in Channels : u.out[c] = IF c = t.cur THEN o ELSE t.out[c]
    BY <1>0, <1>2 DEF Task
<1>4. /\ t.out[InApp] = "none"
      /\ \A c \in External : t.out[c] = "delivered" => Accepted(c)
      /\ t.pc \in Working
    BY <1>0 DEF OutcomesAreTrue, Accepted, Working
<1> HIDE DEF t, u
<1>5. \A c \in Channels : Touches(u, c) => Touches(t, c)
    <2>1. u.pc \notin InTransport
        BY <1>1 DEF InTransport, InFlight
    <2> QED
        BY <1>1, <1>3, <2>1 DEF Touches, t
<1>6. /\ u.out[InApp] = "none"
      /\ \A c \in External : u.out[c] = "delivered" => Accepted(c)'
    <2>1. InApp \in Channels /\ External \subseteq Channels
        BY DEF Channels
    <2> QED
        BY <1>0, <1>3, <1>4, <2>1, ChannelsAssumption DEF t, Accepted
<1> QED
    BY <1>0, <1>1, <1>4, <1>5, <1>6, PlanFrame DEF t, u

(* The transport up to the claim of the send, and a rolled-back record.    *)
LEMMA TransportKeeps ==
    ASSUME RInv, NEW w \in Workers,
           \/ \E c \in External : beforeSend(w, c)
           \/ ReadReceipt(w) \/ PreflightFails(w) \/ RecordFails(w)
           \/ PersistFails(w)
    PROVE  Kept
<1>0. /\ task \in [Workers -> Task] /\ task[w] \in Task
      /\ ClaimIsCurrent /\ OutcomesAreTrue /\ Records
    BY DEF RInv, IInv, TypeOK
<1>1. UNCHANGED <<outbox, job, receipt, dead, inbox, logged>>
    BY DEF beforeSend, ReadReceipt, PreflightFails, RecordFails, PersistFails
<1>2. Records' /\ EndedStep
    BY <1>0, <1>1, RecordsFrame DEF EndedStep, Accepted
<1>3. \A c \in External : Accepted(c)' <=> Accepted(c)
    BY <1>1 DEF Accepted
<1>4. task[w].pc \in Working =>
          /\ task[w].out[InApp] = "none"
          /\ \A c \in External : task[w].out[c] = "delivered" => Accepted(c)'
    BY <1>0, <1>3 DEF OutcomesAreTrue, Accepted
<1>5. ASSUME task[w].pc \in Working, task'[w].out = task[w].out,
             \A v \in Workers \ {w} : task'[v] = task[v],
             \A c \in Channels : Touches(task'[w], c) => Touches(task[w], c)
      PROVE  ClaimIsCurrent' /\ OutcomesAreTrue'
    BY <1>0, <1>1, <1>3, <1>4, <1>5, PlanFrame
<1>6. ASSUME NEW c \in External, beforeSend(w, c)
      PROVE  ClaimIsCurrent' /\ OutcomesAreTrue'
    <2>1. /\ task[w].pc = "dispatch" /\ c \in task[w].todo
          /\ task'[w].out = task[w].out /\ task'[w].skip = task[w].skip
          /\ task'[w].todo = task[w].todo \ {c} /\ task'[w].cur = c
          /\ task'[w].inApp = task[w].inApp
          /\ \A v \in Workers \ {w} : task'[v] = task[v]
        BY <1>0, <1>6 DEF beforeSend, Task
    <2>2. \A d \in Channels : Touches(task'[w], d) => Touches(task[w], d)
        BY <2>1 DEF Touches
    <2>3. task[w].pc \in Working
        BY <2>1 DEF Working
    <2> QED
        BY <1>5, <2>1, <2>2, <2>3
<1>7. ASSUME task' = [task EXCEPT ![w].pc = "prepared"], task[w].pc = "send"
      PROVE  ClaimIsCurrent' /\ OutcomesAreTrue'
    <2>1. /\ task'[w].out = task[w].out /\ task'[w].skip = task[w].skip
          /\ task'[w].todo = task[w].todo /\ task'[w].cur = task[w].cur
          /\ task'[w].inApp = task[w].inApp
          /\ \A v \in Workers \ {w} : task'[v] = task[v]
        BY <1>0, <1>7 DEF Task
    <2>2. \A d \in Channels : Touches(task'[w], d) => Touches(task[w], d)
        BY <1>7, <2>1 DEF Touches, InTransport
    <2>3. task[w].pc \in Working
        BY <1>7 DEF Working, InTransport
    <2> QED
        BY <1>5, <2>1, <2>2, <2>3
<1>8. CASE ReadReceipt(w)
    <2>1. \/ task' = [task EXCEPT ![w].pc = "prepared"]
          \/ Outcomes(w, readDeliveryReceipt(task[w].cur))
        BY <1>8 DEF ReadReceipt
    <2>2. task[w].pc = "send" /\ task[w].pc \in InTransport
        BY <1>8 DEF ReadReceipt, InTransport
    <2>3. readDeliveryReceipt(task[w].cur) = "delivered" =>
              receipt'[task[w].cur].status = "accepted"
        BY <1>1 DEF readDeliveryReceipt
    <2> QED
        BY <1>1, <1>2, <1>3, <1>7, <2>1, <2>2, <2>3, ReceiptOutcome, OutcomesKeep
           DEF Kept
<1>9. CASE PreflightFails(w) \/ RecordFails(w)
    <2>1. \E o \in {"retry", "permanent"} : Outcomes(w, o)
        BY <1>9 DEF PreflightFails, RecordFails
    <2>2. task[w].pc \in InTransport
        BY <1>9 DEF PreflightFails, RecordFails, InTransport, InFlight
    <2>3. \A o \in {"retry", "permanent"} : o \in Outcome /\ o # "delivered"
        BY DEF Outcome
    <2> QED
        BY <1>1, <1>2, <1>3, <2>1, <2>2, <2>3, OutcomesKeep DEF Kept
<1>10. CASE PersistFails(w)
    <2>1. /\ task[w].pc = "dispatch" /\ task'[w].pc = "fallback"
          /\ task'[w].out = task[w].out /\ task'[w].skip = {}
          /\ task'[w].todo = {} /\ ~task'[w].inApp
          /\ \A v \in Workers \ {w} : task'[v] = task[v]
        BY <1>0, <1>10 DEF PersistFails, Idle
    <2>2. \A d \in Channels : Touches(task'[w], d) => Touches(task[w], d)
        BY <2>1 DEF Touches, InTransport, InFlight
    <2>3. task[w].pc \in Working
        BY <2>1 DEF Working
    <2> QED
        BY <1>2, <1>5, <2>1, <2>2, <2>3 DEF Kept
<1> QED
    BY <1>2, <1>6, <1>8, <1>9, <1>10 DEF Kept

(* The send.                                                               *)
LEMMA SendKeeps ==
    ASSUME RInv, NEW w \in Workers, durableDelivery(w) \/ ProviderAnswers(w)
    PROVE  Kept
<1> DEFINE c == task[w].cur
<1>0. /\ task \in [Workers -> Task] /\ task[w] \in Task /\ c \in External
      /\ receipt \in [External -> ReceiptRow]
      /\ ClaimIsCurrent /\ OutcomesAreTrue /\ Records
      /\ task[w].pc \in InTransport /\ task[w].pc \in Working
    BY DEF RInv, IInv, TypeOK, TransportHasChannel, InTransport, InFlight, Working,
           durableDelivery, ProviderAnswers
<1>1. UNCHANGED <<outbox, job, dead, inbox, logged>>
    BY DEF durableDelivery, ProviderAnswers
<1>2. \A d \in External : Accepted(d)' <=> Accepted(d)
    <2>1. \/ receipt' = receipt
          \/ /\ Claimable(c)
             /\ receipt' = [receipt EXCEPT ![c] = [status |-> "sending", by |-> w]]
        BY DEF durableDelivery, ProviderAnswers
    <2>2. CASE receipt' = receipt
        BY <2>2 DEF Accepted
    <2>3. CASE /\ Claimable(c)
               /\ receipt' = [receipt EXCEPT ![c] = [status |-> "sending", by |-> w]]
        <3>1. receipt'[c].status = "sending"
            BY <1>0, <2>3
        <3>2. \A d \in External \ {c} : receipt'[d] = receipt[d]
            BY <1>0, <2>3
        <3> HIDE DEF c
        <3> QED
            BY <2>3, <3>1, <3>2 DEF Accepted, Claimable
    <2> QED
        BY <2>1, <2>2, <2>3
<1>3. Records' /\ EndedStep
    BY <1>0, <1>1, <1>2, RecordsFrame DEF EndedStep
<1>4. ASSUME NEW pc \in InFlight, task' = [task EXCEPT ![w].pc = pc]
      PROVE  ClaimIsCurrent' /\ OutcomesAreTrue'
    <2>1. /\ task'[w].out = task[w].out /\ task'[w].skip = task[w].skip
          /\ task'[w].todo = task[w].todo /\ task'[w].cur = task[w].cur
          /\ task'[w].inApp = task[w].inApp
          /\ \A v \in Workers \ {w} : task'[v] = task[v]
        BY <1>0, <1>4 DEF Task
    <2>2. \A d \in Channels : Touches(task'[w], d) => Touches(task[w], d)
        BY <1>0, <2>1 DEF Touches
    <2>3. /\ task[w].out[InApp] = "none"
          /\ \A d \in External : task[w].out[d] = "delivered" => Accepted(d)'
        BY <1>0, <1>2 DEF OutcomesAreTrue, Accepted
    <2> QED
        BY <1>0, <1>1, <1>2, <2>1, <2>2, <2>3, PlanFrame
<1>5. CASE durableDelivery(w)
    <2>1. \/ task' = [task EXCEPT ![w].pc = "io"]
          \/ \E o \in {readDeliveryReceipt(c), "reconcile"} :
                Outcomes(w, o) /\ receipt' = receipt
        BY <1>5 DEF durableDelivery
    <2>2. CASE task' = [task EXCEPT ![w].pc = "io"]
        BY <1>3, <1>4, <2>2 DEF Kept, InFlight
    <2>3. CASE \E o \in {readDeliveryReceipt(c), "reconcile"} :
                  Outcomes(w, o) /\ receipt' = receipt
        <3>1. \A o \in {readDeliveryReceipt(c), "reconcile"} :
                  o \in Outcome /\ (o = "delivered" => receipt[c].status = "accepted")
            BY ReceiptOutcome DEF readDeliveryReceipt, Outcome
        <3> QED
            BY <1>0, <1>1, <1>2, <1>3, <2>3, <3>1, OutcomesKeep DEF Kept
    <2> QED
        BY <2>1, <2>2, <2>3
<1>6. CASE ProviderAnswers(w)
    <2>1. \E pc \in InFlight : task' = [task EXCEPT ![w].pc = pc]
        BY <1>6 DEF ProviderAnswers, InFlight
    <2> QED
        BY <1>3, <1>4, <2>1 DEF Kept
<1> QED
    BY <1>5, <1>6

(* The answer is recorded, with its log row.                               *)
LEMMA RecordKeeps ==
    ASSUME RInv, NEW w \in Workers, RecordSend(w)
    PROVE  Kept
<1> DEFINE c == task[w].cur
<1>0. /\ task[w] \in Task /\ c \in External
      /\ receipt \in [External -> ReceiptRow] /\ logged \in [Channels -> Nat]
      /\ Records
      /\ task[w].pc \in InTransport /\ task[w].pc \in InFlight
    BY DEF RInv, IInv, TypeOK, TransportHasChannel, InTransport, InFlight, RecordSend
<1>1. UNCHANGED <<outbox, job, dead, inbox>>
    BY DEF RecordSend
<1>2. receipt[c] = [status |-> "sending", by |-> w]
    BY <1>0, Zenon DEF RInv, IInv, FlightIsFenced
<1>3. \E status \in {"accepted", "rejected", "unknown"}, o \in Outcome :
          /\ receipt' = [receipt EXCEPT ![c] = [status |-> status, by |-> None]]
          /\ Outcomes(w, o)
          /\ o = "delivered" => status = "accepted"
          /\ logged' = IF status = "accepted" THEN [logged EXCEPT ![c] = @ + 1]
                                              ELSE logged
    <2>1. \A o \in {"delivered", "permanent", "reconcile", "retry"} : o \in Outcome
        BY DEF Outcome
    <2>2. CASE task[w].pc = "accepted"
        <3>1. /\ receipt' = [receipt EXCEPT ![c] =
                                [status |-> "accepted", by |-> None]]
              /\ Outcomes(w, "delivered") \/ Outcomes(w, "retry")
              /\ logged' = [logged EXCEPT ![c] = @ + 1]
            BY <1>2, <2>2 DEF RecordSend
        <3> QED
            BY <2>1, <3>1
    <2>3. CASE task[w].pc = "rejected"
        <3>1. /\ receipt' = [receipt EXCEPT ![c] =
                                [status |-> "rejected", by |-> None]]
              /\ Outcomes(w, "permanent") \/ Outcomes(w, "retry")
              /\ logged' = logged
            BY <1>2, <2>3 DEF RecordSend
        <3> QED
            BY <2>1, <3>1
    <2>4. CASE task[w].pc = "uncertain"
        <3>1. /\ receipt' = [receipt EXCEPT ![c] =
                                [status |-> "unknown", by |-> None]]
              /\ Outcomes(w, "reconcile") \/ Outcomes(w, "retry")
              /\ logged' = logged
            BY <1>2, <2>4 DEF RecordSend
        <3> QED
            BY <2>1, <3>1
    <2> QED
        BY <2>2, <2>3, <2>4 DEF RecordSend
<1>4. PICK status \in {"accepted", "rejected", "unknown"}, o \in Outcome :
          /\ receipt' = [receipt EXCEPT ![c] = [status |-> status, by |-> None]]
          /\ Outcomes(w, o)
          /\ o = "delivered" => status = "accepted"
          /\ logged' = IF status = "accepted" THEN [logged EXCEPT ![c] = @ + 1]
                                              ELSE logged
    BY <1>3
<1>5. /\ receipt[c].status = "sending" /\ receipt'[c].status = status
      /\ \A d \in External \ {c} : receipt'[d] = receipt[d]
    BY <1>0, <1>2, <1>4
<1>6. /\ logged'[c] = IF status = "accepted" THEN logged[c] + 1 ELSE logged[c]
      /\ \A d \in Channels \ {c} : logged'[d] = logged[d]
      /\ c \in Channels /\ InApp \in Channels \ {c}
    BY <1>0, <1>4, ChannelsAssumption DEF Channels
<1>7. ClaimIsCurrent' /\ OutcomesAreTrue'
    <2>1. \A d \in External : Accepted(d) => Accepted(d)'
        BY <1>5 DEF Accepted
    <2>2. o = "delivered" => receipt'[c].status = "accepted"
        BY <1>4, <1>5
    <2> QED
        BY <1>0, <1>1, <1>4, <2>1, <2>2, OutcomesKeep
<1> HIDE DEF c
<1>8. DoneIsDelivered' /\ DeadIsTriaged'
    BY <1>0, <1>1, <1>5 DEF Records, DoneIsDelivered, DeadIsTriaged
<1>9. LoggedOnce'
    <2>1. logged[c] = 0
        BY <1>0, <1>5 DEF Records, LoggedOnce
    <2>2. External \subseteq Channels
        BY DEF Channels
    <2>3. logged'[InApp] = inbox'
        BY <1>0, <1>1, <1>6 DEF Records, LoggedOnce
    <2>4. \A d \in External : logged'[d] = IF receipt'[d].status = "accepted"
                                           THEN 1 ELSE 0
        BY <1>0, <1>5, <1>6, <2>1, <2>2 DEF Records, LoggedOnce
    <2> QED
        BY <2>3, <2>4 DEF LoggedOnce
<1> QED
    BY <1>1, <1>7, <1>8, <1>9 DEF Kept, Records, EndedStep

(* The outcomes are stored.                                                *)
LEMMA PersistKeeps ==
    ASSUME RInv, NEW w \in Workers, Persist(w) \/ Fallback(w)
    PROVE  Kept
<1> DEFINE t == task[w]
<1>0. /\ TypeOK /\ t \in Task /\ task \in [Workers -> Task]
      /\ ClaimIsCurrent /\ OutcomesAreTrue /\ Records
      /\ t.pc \in Working
    BY DEF RInv, IInv, TypeOK, Working, Persist, Fallback
<1>1. receipt' = receipt /\ task' = [task EXCEPT ![w] = Idle]
    BY DEF Persist, Fallback
<1>2. InApp \in Channels /\ External \subseteq Channels
    BY DEF Channels
<1>3. /\ t.out[InApp] = "none"
      /\ \A c \in External : t.out[c] = "delivered" => Accepted(c)
      /\ t.out \in [Channels -> Outcome]
    BY <1>0 DEF OutcomesAreTrue, Accepted, Task
<1>4. Records' /\ JobsStay /\ outbox'.lease = None /\ ~outbox'.live
    <2>1. CASE Persist(w)
        <3>1. \A c \in Channels : Touches(t, c) => ~terminalJob(job[c])
            BY <1>0, <2>1 DEF Persist, assertOutboxClaim, ClaimIsCurrent, Claims
        <3>2. PICK out \in {t.out, [t.out EXCEPT ![InApp] = "delivered"],
                            [t.out EXCEPT ![InApp] = "retry"]} :
                  /\ persistOutcomes(t.read, out, t.skip, t.defer)
                  /\ out # t.out => t.inApp
                  /\ \/ out = t.out /\ inbox' = inbox
                     \/ out = [t.out EXCEPT ![InApp] = "delivered"] /\ inbox' = 1
                     \/ out = [t.out EXCEPT ![InApp] = "retry"] /\ inbox' = inbox
            BY <2>1, Zenon DEF Persist
        <3>3. out \in [Channels -> Outcome] /\ t.read \in [Channels -> Nat]
            BY <1>0, <1>3 DEF Task, Outcome
        <3>4. \A c \in External : out[c] = t.out[c]
            BY <1>2, <1>3, ChannelsAssumption
        <3>5. inbox' = IF out[InApp] = "delivered" THEN 1 ELSE inbox
            BY <1>2, <1>3, <3>2
        <3>6. \A c \in Channels : out[c] # "none" \/ c \in t.skip => Touches(t, c)
            BY <1>3, <3>2, <3>4 DEF Touches, Channels
        <3> HIDE DEF t
        <3> QED
            BY <1>0, <1>1, <1>3, <3>1, <3>2, <3>3, <3>4, <3>5, <3>6,
               PersistKeepsRecords
    <2>2. CASE Fallback(w)
        <3> DEFINE out == [c \in Channels |->
                             CASE c \notin DueJobs -> "none"
                               [] c \in DueJobs /\ t.out[c] # "none" -> t.out[c]
                               [] OTHER -> "retry"]
                   read == [c \in Channels |-> job[c].attempts]
        <3>1. persistOutcomes(read, out, {}, {}) /\ inbox' = inbox
            BY <2>2 DEF Fallback
        <3>2. out \in [Channels -> Outcome]
            BY <1>3 DEF Outcome
        <3>3. read \in [Channels -> Nat]
            BY <1>0 DEF TypeOK, JobRow
        <3>4. \A c \in Channels : out[c] # "none" => ~terminalJob(job[c])
            BY DEF DueJobs
        <3>5. \A c \in Channels : out[c] = "delivered" => t.out[c] = "delivered"
            OBVIOUS
        <3>6. out[InApp] # "delivered"
            BY <1>2, <1>3, <3>5
        <3>7. \A c \in External : out[c] = "delivered" => Accepted(c)
            BY <1>2, <1>3, <3>5
        <3> HIDE DEF read, out, t
        <3> QED
            BY <1>0, <1>1, <3>1, <3>2, <3>3, <3>4, <3>6, <3>7, PersistKeepsRecords
    <2> QED
        BY <2>1, <2>2
<1>5. \A v \in Workers : task'[v].pc \in Working => task'[v] = task[v]
    BY <1>0, <1>1 DEF Idle, Working, InTransport, InFlight
<1>6. \A v \in Workers : ~Claims(v)'
    BY <1>4 DEF Claims
<1>7. ClaimIsCurrent' /\ OutcomesAreTrue'
    <2>1. \A c \in External : Accepted(c) => Accepted(c)'
        BY <1>1 DEF Accepted
    <2> QED
        BY <1>0, <1>5, <1>6, <2>1, TasksFrame
<1> QED
    BY <1>4, <1>7 DEF Kept, JobsStay, EndedStep

-----------------------------------------------------------------------------

LEMMA RecordsInit == Init => RInv
<1> SUFFICES ASSUME Init PROVE RInv
    OBVIOUS
<1>1. \A w \in Workers : task[w].pc \notin Working
    BY DEF Init, Idle, Working, InTransport, InFlight
<1>2. ClaimIsCurrent /\ OutcomesAreTrue
    BY <1>1 DEF ClaimIsCurrent, OutcomesAreTrue
<1>3. Records
    BY DEF Init, Records, DoneIsDelivered, LoggedOnce, DeadIsTriaged, NewJob, Channels
<1> QED
    BY <1>2, <1>3, InitStep DEF RInv

LEMMA RecordsNext == RInv /\ [Next]_vars => RInv' /\ (EndedStep \/ UNCHANGED vars)
<1> SUFFICES ASSUME RInv, [Next]_vars
             PROVE  RInv' /\ (EndedStep \/ UNCHANGED vars)
    OBVIOUS
<1>1. IInv'
    BY NextStep DEF RInv
<1>2. ASSUME NEW w \in Workers, leaseOutbox(w) \/ WorkerStep(w) \/ Crash(w)
      PROVE  Kept
    BY <1>2, ClaimKeeps, ReadJobsKeeps, TransportKeeps, SendKeeps, RecordKeeps,
       PersistKeeps DEF WorkerStep
<1>3. CASE UNCHANGED vars
    <2>1. Records' /\ ClaimIsCurrent' /\ OutcomesAreTrue'
        BY <1>3 DEF vars, RInv, Records, ClaimIsCurrent, OutcomesAreTrue,
                    DoneIsDelivered, LoggedOnce, DeadIsTriaged, Claims, Touches
    <2> QED
        BY <1>1, <1>3, <2>1 DEF RInv
<1>4. CASE Next
    <2>1. Kept
        BY <1>2, <1>4, RowKeeps DEF Next
    <2> QED
        BY <1>1, <2>1 DEF Kept, RInv
<1> QED
    BY <1>3, <1>4

LEMMA RecordsInductive == Spec => []RInv
<1>1. RInv /\ [Next]_vars => RInv'
    BY RecordsNext
<1> QED
    BY <1>1, RecordsInit, PTL DEF Spec

(* persistOutcomes: a job is done exactly when its message exists, an      *)
(* accepted send or the one inbox row.                                     *)
THEOREM DeliveredWhenDone == Spec => []DoneIsDelivered
<1>1. RInv => DoneIsDelivered
    BY DEF RInv, Records
<1> QED
    BY <1>1, RecordsInductive, PTL

(* writeDeliveryLog, durableDelivery: one delivered log row per message,   *)
(* whichever worker records it.                                            *)
THEOREM LogsOnce == Spec => []LoggedOnce
<1>1. RInv => LoggedOnce
    BY DEF RInv, Records
<1> QED
    BY <1>1, RecordsInductive, PTL

(* writeDeadLetter: dead jobs, and no others, are in triage.               *)
THEOREM TriagesDead == Spec => []DeadIsTriaged
<1>1. RInv => DeadIsTriaged
    BY DEF RInv, Records
<1> QED
    BY <1>1, RecordsInductive, PTL

(* persistOutcomes: job, log and dead letter of a message agree with what  *)
(* became of it.                                                           *)
THEOREM RecordsStayTrue == Spec => []RecordsAgree
    BY DeliveredWhenDone, LogsOnce, TriagesDead, PTL DEF RecordsAgree

(* assertOutboxClaim: an ended job changes only when staff retry it.       *)
THEOREM EndedStays == Spec => EndedJobsStay
<1>1. RInv /\ [Next]_vars =>
        [\A c \in Channels :
          terminalJob(job[c]) /\ job'[c] # job[c] =>
             /\ dead[c] = "open" /\ dead'[c] = "retried"
             /\ job'[c] = NewJob]_vars
    BY RecordsNext DEF EndedStep
<1> QED
    BY <1>1, RecordsInductive, PTL DEF Spec, EndedJobsStay

-----------------------------------------------------------------------------
(* The status of the row.  Whoever writes jobs writes the aggregate of     *)
(* them in the same transaction, and nobody writes jobs of a row that is   *)
(* not there.                                                              *)

SInv ==
    /\ OutboxAgrees
    /\ outbox.status = "absent" => job = [c \in Channels |-> NewJob]

LEMMA RefreshAgrees ==
    ASSUME outbox' = refreshOutboxState(job') PROVE SInv'
<1>1. outbox'.status \in {"queued", "scheduled", "failed", "delivered"}
    BY DEF refreshOutboxState
<1> QED
    BY <1>1 DEF SInv, OutboxAgrees, Dispatchable, refreshOutboxState

(* A step that keeps status and jobs, but for the dates.                   *)
LEMMA StatusKept ==
    ASSUME SInv,
           \/ outbox'.status = outbox.status
           \/ outbox.status \in Dispatchable /\ outbox'.status \in Dispatchable,
           \/ job' = job
           \/ /\ outbox.status \in Dispatchable
              /\ \A c \in Channels : job'[c].status = job[c].status
    PROVE  SInv'
BY DEF SInv, OutboxAgrees, Dispatchable, terminalJob

LEMMA StatusInit == Init => SInv
BY DEF Init, SInv, OutboxAgrees, Dispatchable

LEMMA StatusStep ==
    ASSUME IInv, SInv, [Next]_vars PROVE SInv'
<1>1. CASE enqueueOutbox
    <2>1. /\ \A c \in Channels : ~terminalJob(job'[c])
          /\ outbox'.status \in {"queued", "scheduled"}
        BY <1>1 DEF enqueueOutbox, SInv, NewJob, terminalJob, IInv, TypeOK,
                    OutboxRow
    <2> QED
        BY <2>1 DEF SInv, OutboxAgrees, Channels, Dispatchable
<1>2. CASE reconcileChannelWindows
    BY <1>2, RefreshAgrees DEF reconcileChannelWindows
<1>3. CASE LeaseLapses \/ LeaseExpires
    BY <1>3, StatusKept DEF LeaseLapses, LeaseExpires, IInv, TypeOK, OutboxRow
<1>4. ASSUME NEW c \in Channels, TimePasses(c) PROVE SInv'
    BY <1>4, StatusKept
       DEF TimePasses, IInv, TypeOK, OutboxRow, JobRow
<1>5. ASSUME NEW c \in Channels, retryFailedNotification(c) PROVE SInv'
    <2>1. outbox'.status = "queued" /\ ~terminalJob(job'[c])
        BY <1>5 DEF retryFailedNotification, IInv, TypeOK, NewJob, terminalJob
    <2> QED
        BY <2>1 DEF SInv, OutboxAgrees
<1>6. ASSUME NEW c \in Channels, closeFailedNotification(c) PROVE SInv'
    BY <1>6, StatusKept DEF closeFailedNotification
<1>7. ASSUME NEW w \in Workers, leaseOutbox(w) \/ startOutboxLease(w) \/ stop(w)
      PROVE  SInv'
    BY <1>7, StatusKept DEF leaseOutbox, startOutboxLease, stop, renew, IInv,
                            TypeOK, OutboxRow, Dispatchable
<1>8. ASSUME NEW w \in Workers, Persist(w) \/ Fallback(w) PROVE SInv'
    BY <1>8, RefreshAgrees DEF Persist, Fallback, persistOutcomes
<1>9. ASSUME NEW w \in Workers,
             \/ ReadJobs(w) \/ ReadReceipt(w) \/ LeaseLost(w)
             \/ \E c \in External : beforeSend(w, c)
             \/ PreflightFails(w) \/ durableDelivery(w) \/ ProviderAnswers(w)
             \/ RecordSend(w) \/ RecordFails(w) \/ PersistFails(w) \/ Crash(w)
      PROVE  SInv'
    <2>1. UNCHANGED <<outbox, job>>
        BY <1>9 DEF ReadJobs, ReadReceipt, LeaseLost, beforeSend,
                    PreflightFails, durableDelivery, ProviderAnswers,
                    RecordSend, RecordFails, PersistFails, Crash
    <2> QED
        BY <2>1, StatusKept
<1>10. CASE UNCHANGED vars
    BY <1>10, StatusKept DEF vars
<1> QED
    BY <1>1, <1>2, <1>3, <1>4, <1>5, <1>6, <1>7, <1>8, <1>9, <1>10
       DEF Next, WorkerStep

(* refreshOutboxState: the row's status is that of all its jobs; no row is *)
(* closed while a job waits, and none is open without one.                 *)
THEOREM StatusAgrees == Spec => []OutboxAgrees
<1>1. RInv => IInv
    BY DEF RInv
<1>2. IInv /\ SInv /\ [Next]_vars => SInv'
    BY StatusStep
<1>3. SInv => OutboxAgrees
    BY DEF SInv
<1> QED
    BY <1>1, <1>2, <1>3, StatusInit, RecordsInductive, PTL DEF Spec

=============================================================================
